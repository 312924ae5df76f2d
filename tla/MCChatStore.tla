----------------------------- MODULE MCChatStore -----------------------------
(* Small instances of ChatStore for TLC. *)
EXTENDS ChatStore, TLC

CallsMixed == {<<"query", "deploy">>, <<"deploy", "deploy", "other">>}
CallsOther == {<<"query", "other">>}
CallsShort == {<<"query">>, <<"query", "query">>}
Symmetric == Permutations(Wallets)
=============================================================================
