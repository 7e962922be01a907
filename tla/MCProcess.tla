----------------------------- MODULE MCProcess ------------------------------
(* Instances of Process for TLC. *)
EXTENDS Process

\* waitid for any child or for the first process of slot 3
MCWaitIds == {P_ALL, <<3, 0>>}
MCWaitAny == {P_ALL}
\* blocking or not
MCWaitOptions == {{"WEXITED"}, {"WEXITED", "WNOHANG"}}
MCWaitBlocking == {{"WEXITED"}}
=============================================================================
