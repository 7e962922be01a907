------------------------------ MODULE MCSignal ------------------------------
(* An instance of Signal: which signals, which arguments, which program. *)
EXTENDS Signal

\* SIGALRM (terminates), SIGURG (ignored) and SIGKILL
MCSignals == {2, 23, 28}
\* nothing and everything
MCSets == {{}, Signals \cup {29}}
\* every call there is
MCCalls == {"sigaction", "sigprocmask", "sigwait", "sigsuspend",
            "other", "raise", "exec", "exit"}
=============================================================================
