---------------------------- MODULE HealthServer ----------------------------
(***************************************************************************)
(* The health server (src/src/health.rs): a thread that polls a flag and   *)
(* answers requests, and its handle, which is shut down or dropped.  Of    *)
(* the requests only those for /health/ready matter here.                  *)
(***************************************************************************)

VARIABLES
    loop,           \* where serve_loop is
    stop,           \* the shutdown flag
    handle,         \* the HealthServer value
    request         \* sent before or after the flag was set, and not yet answered

healthVars == <<loop, stop, handle, request>>

HealthTypeOK ==
    /\ loop \in {"off", "testing", "waiting", "serving", "ready", "not_ready"}
    /\ stop \in BOOLEAN
    /\ handle \in {"none", "held", "joining", "gone"}
    /\ request \in {"none", "early", "late"}

HealthInit ==
    /\ loop = "off" /\ stop = FALSE /\ handle = "none" /\ request = "none"
-----------------------------------------------------------------------------
\* Binding the port fails while the thread of an earlier server still has it.
StartServer ==
    /\ handle \in {"none", "gone"} /\ loop = "off"
    /\ loop' = "testing" /\ stop' = FALSE /\ handle' = "held"
    /\ UNCHANGED request

Shutdown ==
    /\ handle = "held"
    /\ stop' = TRUE /\ handle' = "joining"
    /\ UNCHANGED <<loop, request>>

Drop ==
    /\ handle = "held"
    /\ stop' = TRUE /\ handle' = "gone"
    /\ UNCHANGED <<loop, request>>

Join ==
    /\ handle = "joining" /\ loop = "off"
    /\ handle' = "gone"
    /\ UNCHANGED <<loop, stop, request>>

\* A client asks; the listener takes requests as long as the thread runs.
Ask ==
    /\ loop # "off" /\ request = "none"
    /\ request' = IF stop THEN "late" ELSE "early"
    /\ UNCHANGED <<loop, stop, handle>>
-----------------------------------------------------------------------------
\* The thread is gone and its connections with it.
Over == loop' = "off" /\ request' = "none" /\ UNCHANGED <<stop, handle>>
Goto(step) == loop' = step /\ UNCHANGED <<stop, handle, request>>

TestFlag ==
    /\ loop = "testing"
    /\ IF stop THEN Over ELSE Goto("waiting")

\* recv_timeout: a request, the end of the 250 ms, an error.
Receive ==
    \/ loop = "waiting" /\ request # "none" /\ Goto("serving")
    \/ loop = "waiting" /\ request = "none" /\ Goto("testing")
    \/ loop = "waiting" /\ Over

\* mount_point.exists() says yes of an empty directory that nothing is mounted
\* on, and no of a mount whose process is gone.
MutantDecide ==                     \* the flag is not tested a second time
    /\ loop = "serving"
    /\ \E exists \in BOOLEAN : Goto(IF exists THEN "ready" ELSE "not_ready")
Decide ==
    /\ loop = "serving"
    /\ \E exists \in BOOLEAN : Goto(IF exists /\ ~stop THEN "ready" ELSE "not_ready")

MutantRespond ==                    \* more of the same client is read first
    /\ loop \in {"ready", "not_ready"}
    /\ loop' = "waiting" /\ request' = "none"
    /\ UNCHANGED <<stop, handle>>
Respond ==
    /\ loop \in {"ready", "not_ready"}
    /\ loop' = "testing" /\ request' = "none"
    /\ UNCHANGED <<stop, handle>>

LoopStep == TestFlag \/ Receive \/ Decide \/ Respond

HealthNext == StartServer \/ Shutdown \/ Drop \/ Join \/ Ask \/ LoopStep

\* Its process ends.
ServerDies ==
    loop' = "off" /\ stop' = FALSE /\ handle' = "none" /\ request' = "none"
-----------------------------------------------------------------------------
\* "503 if shutting down" (health.rs:9): whoever asks after shutdown was called
\* is not told that the mount is ready, also if the thread was past its test of
\* the flag.
NotReadyOnceStopped == request = "late" => loop # "ready"

\* "the thread will notice the flag and exit on its next timeout cycle"
\* (health.rs:160-161), also when clients never stop asking or never ask.
StoppedServerEnds == stop ~> loop = "off"
=============================================================================
