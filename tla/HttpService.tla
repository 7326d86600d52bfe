----------------------------- MODULE HttpService -----------------------------
(***************************************************************************)
(* What the server promises a client: a request gets at most one answer,   *)
(* user code runs at most once for it, only for a request the router sent  *)
(* to a Python handler, never once it is answered, and an answer with a    *)
(* handler's result comes after the handler ran.  A client may leave, and  *)
(* the process may stop, at any time.                                      *)
(***************************************************************************)
CONSTANT Requests

VARIABLES phase,   \* phase[r]: "idle", "open", "done" or "gone"
          target,  \* target[r]: what the router finds for r
          user,    \* user[r]: user code so far: "none", "called", "ran"
          answer,  \* answer[r]: what r was answered
          up       \* the process is alive

hvars == <<phase, target, user, answer, up>>

Targets == {"missing", "wrong_method", "rust", "python"}

HInit == /\ phase = [r \in Requests |-> "idle"]
         /\ target \in [Requests -> Targets]
         /\ user = [r \in Requests |-> "none"]
         /\ answer = [r \in Requests |-> "none"]
         /\ up = TRUE

Open(r) == /\ phase[r] = "idle"
           /\ phase' = [phase EXCEPT ![r] = "open"]
           /\ UNCHANGED <<target, user, answer, up>>

\* The handler of r is called.
Call(r) == /\ phase[r] = "open" /\ target[r] = "python" /\ user[r] = "none"
           /\ user' = [user EXCEPT ![r] = "called"]
           /\ UNCHANGED <<phase, target, answer, up>>

\* The coroutine the handler returned is run, the client being there or not.
RunOnce(r) == /\ phase[r] \in {"open", "gone"} /\ user[r] = "called"
              /\ user' = [user EXCEPT ![r] = "ran"]
              /\ UNCHANGED <<phase, target, answer, up>>

Earned(r, a) ==
    \/ a = "NotFound" /\ target[r] = "missing"
    \/ a = "MethodNotAllowed" /\ target[r] = "wrong_method"
    \/ a = "BodyRefused" /\ user[r] = "none"
    \/ a = "HandlerError" /\ target[r] \in {"rust", "python"}
    \/ a = "Ok" /\ (target[r] = "rust" \/ user[r] # "none")

Reply(r, a) == /\ phase[r] = "open"
               /\ Earned(r, a)
               /\ phase' = [phase EXCEPT ![r] = "done"]
               /\ answer' = [answer EXCEPT ![r] = a]
               /\ UNCHANGED <<target, user, up>>

Leave(r) == /\ phase[r] = "open"
            /\ phase' = [phase EXCEPT ![r] = "gone"]
            /\ UNCHANGED <<target, user, answer, up>>

Stop == up' = FALSE /\ UNCHANGED <<phase, target, user, answer>>

Answers == {"NotFound", "MethodNotAllowed", "BodyRefused", "HandlerError", "Ok"}

HNext == /\ up
         /\ \/ \E r \in Requests : Open(r) \/ Call(r) \/ RunOnce(r) \/ Leave(r)
            \/ \E r \in Requests, a \in Answers : Reply(r, a)
            \/ Stop

HSpec == HInit /\ [][HNext]_hvars
=============================================================================
