------------------------------ MODULE Lifecycle -----------------------------
(***************************************************************************)
(* What utils/stateful.h promises to the users of a port: the transitions  *)
(* between its states, whoever calls, and a poll thread that lives within  *)
(* them.  It begins only in Started, and it is over before the port fails, *)
(* rests or is configured again.                                           *)
(***************************************************************************)

VARIABLES state,  \* Stateful::state_
          polls   \* the poll loop runs

vars == <<state, polls>>

Init == state = "Stopped" /\ polls = FALSE

\* From one of the states in from to the state to
Move(from, to) == state \in from /\ state' = to /\ UNCHANGED polls

Configure == \/ Move({"Stopped", "Configured", "Error"}, "Configuring")
             \/ Move({"Configuring"}, "Configured")

Start == Move({"Configured"}, "Starting") \/ Move({"Starting"}, "Started")

Stop == \/ Move({"Started"}, "Stopping")
        \/ ~polls /\ Move({"Stopping"}, "Stopped")

\* A failing *Impl().  start() fails with Started already published.
Fail == ~polls /\ Move({"Configuring", "Started", "Stopping"}, "Error")

Destroy == state # "Destroyed" /\ state' = "Destroyed" /\ UNCHANGED polls

BeginPoll == /\ state = "Started" /\ ~polls
             /\ polls' = TRUE
             /\ UNCHANGED state

EndPoll == /\ state \in {"Stopping", "Destroyed"} /\ polls
           /\ polls' = FALSE
           /\ UNCHANGED state

Next == Configure \/ Start \/ Stop \/ Fail \/ Destroy \/ BeginPoll \/ EndPoll

Spec == Init /\ [][Next]_vars

=============================================================================
