------------------------------ MODULE Classify ------------------------------
(***************************************************************************)
(* From the bytes of a frame to its queue: poll() parses and validates a   *)
(* frame (Parser) and distribute() takes an accepted one by its 5-tuple,   *)
(* its hash and the redirection table to a queue (Rss), while the table is *)
(* replaced.                                                               *)
(***************************************************************************)
EXTENDS Parser, Rss

CONSTANT FlowFrames  \* the frames the link delivers while RSS is on

VARIABLE enabled  \* Config::Rss::enabled

ASSUME ClassifyAssumption == FlowFrames \subseteq Frames

classifyVars == <<parserVars, vars, enabled>>

ClassifyInit == ParserInit /\ Init /\ enabled \in BOOLEAN

Arriving == IF enabled THEN FlowFrames ELSE Frames

Hashable == parser.l2 \in {"Ipv4", "Ipv6"}

\* parse() and validate() on the frame poll() has taken.
Handle == /\ \/ pc = "idle" /\ \E f \in Arriving : Parse(f)
             \/ ParseSteps
          /\ UNCHANGED <<vars, enabled>>

\* A frame that is not accepted is dropped.
DropFrame == /\ verdict # "accepted"
             /\ NextFrame
             /\ UNCHANGED <<vars, enabled>>

\* distribute(): by its flow, or to the default queue.
DistributeFrame == /\ verdict = "accepted"
                   /\ NextFrame
                   /\ IF enabled /\ Hashable
                        THEN Distribute(Get5Tuple) ELSE UNCHANGED vars
                   /\ UNCHANGED enabled

Update == /\ enabled
          /\ \E r \in Retas : UpdateReta(r)
          /\ UNCHANGED <<parserVars, enabled>>

ClassifyNext == Handle \/ DropFrame \/ DistributeFrame \/ Update

ClassifySpec == ClassifyInit /\ [][ClassifyNext]_classifyVars

=============================================================================
