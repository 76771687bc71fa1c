--------------------------- MODULE FrameReassembly ---------------------------
(***************************************************************************)
(* Envelopes over a link as frames (link/frame.mjs, pipe.mjs): the sender  *)
(* cuts an envelope, the network loses, duplicates and reorders the        *)
(* frames, the receiver puts them together in a table of bounded size and  *)
(* drops the envelopes whose id it has completed before.                   *)
(***************************************************************************)
EXTENDS Naturals, FiniteSets, Sequences, SequencesExt

CONSTANTS
  Envelopes,
  Long,          \* those that take two frames; the others take one
  MaxPartials,   \* partial messages kept at a time (maxPartials)
  MaxCompleted,  \* ids of completed envelopes remembered (completedFrameIds)
  MaxCopies      \* bound: frames duplicated

ASSUME FramesAssumption ==
  /\ Long \subseteq Envelopes
  /\ MaxPartials \in Nat \ {0} /\ MaxCompleted \in Nat \ {0} /\ MaxCopies \in Nat

VARIABLES
  sent,       \* the envelopes sent
  network,    \* the frames under way
  partials,   \* by envelope, the numbers of the frames received; {} without an entry
  completed,  \* completedFrameIds, the least recent first
  delivered,  \* how often each envelope was given to the listeners
  forgotten,  \* history: the ids that completedFrameIds dropped
  copies      \* duplicates so far

frameVars == <<sent, network, partials, completed, delivered, forgotten, copies>>

\* encodeFrames
Total(e) == IF e \in Long THEN 2 ELSE 1
Frames(e) == [envelope : {e}, seq : 0..(Total(e) - 1)]

InitFrames ==
  /\ sent = {} /\ network = {}
  /\ partials = [e \in Envelopes |-> {}]
  /\ completed = <<>>
  /\ delivered = [e \in Envelopes |-> 0]
  /\ forgotten = {}
  /\ copies = 0

SendFrames(e) ==
  /\ e \notin sent
  /\ sent' = sent \cup {e}
  /\ network' = network \cup Frames(e)
  /\ UNCHANGED <<partials, completed, delivered, forgotten, copies>>

LoseFrame(f) ==
  /\ network' = network \ {f}
  /\ UNCHANGED <<sent, partials, completed, delivered, forgotten, copies>>

\* Mutant of Fits: one partial too many.
FitsOneMore(e) ==
  partials[e] # {} \/ Cardinality({d \in Envelopes : partials[d] # {}}) <= MaxPartials

\* push throws when a new partial does not fit: the frame is dropped.
Fits(e) == partials[e] # {} \/ Cardinality({d \in Envelopes : partials[d] # {}}) < MaxPartials

\* completedFrameIds.touch: the new id is the most recent, and the oldest goes.
Touched(e) ==
  LET all == Append(completed, e)
  IN IF Len(all) > MaxCompleted THEN Tail(all) ELSE all

\* Mutant of Completes: every whole message is delivered.
CompletesAgain(e) ==
  /\ delivered' = [delivered EXCEPT ![e] = @ + 1]
  /\ UNCHANGED <<completed, forgotten>>

\* A whole message: an id that was completed before is dropped.
Completes(e) ==
  IF Contains(completed, e)
  THEN UNCHANGED <<completed, delivered, forgotten>>
  ELSE /\ delivered' = [delivered EXCEPT ![e] = @ + 1]
       /\ completed' = Touched(e)
       /\ forgotten' = forgotten \cup (Range(completed) \ Range(Touched(e)))

\* handleBinaryFrame and push.  The network may keep a copy of the frame.
ReceiveFrame(f) ==
  LET e == f.envelope
      got == partials[e] \cup {f.seq}
      whole == Cardinality(got) = Total(e)
  IN /\ \/ network' = network \ {f} /\ UNCHANGED copies
        \/ copies < MaxCopies /\ copies' = copies + 1 /\ UNCHANGED network
     /\ IF Fits(e) /\ whole THEN Completes(e) ELSE UNCHANGED <<completed, delivered, forgotten>>
     /\ partials' = IF Fits(e) THEN [partials EXCEPT ![e] = IF whole THEN {} ELSE got] ELSE partials
     /\ UNCHANGED sent

NextFrames ==
  \/ \E e \in Envelopes : SendFrames(e)
  \/ \E f \in network : LoseFrame(f) \/ ReceiveFrame(f)

\* What is under way arrives or is lost.
FairFrames == \A f \in UNION {Frames(e) : e \in Envelopes} :
  WF_frameVars(f \in network /\ (LoseFrame(f) \/ ReceiveFrame(f)))

SpecFrames == InitFrames /\ [][NextFrames]_frameVars
FairSpecFrames == SpecFrames /\ FairFrames

-----------------------------------------------------------------------------
(* Properties. *)

\* Types of the state.
FramesTypeOK ==
  /\ sent \subseteq Envelopes
  /\ network \subseteq UNION {Frames(e) : e \in Envelopes}
  /\ \A e \in Envelopes : partials[e] \subseteq 0..(Total(e) - 1)
  /\ Cardinality({e \in Envelopes : partials[e] # {}}) <= MaxPartials
  /\ completed \in Seq(Envelopes) /\ Len(completed) <= MaxCompleted
  /\ delivered \in [Envelopes -> Nat]
  /\ forgotten \subseteq Envelopes /\ copies \in 0..MaxCopies

\* An envelope is delivered at most once, whatever copies of its frames come late, as long
\* as its id is remembered (pipe.mjs:251-253).
DeliveredOnce == \A e \in Envelopes : delivered[e] > 1 => e \in forgotten

\* The comments at frame.mjs:16 and :189: a message whose frames do not all come is given up
\* after the partial timeout.
PartialsExpire == \A e \in Envelopes : partials[e] # {} ~> partials[e] = {}
=============================================================================
