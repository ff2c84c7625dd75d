---------------------------- MODULE FifoChannel ----------------------------
(***************************************************************************)
(* What a quark::msg_queue promises its users, without its lock, its        *)
(* semaphore or its flag: messages leave in the order in which they entered *)
(* it, one at a time, and those left when it is destroyed go to the cleaner.*)
(***************************************************************************)
EXTENDS Sequences

CONSTANT Messages       \* what producers may put

VARIABLES chan,         \* messages put and not yet taken
          taken,        \* messages taken, in order
          discarded     \* messages given to the cleaner at destruction

chanVars == <<chan, taken, discarded>>

Init == chan = <<>> /\ taken = <<>> /\ discarded = <<>>

Put == /\ \E m \in Messages : chan' = Append(chan, m)
       /\ UNCHANGED <<taken, discarded>>

Take == /\ chan # <<>>
        /\ taken' = Append(taken, Head(chan))
        /\ chan' = Tail(chan)
        /\ UNCHANGED discarded

Discard == /\ discarded = <<>>
           /\ discarded' = chan
           /\ chan' = <<>>
           /\ UNCHANGED taken

Next == Put \/ Take \/ Discard

Spec == Init /\ [][Next]_chanVars
=============================================================================
