--------------------------- MODULE SingletonProofs ---------------------------
(***************************************************************************)
(* Proofs about Singleton, for any threads and any types: the double-checked *)
(* creation makes each singleton once, whatever constructors and destructors *)
(* ask for; exit destroys all of them, in the order that is promised.        *)
(***************************************************************************)
EXTENDS Singleton, SequenceTheorems, FiniteSetTheorems, TLAPS

Steps == {"test", "lock", "again", "create", "schedule", "unlock", "destroy"}
Frames == [type : Types, pc : Steps, todo : Seq(Types)]

HolderTypeOK == /\ calls \in [Clients -> Seq(Frames)]
                /\ mutex \in [Types -> Clients \cup {NoClient}]
                /\ made \in [Types -> Seq(Clients)]

\* The steps of a call between lock and unlock.
Locked == {"again", "create", "schedule", "unlock"}

\* Such a call has the lock of its class, no other call of the same thread is at
\* such a step for that class, and what it is about to make is not made yet.
LockInv == \A c \in Clients : \A k \in DOMAIN calls[c] :
              calls[c][k].pc \in Locked =>
                 /\ mutex[calls[c][k].type] = c
                 /\ \A l \in DOMAIN calls[c] :
                       calls[c][l].pc \in Locked /\ calls[c][l].type = calls[c][k].type
                          => l = k
CreateInv == \A c \in Clients : \A k \in DOMAIN calls[c] :
                calls[c][k].pc = "create" => made[calls[c][k].type] = <<>>

\* What has been made is there, or was there and is destroyed.
MadeInv == \A t \in Types : /\ made[t] # <<>> => t \in instances \cup destroyed
                            /\ Len(made[t]) <= 1

HolderInv == HolderTypeOK /\ LockInv /\ CreateInv /\ MadeInv

LEMMA HolderInitInv == HolderInit => HolderInv
<1> SUFFICES ASSUME HolderInit PROVE HolderInv
  OBVIOUS
<1>1. HolderTypeOK
  BY EmptySeq DEF HolderInit, HolderTypeOK
<1>2. LockInv /\ CreateInv
  BY DEF HolderInit, LockInv, CreateInv
<1>3. MadeInv
  BY EmptySeq DEF HolderInit, MadeInv
<1> QED
  BY <1>1, <1>2, <1>3 DEF HolderInv

-----------------------------------------------------------------------------
\* The stack of calls: what is below the top, and the top replaced.

LEMMA FrontParts ==
  ASSUME NEW S, NEW s \in Seq(S), s # <<>>
  PROVE  /\ Front(s) \in Seq(S) /\ Len(s) \in Nat \ {0} /\ Len(Front(s)) = Len(s) - 1
         /\ Last(s) = s[Len(s)] /\ Last(s) \in S
         /\ \A k \in 1 .. Len(s) - 1 : Front(s)[k] = s[k]
<1>1. Len(s) \in Nat \ {0}
  BY EmptySeq
<1>2. \A k \in 1 .. Len(s) - 1 : s[k] \in S
  BY <1>1, ElementOfSeq
<1>3. 1 \in Int /\ Len(s) - 1 \in Int
  BY <1>1
<1>4. /\ Front(s) \in Seq(S)
      /\ Len(Front(s)) = IF 1 <= Len(s) - 1 THEN (Len(s) - 1) - 1 + 1 ELSE 0
      /\ \A k \in 1 .. (Len(s) - 1) - 1 + 1 : Front(s)[k] = s[1 + k - 1]
  BY <1>2, <1>3, SubSeqProperties DEF Front
<1>5. Last(s) = s[Len(s)] /\ s[Len(s)] \in S
  BY <1>1, ElementOfSeq DEF Last
<1>6. Len(Front(s)) = Len(s) - 1
  <2>1. CASE Len(s) = 1
    BY <1>4, <2>1
  <2>2. CASE Len(s) # 1
    <3>1. \A n \in Nat : n # 0 /\ n # 1 => 1 <= n - 1 /\ (n - 1) - 1 + 1 = n - 1
      OBVIOUS
    <3> QED
      BY <1>1, <1>4, <2>2, <3>1
  <2> QED
    BY <2>1, <2>2
<1>7. ASSUME NEW k \in 1 .. Len(s) - 1 PROVE Front(s)[k] = s[k]
  <2>1. k \in 1 .. (Len(s) - 1) - 1 + 1 /\ 1 + k - 1 = k
    BY <1>1
  <2> QED
    BY <1>4, <2>1
<1> QED
  BY <1>1, <1>4, <1>5, <1>6, <1>7

LEMMA TopReplaced ==
  ASSUME NEW S, NEW s \in Seq(S), s # <<>>, NEW f \in S
  PROVE  /\ Front(s) \o <<f>> \in Seq(S)
         /\ Len(Front(s) \o <<f>>) = Len(s) /\ DOMAIN (Front(s) \o <<f>>) = DOMAIN s
         /\ \A k \in 1 .. Len(s) - 1 : (Front(s) \o <<f>>)[k] = s[k]
         /\ (Front(s) \o <<f>>)[Len(s)] = f
<1> DEFINE r == Front(s) \o <<f>>
<1>1. <<f>> \in Seq(S) /\ Len(<<f>>) = 1 /\ <<f>>[1] = f
  OBVIOUS
<1>2. /\ Front(s) \in Seq(S) /\ Len(s) \in Nat \ {0} /\ Len(Front(s)) = Len(s) - 1
      /\ \A k \in 1 .. Len(s) - 1 : Front(s)[k] = s[k]
  BY FrontParts
<1>3. /\ r \in Seq(S) /\ Len(r) = Len(Front(s)) + Len(<<f>>)
      /\ \A i \in 1 .. Len(Front(s)) + Len(<<f>>) :
            r[i] = IF i <= Len(Front(s)) THEN Front(s)[i] ELSE <<f>>[i - Len(Front(s))]
  BY <1>1, <1>2, ConcatProperties
<1>4. Len(r) = Len(s) /\ DOMAIN r = DOMAIN s
  BY <1>1, <1>2, <1>3, LenProperties
<1>5. \A k \in 1 .. Len(s) - 1 : r[k] = s[k]
  BY <1>1, <1>2, <1>3
<1>6. r[Len(s)] = f
  <2>1. Len(s) \in 1 .. Len(Front(s)) + Len(<<f>>) /\ ~(Len(s) <= Len(Front(s)))
        /\ Len(s) - Len(Front(s)) = 1
    BY <1>1, <1>2
  <2> QED
    BY <1>1, <1>3, <2>1
<1> QED
  BY <1>3, <1>4, <1>5, <1>6

LEMMA CallParts ==
  ASSUME NEW t \in Types, NEW pc \in Steps, NEW todo \in Seq(Types)
  PROVE  /\ Call(t, pc, todo) \in Frames /\ Call(t, pc, todo).type = t
         /\ Call(t, pc, todo).pc = pc
BY DEF Call, Frames

LEMMA CallAt ==
  ASSUME NEW f \in Frames, NEW pc \in Steps
  PROVE  /\ [f EXCEPT !.pc = pc] \in Frames /\ [f EXCEPT !.pc = pc].type = f.type
         /\ [f EXCEPT !.pc = pc].pc = pc /\ f.type \in Types
BY DEF Frames

LEMMA CallToDo ==
  ASSUME NEW f \in Frames, NEW todo \in Seq(Types)
  PROVE  /\ [f EXCEPT !.todo = todo] \in Frames /\ [f EXCEPT !.todo = todo].type = f.type
         /\ [f EXCEPT !.todo = todo].pc = f.pc
BY DEF Frames

\* A call of c that is locked stands where a locked call for the same class stood.
\* Then LockInv and CreateInv are kept, if the locks and what is made change only
\* where c has, or nobody has, the lock.
LEMMA CallsOfOne ==
  ASSUME HolderInv, NEW c \in Clients, NEW s \in Seq(Frames),
         calls' = [calls EXCEPT ![c] = s],
         \A k \in DOMAIN s : s[k].pc \in Locked =>
            /\ k \in DOMAIN calls[c] /\ calls[c][k].pc \in Locked
            /\ s[k].type = calls[c][k].type /\ mutex'[s[k].type] = c
            /\ s[k].pc = "create" => made'[s[k].type] = <<>>,
         \A t \in Types : mutex'[t] # mutex[t] => mutex[t] \in {c, NoClient},
         \A t \in Types : made'[t] # made[t] => mutex[t] = c
  PROVE  LockInv' /\ CreateInv'
<1> USE DEF HolderInv
<1>1. calls \in [Clients -> Seq(Frames)] /\ calls'[c] = s
  BY DEF HolderTypeOK
<1>2. NoClient \notin Clients
  BY UsesAssumption
<1> SUFFICES ASSUME NEW d \in Clients, NEW k \in DOMAIN calls'[d],
                    calls'[d][k].pc \in Locked
             PROVE  /\ mutex'[calls'[d][k].type] = d
                    /\ \A l \in DOMAIN calls'[d] :
                          calls'[d][l].pc \in Locked /\ calls'[d][l].type = calls'[d][k].type
                             => l = k
                    /\ calls'[d][k].pc = "create" => made'[calls'[d][k].type] = <<>>
  BY DEF LockInv, CreateInv, Locked
<1>3. CASE d = c
  BY <1>1, <1>3 DEF LockInv
<1>4. CASE d # c
  <2>1. calls'[d] = calls[d]
    BY <1>1, <1>4
  <2>2. calls[d][k] \in Frames /\ calls[d][k].type \in Types
    <3>1. k \in 1 .. Len(calls[d])
      BY <1>1, <2>1, LenProperties
    <3> QED
      <4>1. calls[d] \in Seq(Frames)
        BY <1>1
      <4>2. calls[d][k] \in Frames
        BY <3>1, <4>1, ElementOfSeq
      <4> QED
        BY <4>2 DEF Frames
  <2>3. mutex[calls[d][k].type] = d /\ mutex'[calls[d][k].type] = d
    BY <1>2, <1>4, <2>1, <2>2 DEF LockInv
  <2>4. made'[calls[d][k].type] = made[calls[d][k].type]
    BY <1>4, <2>2, <2>3
  <2> QED
    BY <2>1, <2>3, <2>4 DEF LockInv, CreateInv
<1> QED
  BY <1>3, <1>4

\* The top call goes on, which leaves those below it as they are.
LEMMA TopOfOne ==
  ASSUME HolderInv, NEW c \in Clients, calls[c] # <<>>, NEW f \in Frames,
         calls' = [calls EXCEPT ![c] = Front(@) \o <<f>>],
         f.type = Asked(c), f.pc \in Locked => Last(calls[c]).pc \in Locked,
         f.pc = "create" => made[f.type] = <<>>,
         UNCHANGED <<mutex, made>>
  PROVE  HolderTypeOK' /\ LockInv' /\ CreateInv'
<1> DEFINE s == Front(calls[c]) \o <<f>>
<1>1. calls[c] \in Seq(Frames)
  BY DEF HolderInv, HolderTypeOK
<1>2. /\ s \in Seq(Frames) /\ Len(s) = Len(calls[c]) /\ DOMAIN s = DOMAIN calls[c]
      /\ \A k \in 1 .. Len(calls[c]) - 1 : s[k] = calls[c][k]
      /\ s[Len(calls[c])] = f
  <2> DEFINE q == calls[c]
  <2>1. q \in Seq(Frames) /\ q # <<>> /\ f \in Frames
    BY <1>1
  <2> HIDE DEF q
  <2>2. /\ Front(q) \o <<f>> \in Seq(Frames)
        /\ Len(Front(q) \o <<f>>) = Len(q) /\ DOMAIN (Front(q) \o <<f>>) = DOMAIN q
        /\ \A k \in 1 .. Len(q) - 1 : (Front(q) \o <<f>>)[k] = q[k]
        /\ (Front(q) \o <<f>>)[Len(q)] = f
    BY ONLY <2>1, TopReplaced
  <2> QED
    BY <2>2 DEF q
<1>3. /\ Len(calls[c]) \in Nat \ {0} /\ Last(calls[c]) = calls[c][Len(calls[c])]
      /\ DOMAIN calls[c] = 1 .. Len(calls[c])
  BY <1>1, FrontParts, LenProperties
<1> HIDE DEF s
<1>4. calls' = [calls EXCEPT ![c] = s]
  BY DEF s
<1>5. ASSUME NEW k \in DOMAIN s, s[k].pc \in Locked
      PROVE  /\ k \in DOMAIN calls[c] /\ calls[c][k].pc \in Locked
             /\ s[k].type = calls[c][k].type /\ mutex'[s[k].type] = c
             /\ s[k].pc = "create" => made'[s[k].type] = <<>>
  <2>1. CASE k = Len(calls[c])
    BY <1>2, <1>3, <1>5, <2>1 DEF Asked, HolderInv, LockInv
  <2>2. CASE k # Len(calls[c])
    <3>1. k \in 1 .. Len(calls[c]) - 1
      BY <1>2, <1>3, <2>2
    <3> QED
      BY <1>2, <1>5, <3>1 DEF HolderInv, LockInv, CreateInv
  <2> QED
    BY <2>1, <2>2
<1>6. HolderTypeOK'
  BY <1>2, <1>4 DEF HolderInv, HolderTypeOK
<1>7. LockInv' /\ CreateInv'
  BY <1>2, <1>4, <1>5, CallsOfOne, ZenonT(60)
<1> QED
  BY <1>6, <1>7

\* The top call returns; it may let go of the lock of its class.
LEMMA ReturnOfOne ==
  ASSUME HolderInv, NEW c \in Clients, calls[c] # <<>>, Returns(c),
         \/ UNCHANGED mutex
         \/ /\ Last(calls[c]).pc \in Locked
            /\ mutex' = [mutex EXCEPT ![Asked(c)] = NoClient],
         UNCHANGED made
  PROVE  HolderTypeOK' /\ LockInv' /\ CreateInv'
<1> DEFINE s == Front(calls[c])
<1>1. calls[c] \in Seq(Frames)
  BY DEF HolderInv, HolderTypeOK
<1>2. /\ s \in Seq(Frames) /\ Len(s) = Len(calls[c]) - 1 /\ DOMAIN s = 1 .. Len(s)
      /\ \A k \in 1 .. Len(calls[c]) - 1 : s[k] = calls[c][k]
      /\ Len(calls[c]) \in Nat \ {0} /\ Last(calls[c]) = calls[c][Len(calls[c])]
      /\ DOMAIN calls[c] = 1 .. Len(calls[c])
      /\ Last(calls[c]) \in Frames
  BY <1>1, FrontParts, LenProperties
<1> HIDE DEF s
<1>3. calls' = [calls EXCEPT ![c] = s]
  BY DEF s, Returns
<1>4. Asked(c) \in Types
  BY <1>2 DEF Asked, Frames
<1>5. Last(calls[c]).pc \in Locked => mutex[Asked(c)] = c
  BY <1>2 DEF HolderInv, LockInv, Asked
<1>6. ASSUME NEW k \in DOMAIN s, s[k].pc \in Locked
      PROVE  /\ k \in DOMAIN calls[c] /\ calls[c][k].pc \in Locked
             /\ s[k].type = calls[c][k].type /\ mutex'[s[k].type] = c
             /\ s[k].pc = "create" => made'[s[k].type] = <<>>
  <2>1. /\ k \in 1 .. Len(calls[c]) - 1 /\ k \in DOMAIN calls[c]
        /\ k # Len(calls[c]) /\ Len(calls[c]) \in DOMAIN calls[c]
    BY <1>2
  <2>2. s[k] = calls[c][k] /\ mutex[s[k].type] = c
    BY <1>2, <1>6, <2>1 DEF HolderInv, LockInv
  <2>3. Last(calls[c]).pc \in Locked => s[k].type # Asked(c)
    BY <1>2, <1>6, <2>1, <2>2 DEF HolderInv, LockInv, Asked
  <2>4. s[k] \in Frames /\ s[k].type \in Types
    <3>1. s[k] \in Frames
      BY <1>2, ElementOfSeq
    <3> QED
      BY <3>1 DEF Frames
  <2>5. mutex'[s[k].type] = c
    BY <2>2, <2>3, <2>4 DEF HolderInv, HolderTypeOK
  <2> QED
    BY <1>6, <2>1, <2>2, <2>5 DEF HolderInv, CreateInv
<1>7. HolderTypeOK'
  BY <1>2, <1>3 DEF HolderInv, HolderTypeOK
<1>8. \A t \in Types : mutex'[t] # mutex[t] => mutex[t] \in {c, NoClient}
  BY <1>4, <1>5 DEF HolderInv, HolderTypeOK
<1>9. LockInv' /\ CreateInv'
  BY <1>2, <1>3, <1>6, <1>8, CallsOfOne
<1> QED
  BY <1>7, <1>9

\* A constructor or destructor calls instance.
LEMMA AskOfOne ==
  ASSUME HolderInv, NEW c \in Clients, calls[c] # <<>>, AsksNext(c),
         UNCHANGED <<mutex, made>>
  PROVE  HolderTypeOK' /\ LockInv' /\ CreateInv'
<1> DEFINE q == calls[c]
           f == [Last(q) EXCEPT !.todo = Tail(@)]
           g == Call(Head(Last(q).todo), "test", <<>>)
           s == Front(q) \o <<f, g>>
<1>1. q \in Seq(Frames) /\ q # <<>>
  BY DEF HolderInv, HolderTypeOK
<1>2. calls' = [calls EXCEPT ![c] = s] /\ Last(q).todo # <<>>
  BY DEF AsksNext
<1>3. /\ Front(q) \in Seq(Frames) /\ Len(q) \in Nat \ {0} /\ Len(Front(q)) = Len(q) - 1
      /\ Last(q) = q[Len(q)] /\ Last(q) \in Frames /\ DOMAIN q = 1 .. Len(q)
      /\ \A k \in 1 .. Len(q) - 1 : Front(q)[k] = q[k]
  <2> HIDE DEF q
  <2> QED
    BY <1>1, FrontParts, LenProperties
<1>4. /\ f \in Frames /\ g \in Frames /\ f.type = Last(q).type /\ f.pc = Last(q).pc
      /\ g.pc = "test"
  <2>1. Last(q).todo \in Seq(Types)
    BY <1>3 DEF Frames
  <2>2. Tail(Last(q).todo) \in Seq(Types) /\ Head(Last(q).todo) \in Types
    BY <1>2, <2>1, HeadTailProperties
  <2>3. <<>> \in Seq(Types)
    BY EmptySeq
  <2>4. g \in Frames /\ g.pc = "test"
    <3> DEFINE t == Head(Last(q).todo)
    <3>1. t \in Types
      BY <2>2
    <3> HIDE DEF t
    <3>2. Call(t, "test", <<>>) \in Frames /\ Call(t, "test", <<>>).pc = "test"
      BY ONLY <2>3, <3>1, CallParts, ZenonT(60) DEF Steps
    <3> QED
      BY <3>2 DEF t
  <2>5. f \in Frames /\ f.type = Last(q).type /\ f.pc = Last(q).pc
    BY <1>3, <2>2, CallToDo
  <2> QED
    BY <2>4, <2>5
<1> HIDE DEF q, f, g
<1>5. <<f, g>> \in Seq(Frames) /\ Len(<<f, g>>) = 2 /\ <<f, g>>[1] = f /\ <<f, g>>[2] = g
  BY <1>4
<1>6. /\ s \in Seq(Frames) /\ Len(s) = Len(Front(q)) + Len(<<f, g>>) /\ DOMAIN s = 1 .. Len(s)
      /\ \A i \in 1 .. Len(Front(q)) + Len(<<f, g>>) :
            s[i] = IF i <= Len(Front(q)) THEN Front(q)[i] ELSE <<f, g>>[i - Len(Front(q))]
  BY <1>3, <1>5, ConcatProperties, LenProperties
<1> HIDE DEF s
<1>7. /\ \A k \in 1 .. Len(q) - 1 : s[k] = q[k]
      /\ s[Len(q)] = f /\ s[Len(q) + 1] = g /\ DOMAIN s = 1 .. Len(q) + 1
  <2>1. DOMAIN s = 1 .. Len(q) + 1
    BY <1>3, <1>5, <1>6
  <2>2. \A k \in 1 .. Len(q) - 1 : s[k] = q[k]
    BY <1>3, <1>5, <1>6
  <2>3. s[Len(q)] = f
    <3>1. /\ Len(q) \in 1 .. Len(Front(q)) + Len(<<f, g>>)
          /\ ~(Len(q) <= Len(Front(q))) /\ Len(q) - Len(Front(q)) = 1
      BY <1>3, <1>5
    <3> QED
      BY <1>5, <1>6, <3>1
  <2>4. s[Len(q) + 1] = g
    <3>1. /\ Len(q) + 1 \in 1 .. Len(Front(q)) + Len(<<f, g>>)
          /\ ~(Len(q) + 1 <= Len(Front(q))) /\ Len(q) + 1 - Len(Front(q)) = 2
      BY <1>3, <1>5
    <3> QED
      BY <1>5, <1>6, <3>1
  <2> QED
    BY <2>1, <2>2, <2>3, <2>4
<1>8. ASSUME NEW k \in DOMAIN s, s[k].pc \in Locked
      PROVE  /\ k \in DOMAIN calls[c] /\ calls[c][k].pc \in Locked
             /\ s[k].type = calls[c][k].type /\ mutex'[s[k].type] = c
             /\ s[k].pc = "create" => made'[s[k].type] = <<>>
  <2>1. k # Len(q) + 1
    BY <1>4, <1>7, <1>8 DEF Locked
  <2>2. k \in DOMAIN q /\ s[k].type = q[k].type /\ s[k].pc = q[k].pc
    <3>1. CASE k = Len(q)
      BY <1>3, <1>4, <1>7, <3>1
    <3>2. CASE k # Len(q)
      <4>1. k \in 1 .. Len(q) - 1 /\ k \in 1 .. Len(q)
        BY <1>3, <1>7, <2>1, <3>2
      <4> QED
        BY <1>3, <1>7, <4>1
    <3> QED
      BY <3>1, <3>2
  <2> QED
    BY <1>8, <2>2 DEF q, HolderInv, LockInv, CreateInv
<1>9. HolderTypeOK'
  BY <1>2, <1>6 DEF HolderInv, HolderTypeOK
<1>10. LockInv' /\ CreateInv'
  BY <1>2, <1>6, <1>8, CallsOfOne
<1> QED
  BY <1>9, <1>10

-----------------------------------------------------------------------------
\* A call that begins with nothing else under way.
LEMMA FirstCall ==
  ASSUME HolderInv, NEW c \in Clients, NEW f \in Frames, f.pc \notin Locked,
         calls' = [calls EXCEPT ![c] = <<f>>], UNCHANGED <<mutex, made>>
  PROVE  HolderTypeOK' /\ LockInv' /\ CreateInv'
<1>1. <<f>> \in Seq(Frames) /\ \A k \in DOMAIN <<f>> : <<f>>[k].pc \notin Locked
  OBVIOUS
<1>2. HolderTypeOK'
  BY <1>1 DEF HolderInv, HolderTypeOK
<1>3. LockInv' /\ CreateInv'
  BY <1>1, CallsOfOne
<1> QED
  BY <1>2, <1>3

\* The lock is taken when nobody has it, so no call for the class is locked.
LEMMA LockClassInv ==
  ASSUME HolderInv, NEW c \in Clients, LockClass(c)
  PROVE  HolderInv'
<1> DEFINE q == calls[c]
           n == Len(q)
           f == [Last(q) EXCEPT !.pc = "again"]
           s == Front(q) \o <<f>>
<1>1. /\ q # <<>> /\ q \in Seq(Frames) /\ Last(q).pc = "lock"
      /\ calls' = [calls EXCEPT ![c] = s]
      /\ mutex[Last(q).type] = NoClient
      /\ mutex' = [mutex EXCEPT ![Last(q).type] = c]
      /\ UNCHANGED <<instances, destroyed, made>>
  BY DEF LockClass, At, Goto, Asked, HolderInv, HolderTypeOK
<1>2. n \in Nat \ {0} /\ Last(q) = q[n] /\ Last(q) \in Frames /\ DOMAIN q = 1 .. n
  <2> HIDE DEF q
  <2> QED
    BY <1>1, FrontParts, LenProperties
<1>3. f \in Frames /\ f.type = Last(q).type /\ f.pc = "again" /\ f.type \in Types
  BY <1>2, CallAt DEF Steps
<1> HIDE DEF q, f
<1>4. /\ s \in Seq(Frames) /\ DOMAIN s = DOMAIN q /\ s[n] = f
      /\ \A k \in 1 .. n - 1 : s[k] = q[k]
  BY <1>1, <1>3, TopReplaced
<1> HIDE DEF s
<1>5. \A d \in Clients : \A k \in DOMAIN calls[d] :
         calls[d][k].pc \in Locked => calls[d][k].type # f.type
  BY <1>1, <1>3, UsesAssumption DEF HolderInv, LockInv
<1>6. \A d \in Clients : calls'[d] = IF d = c THEN s ELSE calls[d]
  BY <1>1 DEF HolderInv, HolderTypeOK
<1>7. \A d \in Clients : \A k \in DOMAIN calls[d] : calls[d][k].type \in Types
  <2> SUFFICES ASSUME NEW d \in Clients, NEW k \in DOMAIN calls[d]
               PROVE  calls[d][k].type \in Types
    OBVIOUS
  <2>1. calls[d] \in Seq(Frames)
    BY DEF HolderInv, HolderTypeOK
  <2>2. calls[d][k] \in Frames
    BY <2>1, ElementOfSeq, LenProperties
  <2> QED
    BY <2>2 DEF Frames
<1>8. ASSUME NEW k \in DOMAIN s, k # n PROVE k \in DOMAIN q /\ s[k] = q[k]
  <2>1. k \in 1 .. n - 1
    BY <1>2, <1>4, <1>8
  <2> QED
    BY <1>4, <2>1
<1>9. n \in DOMAIN s
  BY <1>2, <1>4
<1>10. HolderTypeOK'
  BY <1>1, <1>4 DEF HolderInv, HolderTypeOK
<1>11. LockInv'
  <2> SUFFICES ASSUME NEW d \in Clients, NEW k \in DOMAIN calls'[d],
                      calls'[d][k].pc \in Locked
               PROVE  /\ mutex'[calls'[d][k].type] = d
                      /\ \A l \in DOMAIN calls'[d] :
                            calls'[d][l].pc \in Locked /\ calls'[d][l].type = calls'[d][k].type
                               => l = k
    BY DEF LockInv
  <2>1. CASE d # c
    <3>1. calls'[d] = calls[d] /\ calls[d][k].type # f.type /\ calls[d][k].type \in Types
      BY <1>5, <1>6, <1>7, <2>1
    <3> QED
      BY <1>1, <1>3, <3>1 DEF HolderInv, HolderTypeOK, LockInv
  <2>2. CASE d = c /\ k = n
    <3>1. calls'[c] = s /\ s[k] = f
      BY <1>4, <1>6, <2>2
    <3>2. \A l \in DOMAIN s : l # n /\ s[l].pc \in Locked => s[l].type # f.type
      BY <1>5, <1>8 DEF q
    <3>3. mutex'[f.type] = c
      BY <1>1, <1>3 DEF HolderInv, HolderTypeOK
    <3> QED
      BY <2>2, <3>1, <3>2, <3>3
  <2>3. CASE d = c /\ k # n
    <3>1. calls'[c] = s /\ k \in DOMAIN q /\ s[k] = q[k]
      BY <1>6, <1>8, <2>3
    <3>2. q[k].pc \in Locked /\ q[k].type # f.type /\ q[k].type \in Types
      BY <1>5, <1>7, <2>3, <3>1 DEF q
    <3>3. mutex[q[k].type] = c /\ mutex'[q[k].type] = c
      BY <1>1, <1>3, <3>1, <3>2 DEF q, HolderInv, HolderTypeOK, LockInv
    <3>4. \A l \in DOMAIN s : s[l].pc \in Locked /\ s[l].type = s[k].type => l = k
      BY <1>4, <1>8, <3>1, <3>2 DEF q, HolderInv, LockInv
    <3> QED
      BY <2>3, <3>1, <3>3, <3>4
  <2> QED
    BY <2>1, <2>2, <2>3
<1>12. CreateInv'
  <2> SUFFICES ASSUME NEW d \in Clients, NEW k \in DOMAIN calls'[d],
                      calls'[d][k].pc = "create"
               PROVE  made[calls'[d][k].type] = <<>>
    BY <1>1 DEF CreateInv
  <2>1. CASE d # c
    BY <1>6, <2>1 DEF HolderInv, CreateInv
  <2>2. CASE d = c
    <3>1. k # n /\ calls'[c] = s
      BY <1>3, <1>4, <1>6, <2>2
    <3> QED
      BY <1>8, <2>2, <3>1 DEF q, HolderInv, CreateInv
  <2> QED
    BY <2>1, <2>2
<1>13. MadeInv'
  BY <1>1 DEF HolderInv, MadeInv
<1> QED
  BY <1>10, <1>11, <1>12, <1>13 DEF HolderInv

\* What a thread has at the top of its calls.
LEMMA TopParts ==
  ASSUME HolderInv, NEW c \in Clients, calls[c] # <<>>
  PROVE  /\ Last(calls[c]) \in Frames /\ Asked(c) \in Types
         /\ Last(calls[c]).pc \in Locked => mutex[Asked(c)] = c
         /\ Last(calls[c]).pc = "create" => made[Asked(c)] = <<>>
<1> DEFINE q == calls[c]
           n == Len(q)
<1>1. q \in Seq(Frames) /\ q # <<>>
  BY DEF HolderInv, HolderTypeOK
<1>2. n \in Nat \ {0} /\ Last(q) = q[n] /\ Last(q) \in Frames /\ DOMAIN q = 1 .. n
  <2> HIDE DEF q
  <2> QED
    BY <1>1, FrontParts, LenProperties
<1>3. Last(q).type \in Types /\ n \in DOMAIN q
  BY <1>2 DEF Frames
<1> QED
  BY <1>2, <1>3 DEF Asked, HolderInv, LockInv, CreateInv

LEMMA GotoInv ==
  ASSUME HolderInv, NEW c \in Clients, calls[c] # <<>>, NEW pc \in Steps \ {"create"},
         Goto(c, pc), pc \in Locked => Last(calls[c]).pc \in Locked,
         UNCHANGED <<mutex, made>>
  PROVE  HolderTypeOK' /\ LockInv' /\ CreateInv'
<1> DEFINE f == [Last(calls[c]) EXCEPT !.pc = pc]
<1>1. f \in Frames /\ f.type = Asked(c) /\ f.pc = pc
  BY TopParts, CallAt DEF Asked
<1>2. calls' = [calls EXCEPT ![c] = Front(@) \o <<f>>]
  BY DEF Goto
<1> HIDE DEF f
<1> QED
  BY <1>1, <1>2, TopOfOne

LEMMA TestAgainInv ==
  ASSUME HolderInv, NEW c \in Clients, TestAgain(c)
  PROVE  HolderInv'
<1>1. /\ calls[c] # <<>> /\ Last(calls[c]).pc = "again"
      /\ UNCHANGED <<instances, destroyed, made, mutex>>
  BY DEF TestAgain, At
<1>2. Last(calls[c]).pc \in Locked
  BY <1>1 DEF Locked
<1>3. HolderTypeOK' /\ LockInv' /\ CreateInv'
  <2>1. CASE Asked(c) \in instances
    <3>1. Goto(c, "unlock")
      BY <2>1 DEF TestAgain, Goto
    <3> QED
      BY <1>1, <1>2, <3>1, GotoInv DEF Steps
  <2>2. CASE Asked(c) \notin instances
    <3> DEFINE f == Call(Asked(c), "create", Uses[Asked(c)])
    <3>1. Asked(c) \in Types /\ Uses[Asked(c)] \in Seq(Types)
      BY <1>1, TopParts, UsesAssumption
    <3>2. f \in Frames /\ f.type = Asked(c) /\ f.pc = "create"
      <4> DEFINE t == Asked(c)
                 u == Uses[t]
      <4> HIDE DEF t, u
      <4>1. t \in Types /\ u \in Seq(Types)
        BY <3>1 DEF t, u
      <4>2. /\ Call(t, "create", u) \in Frames /\ Call(t, "create", u).type = t
            /\ Call(t, "create", u).pc = "create"
        BY <4>1, CallParts DEF Steps
      <4> QED
        BY <4>2 DEF t, u
    <3>3. calls' = [calls EXCEPT ![c] = Front(@) \o <<f>>]
      BY <2>2 DEF TestAgain
    <3>4. made[f.type] = <<>>
      BY <2>2, <3>1, <3>2 DEF TestAgain, HolderInv, MadeInv
    <3> HIDE DEF f
    <3> QED
      BY <1>1, <1>2, <3>2, <3>3, <3>4, TopOfOne
  <2> QED
    BY <2>1, <2>2
<1> QED
  BY <1>1, <1>3 DEF HolderInv, MadeInv

\* The object is made: it was not before, and the call goes on to schedule.
LEMMA ConstructedInv ==
  ASSUME HolderInv, NEW c \in Clients, Constructed(c)
  PROVE  HolderInv'
<1> DEFINE q == calls[c]
           f == [Last(q) EXCEPT !.pc = "schedule"]
           s == Front(q) \o <<f>>
           n == Len(q)
<1>1. /\ q # <<>> /\ Last(q).pc = "create" /\ q \in Seq(Frames)
      /\ calls' = [calls EXCEPT ![c] = s] /\ UNCHANGED <<mutex, destroyed>>
      /\ made' = [made EXCEPT ![Asked(c)] = Append(@, c)]
      /\ instances' = instances \cup {Asked(c)}
  BY DEF Constructed, At, Goto, HolderInv, HolderTypeOK
<1>2. /\ Asked(c) \in Types /\ Asked(c) = Last(q).type /\ Last(q) \in Frames
      /\ made[Asked(c)] = <<>> /\ mutex[Asked(c)] = c
  BY <1>1, TopParts DEF Asked, Locked
<1>3. f \in Frames /\ f.type = Asked(c) /\ f.pc = "schedule"
  BY <1>2, CallAt DEF Steps
<1>4. n \in Nat \ {0} /\ Last(q) = q[n] /\ DOMAIN q = 1 .. n
  <2> HIDE DEF q
  <2> QED
    BY <1>1, FrontParts, LenProperties
<1> HIDE DEF q, f
<1>5. /\ s \in Seq(Frames) /\ DOMAIN s = DOMAIN q /\ s[n] = f
      /\ \A k \in 1 .. n - 1 : s[k] = q[k]
  BY <1>1, <1>3, TopReplaced
<1> HIDE DEF s
<1>6. Append(<<>>, c) = <<c>>
  OBVIOUS
<1>7. /\ made' \in [Types -> Seq(Clients)]
      /\ \A t \in Types : made'[t] = IF t = Asked(c) THEN <<c>> ELSE made[t]
  BY <1>1, <1>2, <1>6 DEF HolderInv, HolderTypeOK
<1>8. ASSUME NEW k \in DOMAIN s, s[k].pc \in Locked
      PROVE  /\ k \in DOMAIN calls[c] /\ calls[c][k].pc \in Locked
             /\ s[k].type = calls[c][k].type /\ mutex'[s[k].type] = c
             /\ s[k].pc = "create" => made'[s[k].type] = <<>>
  <2>1. CASE k = n
    BY <1>1, <1>2, <1>3, <1>4, <1>5, <2>1 DEF q, Locked
  <2>2. CASE k # n
    <3>1. k \in DOMAIN q /\ s[k] = q[k] /\ q[n].pc \in Locked /\ n \in DOMAIN q
      <4>1. k \in 1 .. n - 1
        BY <1>4, <1>5, <2>2
      <4> QED
        BY <1>1, <1>4, <1>5, <4>1 DEF Locked
    <3>2. mutex[s[k].type] = c /\ s[k].type # Asked(c)
      BY <1>2, <1>4, <1>8, <2>2, <3>1 DEF q, HolderInv, LockInv
    <3>3. s[k].type \in Types
      <4>1. s[k] \in Frames
        BY <1>5, ElementOfSeq, LenProperties
      <4> QED
        BY <4>1 DEF Frames
    <3> QED
      BY <1>1, <1>7, <1>8, <3>1, <3>2, <3>3 DEF q, HolderInv, CreateInv
  <2> QED
    BY <2>1, <2>2
<1>9. LockInv' /\ CreateInv'
  BY <1>1, <1>2, <1>5, <1>7, <1>8, CallsOfOne, ZenonT(60)
<1>10. HolderTypeOK'
  BY <1>1, <1>5, <1>7 DEF HolderInv, HolderTypeOK
<1>11. MadeInv'
  <2> SUFFICES ASSUME NEW t \in Types
               PROVE  /\ made'[t] # <<>> => t \in instances' \cup destroyed'
                      /\ Len(made'[t]) <= 1
    BY DEF MadeInv
  <2>1. CASE t = Asked(c)
    <3>1. made'[t] = <<c>> /\ t \in instances'
      BY <1>1, <1>7, <2>1
    <3>2. Len(<<c>>) <= 1
      OBVIOUS
    <3> QED
      BY <3>1, <3>2
  <2>2. CASE t # Asked(c)
    <3>1. made'[t] = made[t]
      BY <1>7, <2>2
    <3>2. /\ made[t] # <<>> => t \in instances \cup destroyed
          /\ Len(made[t]) <= 1
      BY DEF HolderInv, MadeInv
    <3>3. instances \cup destroyed \subseteq instances' \cup destroyed'
      BY <1>1
    <3> QED
      BY <3>1, <3>2, <3>3
  <2> QED
    BY <2>1, <2>2
<1> QED
  BY <1>9, <1>10, <1>11 DEF HolderInv

\* The exception lets go of the locks of the thread with its calls.
LEMMA DeadReferenceInv ==
  ASSUME HolderInv, NEW c \in Clients, DeadReference(c)
  PROVE  HolderInv'
<1>1. /\ calls' = [calls EXCEPT ![c] = <<>>]
      /\ mutex' = [t \in Types |-> IF mutex[t] = c THEN NoClient ELSE mutex[t]]
      /\ UNCHANGED <<instances, destroyed, made>>
  BY DEF DeadReference
<1> DEFINE s == <<>>
<1>2. s \in Seq(Frames) /\ DOMAIN s = {}
  BY EmptySeq
<1>3. calls' = [calls EXCEPT ![c] = s]
  BY <1>1
<1> HIDE DEF s
<1>4. \A t \in Types : mutex'[t] # mutex[t] => mutex[t] \in {c, NoClient}
  BY <1>1
<1>5. LockInv' /\ CreateInv'
  BY <1>1, <1>2, <1>3, <1>4, CallsOfOne
<1>6. HolderTypeOK'
  BY <1>1, <1>2, <1>3 DEF HolderInv, HolderTypeOK
<1> QED
  BY <1>1, <1>5, <1>6 DEF HolderInv, MadeInv

LEMMA CallBegins ==
  ASSUME HolderInv, NEW c \in Clients, NEW t \in Types, NEW todo \in Seq(Types),
         NEW pc \in {"test", "destroy"},
         calls' = [calls EXCEPT ![c] = <<Call(t, pc, todo)>>], UNCHANGED <<mutex, made>>
  PROVE  HolderTypeOK' /\ LockInv' /\ CreateInv'
<1> DEFINE f == Call(t, pc, todo)
<1>1. f \in Frames /\ f.pc \notin Locked
  BY CallParts DEF Steps, Locked
<1> HIDE DEF f
<1>2. calls' = [calls EXCEPT ![c] = <<f>>]
  BY DEF f
<1> QED
  BY <1>1, <1>2, FirstCall

LEMMA HolderInductive == HolderInv /\ [HolderNext]_holderVars => HolderInv'
<1> SUFFICES ASSUME HolderInv, [HolderNext]_holderVars PROVE HolderInv'
  OBVIOUS
<1>1. ASSUME NEW c \in Clients, NEW t \in Types, Instance(c, t) PROVE HolderInv'
  <2>1. HolderTypeOK' /\ LockInv' /\ CreateInv'
    BY <1>1, EmptySeq, CallBegins DEF Instance
  <2> QED
    BY <1>1, <2>1 DEF Instance, HolderInv, MadeInv
<1>2. ASSUME NEW c \in Clients, Test(c) PROVE HolderInv'
  <2>1. calls[c] # <<>> /\ UNCHANGED <<mutex, made>>
    BY <1>2 DEF Test, At
  <2>2. Returns(c) \/ Goto(c, "lock")
    BY <1>2 DEF Test
  <2>3. HolderTypeOK' /\ LockInv' /\ CreateInv'
    BY <2>1, <2>2, ReturnOfOne, GotoInv DEF Steps, Locked
  <2> QED
    BY <1>2, <2>3 DEF Test, HolderInv, MadeInv
<1>3. ASSUME NEW c \in Clients, LockClass(c) PROVE HolderInv'
  BY <1>3, LockClassInv
<1>4. ASSUME NEW c \in Clients, TestAgain(c) PROVE HolderInv'
  BY <1>4, TestAgainInv
<1>5. ASSUME NEW c \in Clients, DeadReference(c) PROVE HolderInv'
  BY <1>5, DeadReferenceInv
<1>6. ASSUME NEW c \in Clients, Constructs(c) \/ Destructs(c) PROVE HolderInv'
  <2>1. /\ calls[c] # <<>> /\ AsksNext(c)
        /\ UNCHANGED <<instances, destroyed, mutex, made>>
    BY <1>6 DEF Constructs, Destructs, At
  <2> QED
    BY <2>1, AskOfOne DEF HolderInv, MadeInv
<1>7. ASSUME NEW c \in Clients, Constructed(c) PROVE HolderInv'
  BY <1>7, ConstructedInv
<1>8. ASSUME NEW c \in Clients, Schedule(c) PROVE HolderInv'
  <2>1. /\ calls[c] # <<>> /\ Goto(c, "unlock") /\ Last(calls[c]).pc = "schedule"
        /\ UNCHANGED <<instances, destroyed, mutex, made>>
    BY <1>8 DEF Schedule, At
  <2> QED
    BY <2>1, GotoInv DEF HolderInv, MadeInv, Steps, Locked
<1>9. ASSUME NEW c \in Clients, UnlockClass(c) PROVE HolderInv'
  <2>1. /\ calls[c] # <<>> /\ Returns(c) /\ Last(calls[c]).pc = "unlock"
        /\ mutex' = [mutex EXCEPT ![Asked(c)] = NoClient]
        /\ UNCHANGED <<instances, destroyed, made>>
    BY <1>9 DEF UnlockClass, At
  <2> QED
    BY <2>1, ReturnOfOne DEF HolderInv, MadeInv, Locked
<1>10. ASSUME NEW c \in Clients, Destructed(c) PROVE HolderInv'
  <2>1. /\ calls[c] # <<>> /\ Returns(c) /\ UNCHANGED <<mutex, made>>
        /\ instances' = instances \ {Asked(c)} /\ destroyed' = destroyed \cup {Asked(c)}
    BY <1>10 DEF Destructed, At
  <2> QED
    BY <2>1, ReturnOfOne DEF HolderInv, MadeInv
<1>11. ASSUME NEW t \in Types, DestroySingleton(t) PROVE HolderInv'
  <2>1. /\ calls' = [calls EXCEPT ![Main] = <<Call(t, "destroy", UsesAtEnd[t])>>]
        /\ UNCHANGED <<instances, destroyed, mutex, made>>
        /\ Main \in Clients /\ UsesAtEnd[t] \in Seq(Types)
    BY <1>11, UsesAssumption DEF DestroySingleton
  <2> QED
    BY <2>1, CallBegins DEF HolderInv, MadeInv
<1>12. CASE UNCHANGED <<instances, destroyed, made, mutex, calls>>
  BY <1>12 DEF HolderInv, HolderTypeOK, LockInv, CreateInv, MadeInv
<1>13. CASE \/ \E n \in Longevities : SetLongevity(n)
            \/ Exit \/ AtExitFn \/ UNCHANGED holderVars
  BY <1>12, <1>13 DEF SetLongevity, Exit, AtExitFn, holderVars
<1> QED
  BY <1>1, <1>2, <1>3, <1>4, <1>5, <1>6, <1>7, <1>8, <1>9, <1>10, <1>11, <1>13
     DEF HolderNext, Proceeds

\* However many threads ask for however many singletons at once, and whatever
\* their constructors, their destructors and exit do, each is made at most once.
THEOREM CreatedOnce == HolderSpec => []MadeOnce
<1>1. HolderInv => MadeOnce
  BY DEF HolderInv, MadeInv, MadeOnce
<1> QED
  BY <1>1, HolderInitInv, HolderInductive, PTL DEF HolderSpec

(***************************************************************************)
(* Longevities: the array of trackers.                                      *)
(***************************************************************************)
Trackers == [object : Nat, longevity : Nat]

\* The array is in ascending order of longevities, and where they are equal the
\* younger object is behind the older one.
SortedInv ==
    /\ trackers \in Seq(Trackers) /\ tracked \in Nat
    /\ \A i \in DOMAIN trackers : trackers[i].object < tracked
    /\ \A i, j \in DOMAIN trackers : i < j =>
          \/ trackers[i].longevity < trackers[j].longevity
          \/ /\ trackers[i].longevity = trackers[j].longevity
             /\ trackers[i].object < trackers[j].object

\* Without a least number in T, the successor would map the finite set of those
\* below all of T into itself without 0, one to one.
LEMMA LeastOf ==
  ASSUME NEW T, T \subseteq Nat, T # {}
  PROVE  \E k \in T : \A j \in T : k <= j
<1> SUFFICES ASSUME \A k \in T : \E j \in T : j < k PROVE FALSE
  OBVIOUS
<1> DEFINE Below == {n \in Nat : \A k \in T : n < k}
           next == [n \in Below |-> n + 1]
<1>1. PICK t \in T : t \in Nat
  OBVIOUS
<1>2. IsFiniteSet(Below)
  <2>1. Below \in SUBSET (0 .. t) /\ 0 \in Int /\ t \in Int
    BY <1>1
  <2>2. IsFiniteSet(0 .. t)
    BY <2>1, FS_Interval
  <2> HIDE DEF Below
  <2> QED
    BY <2>1, <2>2, FS_Subset
<1>3. 0 \in Below
  <2>1. 0 \notin T
    OBVIOUS
  <2> QED
    BY <2>1
<1>4. next \in [Below -> Below \ {0}]
  <2> SUFFICES ASSUME NEW n \in Below, NEW k \in T PROVE n + 1 < k
    OBVIOUS
  <2>1. PICK j \in T : j < k
    OBVIOUS
  <2> QED
    BY <2>1
<1>5. IsFiniteSet(Below \ {0}) /\ Cardinality(Below \ {0}) < Cardinality(Below)
  <2> HIDE DEF Below
  <2>1. Cardinality(Below) \in Nat
    BY <1>2, FS_CardinalityType
  <2>2. Cardinality(Below \ {0}) = Cardinality(Below) - 1 /\ IsFiniteSet(Below \ {0})
    BY <1>2, <1>3, FS_RemoveElement
  <2> QED
    BY <2>1, <2>2
<1>6. \E x, y \in Below : x # y /\ next[x] = next[y]
  <2> HIDE DEF Below, next
  <2> QED
    BY <1>2, <1>4, <1>5, FS_PigeonHole
<1> QED
  BY <1>6

\* The place that upper_bound finds.
LEMMA UpperBoundFound ==
  ASSUME SortedInv, NEW n \in Nat
  PROVE  /\ UpperBound(n) \in 1 .. Len(trackers) + 1
         /\ UpperBound(n) <= Len(trackers) => n < trackers[UpperBound(n)].longevity
         /\ \A j \in 1 .. UpperBound(n) - 1 : trackers[j].longevity <= n
<1> DEFINE m == Len(trackers)
           T == {k \in 1 .. m + 1 : k <= m => n < trackers[k].longevity}
<1>1. m \in Nat /\ \A j \in 1 .. m : trackers[j].longevity \in Nat
  <2>1. trackers \in Seq(Trackers)
    BY DEF SortedInv
  <2>2. m \in Nat
    BY <2>1, LenProperties
  <2>3. \A j \in 1 .. m : trackers[j] \in Trackers
    BY <2>1, ElementOfSeq
  <2> QED
    BY <2>2, <2>3 DEF Trackers
<1>2. T \subseteq Nat /\ m + 1 \in T
  BY <1>1
<1>3. PICK k \in T : \A j \in T : k <= j
  <2> HIDE DEF T
  <2> QED
    BY <1>2, LeastOf
<1>4. \A j \in 1 .. k - 1 : trackers[j].longevity <= n
  BY <1>1, <1>3
<1>5. \E u \in 1 .. m + 1 : /\ u <= m => n < trackers[u].longevity
                            /\ \A j \in 1 .. u - 1 : trackers[j].longevity <= n
  BY <1>3, <1>4
<1> QED
  BY <1>5 DEF UpperBound

\* insert: what is at which place afterwards.
LEMMA Inserted ==
  ASSUME NEW S, NEW s \in Seq(S), NEW k \in 1 .. Len(s) + 1, NEW e \in S
  PROVE  /\ InsertAt(s, k, e) \in Seq(S) /\ Len(InsertAt(s, k, e)) = Len(s) + 1
         /\ \A i \in 1 .. Len(s) + 1 :
               InsertAt(s, k, e)[i] = IF i < k THEN s[i]
                                      ELSE IF i = k THEN e ELSE s[i - 1]
<1> DEFINE a == SubSeq(s, 1, k - 1)
           b == SubSeq(s, k, Len(s))
           n == Len(s)
<1>1. n \in Nat /\ \A i \in 1 .. n : s[i] \in S
  BY LenProperties, ElementOfSeq
<1>2. /\ a \in Seq(S) /\ Len(a) = k - 1
      /\ \A i \in 1 .. k - 1 : a[i] = s[i]
  <2>1. 1 \in Int /\ k - 1 \in Int /\ \A i \in 1 .. k - 1 : s[i] \in S
    BY <1>1
  <2>2. /\ a \in Seq(S) /\ Len(a) = IF 1 <= k - 1 THEN (k - 1) - 1 + 1 ELSE 0
        /\ \A i \in 1 .. (k - 1) - 1 + 1 : a[i] = s[1 + i - 1]
    BY <2>1, SubSeqProperties
  <2>3. (k - 1) - 1 + 1 = k - 1 /\ \A i \in 1 .. k - 1 : 1 + i - 1 = i
    BY <1>1
  <2>4. Len(a) = k - 1
    BY <1>1, <2>2, <2>3
  <2> HIDE DEF a
  <2> QED
    BY <2>2, <2>3, <2>4
<1>3. /\ b \in Seq(S) /\ Len(b) = n - k + 1
      /\ \A i \in 1 .. n - k + 1 : b[i] = s[k + i - 1]
  <2>1. k \in Int /\ n \in Int /\ \A i \in k .. n : s[i] \in S
    BY <1>1
  <2>2. /\ b \in Seq(S) /\ Len(b) = IF k <= n THEN n - k + 1 ELSE 0
        /\ \A i \in 1 .. n - k + 1 : b[i] = s[k + i - 1]
    BY <2>1, SubSeqProperties
  <2>3. Len(b) = n - k + 1
    BY <1>1, <2>2
  <2> QED
    BY <2>2, <2>3
<1> DEFINE c == a \o <<e>>
<1>4. <<e>> \in Seq(S) /\ Len(<<e>>) = 1 /\ <<e>>[1] = e
  OBVIOUS
<1> HIDE DEF a, b
<1>5. /\ c \in Seq(S) /\ Len(c) = k
      /\ \A i \in 1 .. k : c[i] = IF i < k THEN s[i] ELSE e
  <2>1. /\ c \in Seq(S) /\ Len(c) = Len(a) + Len(<<e>>)
        /\ \A i \in 1 .. Len(a) + Len(<<e>>) :
              c[i] = IF i <= Len(a) THEN a[i] ELSE <<e>>[i - Len(a)]
    BY <1>2, <1>4, ConcatProperties
  <2> HIDE DEF c
  <2>2. ASSUME NEW i \in 1 .. k PROVE c[i] = IF i < k THEN s[i] ELSE e
    <3>1. CASE i < k
      BY <1>1, <1>2, <1>4, <2>1, <3>1
    <3>2. CASE i = k
      <4>1. i - Len(a) = 1 /\ ~(i <= Len(a)) /\ i \in 1 .. Len(a) + Len(<<e>>) /\ ~(i < k)
        BY <1>1, <1>2, <1>4, <3>2
      <4>2. c[i] = <<e>>[i - Len(a)]
        BY <2>1, <4>1
      <4>3. c[i] = e
        BY <1>4, <4>1, <4>2
      <4> QED
        BY <4>1, <4>3
    <3> QED
      BY <1>1, <3>1, <3>2
  <2> QED
    BY <1>1, <1>2, <1>4, <2>1, <2>2
<1>6. InsertAt(s, k, e) = c \o b
  BY DEF InsertAt, a, b
<1> HIDE DEF c
<1>7. /\ c \o b \in Seq(S) /\ Len(c \o b) = Len(c) + Len(b)
      /\ \A i \in 1 .. Len(c) + Len(b) :
            (c \o b)[i] = IF i <= Len(c) THEN c[i] ELSE b[i - Len(c)]
  BY <1>3, <1>5, ConcatProperties
<1>8. Len(c) + Len(b) = n + 1
  BY <1>1, <1>3, <1>5
<1>9. ASSUME NEW i \in 1 .. n + 1
      PROVE  (c \o b)[i] = IF i < k THEN s[i] ELSE IF i = k THEN e ELSE s[i - 1]
  <2>1. CASE i <= k
    BY <1>1, <1>5, <1>7, <1>8, <2>1
  <2>2. CASE i > k
    <3>1. /\ i - k \in 1 .. n - k + 1 /\ k + (i - k) - 1 = i - 1
          /\ ~(i <= k) /\ ~(i < k) /\ i # k /\ k \in Nat
      BY <1>1, <2>2
    <3>2. (c \o b)[i] = b[i - k]
      BY <1>5, <1>7, <1>8, <3>1
    <3>3. b[i - k] = s[i - 1]
      BY <1>3, <3>1
    <3> QED
      BY <3>1, <3>2, <3>3
  <2>3. i <= k \/ i > k
    BY <1>1
  <2> QED
    BY <2>1, <2>2, <2>3
<1> QED
  BY <1>6, <1>7, <1>8, <1>9

LEMMA FrontOf ==
  ASSUME NEW S, NEW s \in Seq(S)
  PROVE  /\ Front(s) \in Seq(S) /\ Len(s) \in Nat
         /\ Len(Front(s)) = IF s = <<>> THEN 0 ELSE Len(s) - 1
         /\ DOMAIN Front(s) = 1 .. Len(Front(s)) /\ DOMAIN s = 1 .. Len(s)
         /\ \A k \in DOMAIN Front(s) : Front(s)[k] = s[k] /\ k \in DOMAIN s /\ k < Len(s)
<1>1. Len(s) \in Nat /\ DOMAIN s = 1 .. Len(s)
  BY LenProperties
<1>2. CASE s = <<>>
  <2>1. Len(s) = 0 /\ Len(s) - 1 < 1 /\ Len(s) - 1 \in Int /\ 1 \in Int
    BY <1>2, EmptySeq
  <2>2. Front(s) = <<>> /\ Len(Front(s)) = 0
    BY <2>1, SubSeqEmpty, EmptySeq DEF Front
  <2>3. <<>> \in Seq(S) /\ DOMAIN Front(s) = 1 .. 0 /\ 1 .. 0 = {}
    BY <2>2, EmptySeq, LenProperties
  <2>4. Front(s) \in Seq(S) /\ DOMAIN Front(s) = {}
    BY <2>2, <2>3
  <2>5. /\ Len(Front(s)) = IF s = <<>> THEN 0 ELSE Len(s) - 1
        /\ DOMAIN Front(s) = 1 .. Len(Front(s))
    BY <1>2, <2>2, <2>3
  <2> QED
    BY <1>1, <2>4, <2>5
<1>3. CASE s # <<>>
  <2>1. /\ Front(s) \in Seq(S) /\ Len(s) \in Nat \ {0} /\ Len(Front(s)) = Len(s) - 1
        /\ \A k \in 1 .. Len(s) - 1 : Front(s)[k] = s[k]
    BY <1>3, FrontParts
  <2>2. DOMAIN Front(s) = 1 .. Len(Front(s))
    BY <2>1, LenProperties
  <2> QED
    BY <1>1, <1>3, <2>1, <2>2
<1> QED
  BY <1>2, <1>3

LEMMA SortedInsert ==
  ASSUME SortedInv, NEW n \in Longevities, SetLongevity(n)
  PROVE  SortedInv'
<1>1. /\ n \in Nat /\ trackers \in Seq(Trackers) /\ tracked \in Nat
      /\ tracked' = tracked + 1
  BY UsesAssumption DEF SetLongevity, SortedInv
<1>2. PICK m \in Nat : m = Len(trackers)
  BY <1>1, LenProperties
<1>3. PICK k \in 1 .. m + 1 :
         /\ k = UpperBound(n)
         /\ k <= m => n < trackers[k].longevity
         /\ \A j \in 1 .. k - 1 : trackers[j].longevity <= n
  BY <1>1, <1>2, UpperBoundFound
<1>4. PICK e \in Trackers : /\ e = [object |-> tracked, longevity |-> n]
                           /\ e.object = tracked /\ e.longevity = n
  <2> DEFINE e == [object |-> tracked, longevity |-> n]
  <2>1. e \in Trackers /\ e.object = tracked /\ e.longevity = n
    BY <1>1 DEF Trackers
  <2> QED
    BY <2>1
<1>5. /\ trackers' \in Seq(Trackers) /\ Len(trackers') = m + 1
      /\ \A i \in 1 .. m + 1 :
            trackers'[i] = IF i < k THEN trackers[i] ELSE IF i = k THEN e ELSE trackers[i - 1]
  <2>1. trackers' = InsertAt(trackers, k, e)
    BY <1>3, <1>4 DEF SetLongevity
  <2>2. /\ InsertAt(trackers, k, e) \in Seq(Trackers)
        /\ Len(InsertAt(trackers, k, e)) = m + 1
        /\ \A i \in 1 .. m + 1 :
              InsertAt(trackers, k, e)[i] =
                IF i < k THEN trackers[i] ELSE IF i = k THEN e ELSE trackers[i - 1]
    <3>1. k \in 1 .. Len(trackers) + 1
      BY <1>2
    <3>2. PICK s \in Seq(Trackers) : s = trackers
      BY <1>1
    <3>3. /\ InsertAt(s, k, e) \in Seq(Trackers) /\ Len(InsertAt(s, k, e)) = Len(s) + 1
          /\ \A i \in 1 .. Len(s) + 1 :
                InsertAt(s, k, e)[i] = IF i < k THEN s[i] ELSE IF i = k THEN e ELSE s[i - 1]
      <4>1. k \in 1 .. Len(s) + 1
        BY <3>1, <3>2
      <4> QED
        BY <4>1, Inserted
    <3> QED
      BY <1>2, <3>2, <3>3
  <2> QED
    BY <2>1, <2>2
<1>6. DOMAIN trackers' = 1 .. m + 1 /\ DOMAIN trackers = 1 .. m
  BY <1>1, <1>2, <1>5, LenProperties
<1>7. \A i \in 1 .. m : /\ trackers[i].object \in Nat /\ trackers[i].longevity \in Nat
                        /\ trackers[i].object < tracked
  <2>1. \A i \in 1 .. m : trackers[i] \in Trackers
    BY <1>1, <1>2, ElementOfSeq
  <2> QED
    BY <1>6, <2>1 DEF SortedInv, Trackers
<1>8. ASSUME NEW i \in 1 .. m + 1 PROVE trackers'[i].object < tracked'
  <2>1. CASE i < k
    BY <1>1, <1>5, <1>7, <2>1
  <2>2. CASE i = k
    BY <1>1, <1>4, <1>5, <2>2
  <2>3. CASE i > k
    <3>1. i - 1 \in 1 .. m /\ ~(i < k) /\ i # k
      BY <2>3
    <3> QED
      BY <1>1, <1>5, <1>7, <3>1
  <2> QED
    BY <2>1, <2>2, <2>3
\* Beyond the place of the new one longevities are greater.
<1>9. \A j \in k .. m : n < trackers[j].longevity
  <2> SUFFICES ASSUME NEW j \in k .. m PROVE n < trackers[j].longevity
    OBVIOUS
  <2>1. k \in 1 .. m /\ j \in 1 .. m /\ n < trackers[k].longevity
    BY <1>2, <1>3
  <2>2. CASE j = k
    BY <2>1, <2>2
  <2>3. CASE k < j
    <3>1. \/ trackers[k].longevity < trackers[j].longevity
          \/ trackers[k].longevity = trackers[j].longevity
      BY <1>6, <2>1, <2>3 DEF SortedInv
    <3> QED
      BY <1>1, <1>7, <2>1, <3>1
  <2> QED
    BY <2>1, <2>2, <2>3
<1>10. ASSUME NEW i \in 1 .. m + 1, NEW j \in 1 .. m + 1, i < j
       PROVE  \/ trackers'[i].longevity < trackers'[j].longevity
              \/ /\ trackers'[i].longevity = trackers'[j].longevity
                 /\ trackers'[i].object < trackers'[j].object
  <2>1. CASE i = k
    <3>1. j - 1 \in k .. m /\ ~(j < k) /\ j # k /\ ~(i < k)
      BY <1>2, <1>3, <1>10, <2>1
    <3>2. trackers'[i] = e /\ trackers'[j] = trackers[j - 1]
      BY <1>5, <2>1, <3>1
    <3> QED
      BY <1>4, <1>9, <3>1, <3>2
  <2>2. CASE j = k
    <3>1. i \in 1 .. k - 1 /\ i < k /\ ~(j < k) /\ i \in 1 .. m
      BY <1>2, <1>3, <1>10, <2>2
    <3>2. trackers'[i] = trackers[i] /\ trackers'[j] = e
      BY <1>5, <2>2, <3>1
    <3>3. trackers[i].longevity <= n
      BY <1>3, <3>1
    <3> QED
      BY <1>1, <1>4, <1>7, <3>1, <3>2, <3>3
  <2>3. CASE i # k /\ j # k
    <3> DEFINE a == IF i < k THEN i ELSE i - 1
               b == IF j < k THEN j ELSE j - 1
    <3>1. a \in 1 .. m /\ b \in 1 .. m /\ a < b
      BY <1>2, <1>3, <1>10, <2>3
    <3>2. trackers'[i] = trackers[a] /\ trackers'[j] = trackers[b]
      BY <1>5, <2>3
    <3> HIDE DEF a, b
    <3> QED
      BY <1>6, <3>1, <3>2 DEF SortedInv
  <2> QED
    BY <2>1, <2>2, <2>3
<1> QED
  BY <1>1, <1>5, <1>6, <1>8, <1>10 DEF SortedInv

LEMMA SortedStep == SortedInv /\ [HolderNext]_holderVars => SortedInv'
<1> SUFFICES ASSUME SortedInv, [HolderNext]_holderVars PROVE SortedInv'
  OBVIOUS
<1>1. CASE \E n \in Longevities : SetLongevity(n)
  BY <1>1, SortedInsert
<1>2. CASE AtExitFn
  <2>1. trackers \in Seq(Trackers) /\ trackers' = Front(trackers) /\ tracked' = tracked
    BY <1>2 DEF AtExitFn, SortedInv
  <2>2. /\ trackers' \in Seq(Trackers)
        /\ \A k \in DOMAIN trackers' : trackers'[k] = trackers[k] /\ k \in DOMAIN trackers
    BY <2>1, FrontOf
  <2> QED
    BY <2>1, <2>2 DEF SortedInv
<1>3. CASE UNCHANGED <<trackers, tracked>>
  BY <1>3 DEF SortedInv
<1> QED
  BY <1>1, <1>2, <1>3
     DEF HolderNext, holderVars, Proceeds, Test, LockClass, TestAgain, DeadReference,
         Constructs, Constructed, Schedule, UnlockClass, Destructs, Destructed, Instance,
         Exit, DestroySingleton

LEMMA SortedInit == HolderInit => SortedInv
BY EmptySeq DEF HolderInit, SortedInv

\* Exit destroys the object of the greatest longevity, and of those the youngest.
THEOREM GreatestLongevityFirst == HolderSpec => GreatestFirst
<1> DEFINE Top == Last(trackers)
           Greatest == \A p \in ToSet(Front(trackers)) :
                          \/ p.longevity < Top.longevity
                          \/ /\ p.longevity = Top.longevity
                             /\ p.object < Top.object
<1>1. SortedInv => Greatest
  <2> SUFFICES ASSUME SortedInv, NEW i \in DOMAIN Front(trackers)
               PROVE  LET p == Front(trackers)[i] IN
                      \/ p.longevity < Top.longevity
                      \/ /\ p.longevity = Top.longevity
                         /\ p.object < Top.object
    BY DEF ToSet
  <2>1. /\ Len(trackers) \in Nat /\ DOMAIN trackers = 1 .. Len(trackers)
        /\ Front(trackers)[i] = trackers[i] /\ i \in DOMAIN trackers /\ i < Len(trackers)
    BY FrontOf DEF SortedInv
  <2>2. Len(trackers) \in DOMAIN trackers
    BY <2>1
  <2> QED
    BY <2>1, <2>2 DEF SortedInv, Last
<1>2. SortedInv /\ [HolderNext]_holderVars => [AtExitFn => Greatest]_holderVars
  BY <1>1
<1> QED
  BY <1>2, SortedInit, SortedStep, PTL DEF HolderSpec, GreatestFirst

(***************************************************************************)
(* The stack of calls of one thread, as each step leaves it.                *)
(***************************************************************************)
\* The top call has become f; those below it are as they were.
Replaced(c, f) == /\ Len(calls'[c]) = Len(calls[c]) /\ calls'[c][Len(calls[c])] = f
                  /\ \A k \in 1 .. Len(calls[c]) - 1 : calls'[c][k] = calls[c][k]

\* The top call has gone.
Popped(c) == /\ Len(calls'[c]) = Len(calls[c]) - 1
             /\ \A k \in 1 .. Len(calls[c]) - 1 : calls'[c][k] = calls[c][k]

\* The top call has become f and has called g.
Asks(c, f, g) == /\ Len(calls'[c]) = Len(calls[c]) + 1
                 /\ calls'[c][Len(calls[c])] = f /\ calls'[c][Len(calls[c]) + 1] = g
                 /\ \A k \in 1 .. Len(calls[c]) - 1 : calls'[c][k] = calls[c][k]

Others(c) == \A d \in Clients \ {c} : calls'[d] = calls[d]

LEMMA StackParts ==
  ASSUME NEW s \in Seq(Frames)
  PROVE  /\ Len(s) \in Nat /\ DOMAIN s = 1 .. Len(s)
         /\ s = <<>> <=> Len(s) = 0
         /\ \A k \in DOMAIN s : /\ s[k] \in Frames /\ s[k].type \in Types
                                /\ s[k].pc \in Steps /\ s[k].todo \in Seq(Types)
         /\ Last(s) = s[Len(s)]
<1>1. Len(s) \in Nat /\ DOMAIN s = 1 .. Len(s)
  BY LenProperties
<1>2. s = <<>> <=> Len(s) = 0
  BY <1>1, EmptySeq
<1>3. \A k \in DOMAIN s : s[k] \in Frames
  BY <1>1, ElementOfSeq
<1> QED
  BY <1>1, <1>2, <1>3 DEF Frames, Last

LEMMA ReplacedIs ==
  ASSUME HolderTypeOK, NEW c \in Clients, calls[c] # <<>>, NEW f \in Frames,
         calls' = [calls EXCEPT ![c] = Front(@) \o <<f>>]
  PROVE  Replaced(c, f) /\ Others(c)
<1>1. calls'[c] = Front(calls[c]) \o <<f>> /\ Others(c) /\ calls[c] \in Seq(Frames)
  BY DEF HolderTypeOK, Others
<1> QED
  BY <1>1, TopReplaced DEF Replaced

LEMMA GotoIs ==
  ASSUME HolderTypeOK, NEW c \in Clients, calls[c] # <<>>, NEW pc \in Steps, Goto(c, pc)
  PROVE  Replaced(c, [Last(calls[c]) EXCEPT !.pc = pc]) /\ Others(c)
<1>1. Last(calls[c]) \in Frames
  BY FrontParts DEF HolderTypeOK
<1>2. [Last(calls[c]) EXCEPT !.pc = pc] \in Frames
  BY <1>1, CallAt
<1> QED
  BY <1>2, ReplacedIs DEF Goto

LEMMA PoppedIs ==
  ASSUME HolderTypeOK, NEW c \in Clients, calls[c] # <<>>, Returns(c)
  PROVE  Popped(c) /\ Others(c)
<1>1. calls'[c] = Front(calls[c]) /\ Others(c) /\ calls[c] \in Seq(Frames)
  BY DEF HolderTypeOK, Others, Returns
<1> QED
  BY <1>1, FrontParts DEF Popped

LEMMA AsksIs ==
  ASSUME HolderTypeOK, NEW c \in Clients, calls[c] # <<>>, AsksNext(c)
  PROVE  /\ Last(calls[c]).todo # <<>>
         /\ Asks(c, [Last(calls[c]) EXCEPT !.todo = Tail(@)],
                    Call(Head(Last(calls[c]).todo), "test", <<>>))
         /\ Others(c)
<1> DEFINE f == [Last(calls[c]) EXCEPT !.todo = Tail(@)]
           g == Call(Head(Last(calls[c]).todo), "test", <<>>)
<1>1. PICK q \in Seq(Frames) : q = calls[c] /\ q # <<>>
  BY DEF HolderTypeOK
<1>2. /\ Front(q) \in Seq(Frames) /\ Len(q) \in Nat \ {0} /\ Len(Front(q)) = Len(q) - 1
      /\ Last(q) \in Frames
      /\ \A k \in 1 .. Len(q) - 1 : Front(q)[k] = q[k]
  BY <1>1, FrontParts
<1>3. Last(q).todo # <<>> /\ Last(q).todo \in Seq(Types)
  BY <1>1, <1>2 DEF AsksNext, Frames
<1>4. f \in Frames
  <2>1. Tail(Last(q).todo) \in Seq(Types)
    BY <1>3, HeadTailProperties
  <2> QED
    BY <1>1, <1>2, <2>1, CallToDo
<1>5. g \in Frames
  <2>1. Head(Last(q).todo) \in Types /\ <<>> \in Seq(Types)
    BY <1>3, HeadTailProperties, EmptySeq
  <2> QED
    BY <1>1, <2>1 DEF Call, Frames, Steps
<1>6. calls'[c] = Front(q) \o <<f, g>> /\ Others(c)
  BY <1>1 DEF AsksNext, HolderTypeOK, Others
<1> HIDE DEF f, g
<1>7. /\ <<f, g>> \in Seq(Frames) /\ Len(<<f, g>>) = 2
      /\ <<f, g>>[1] = f /\ <<f, g>>[2] = g
  BY <1>4, <1>5
<1>8. PICK h \in Seq(Frames) : h = <<f, g>>
  BY <1>7
<1>9. PICK p \in Seq(Frames) : p = Front(q)
  BY <1>2
<1>10. /\ Len(p \o h) = Len(p) + Len(h)
       /\ \A i \in 1 .. Len(p) + Len(h) :
             (p \o h)[i] = IF i <= Len(p) THEN p[i] ELSE h[i - Len(p)]
  BY ConcatProperties
<1>11. /\ Len(q) - 1 \in Nat /\ Len(p) = Len(q) - 1 /\ Len(h) = 2 /\ h[1] = f /\ h[2] = g
       /\ \A k \in 1 .. Len(q) - 1 : p[k] = q[k]
  BY <1>2, <1>7, <1>8, <1>9
<1>12. /\ Len(p \o h) = Len(q) + 1
       /\ (p \o h)[Len(q)] = f /\ (p \o h)[Len(q) + 1] = g
       /\ \A k \in 1 .. Len(q) - 1 : (p \o h)[k] = q[k]
  <2>1. Len(q) - Len(p) = 1 /\ Len(q) + 1 - Len(p) = 2
    BY <1>2, <1>11
  <2>2. (p \o h)[Len(q)] = h[Len(q) - Len(p)]
    BY <1>2, <1>10, <1>11
  <2>3. (p \o h)[Len(q) + 1] = h[Len(q) + 1 - Len(p)]
    BY <1>2, <1>10, <1>11
  <2>4. Len(p \o h) = Len(q) + 1 /\ \A k \in 1 .. Len(q) - 1 : (p \o h)[k] = q[k]
    BY <1>2, <1>10, <1>11
  <2> QED
    BY <1>11, <2>1, <2>2, <2>3, <2>4
<1>13. Asks(c, f, g)
  BY <1>1, <1>6, <1>8, <1>9, <1>12 DEF Asks
<1> QED
  BY <1>1, <1>3, <1>6, <1>13 DEF f, g

\* How a step of c changes its calls, and at which statement the top call is.
Goes(c, from, to) == /\ Last(calls[c]).pc = from
                     /\ Replaced(c, [Last(calls[c]) EXCEPT !.pc = to])

Shape(c) ==
    \/ Goes(c, "test", "lock") /\ Test(c)
    \/ Goes(c, "lock", "again") /\ LockClass(c)
    \/ Goes(c, "again", "unlock") /\ TestAgain(c) /\ Asked(c) \in instances
    \/ Goes(c, "create", "schedule") /\ Constructed(c)
    \/ Goes(c, "schedule", "unlock") /\ Schedule(c)
    \/ /\ Last(calls[c]).pc = "again" /\ Asked(c) \notin instances /\ TestAgain(c)
       /\ Replaced(c, Call(Asked(c), "create", Uses[Asked(c)]))
    \/ Popped(c) /\ \/ Last(calls[c]).pc = "test" /\ Test(c) /\ Asked(c) \in instances
                    \/ Last(calls[c]).pc = "unlock" /\ UnlockClass(c)
                    \/ Last(calls[c]).pc = "destroy" /\ Destructed(c)
    \/ /\ Last(calls[c]).todo # <<>>
       /\ \/ Last(calls[c]).pc = "create" /\ Constructs(c)
          \/ Last(calls[c]).pc = "destroy" /\ Destructs(c)
       /\ Asks(c, [Last(calls[c]) EXCEPT !.todo = Tail(@)],
                  Call(Head(Last(calls[c]).todo), "test", <<>>))
    \/ calls'[c] = <<>> /\ Last(calls[c]).pc = "again" /\ DeadReference(c)

LEMMA StepShape ==
  ASSUME HolderTypeOK, NEW c \in Clients, Proceeds(c)
  PROVE  calls[c] # <<>> /\ Others(c) /\ Shape(c)
<1>1. CASE Test(c)
  <2>1. calls[c] # <<>> /\ Last(calls[c]).pc = "test"
    BY <1>1 DEF Test, At
  <2>2. CASE Asked(c) \in instances /\ Returns(c)
    BY <1>1, <2>1, <2>2, PoppedIs DEF Shape
  <2>3. CASE Goto(c, "lock")
    BY <1>1, <2>1, <2>3, GotoIs DEF Shape, Goes, Steps
  <2> QED
    BY <1>1, <2>1, <2>2, <2>3 DEF Test
<1>2. CASE LockClass(c)
  BY <1>2, GotoIs DEF LockClass, At, Shape, Goes, Steps
<1>3. CASE TestAgain(c)
  <2>1. calls[c] # <<>> /\ Last(calls[c]).pc = "again"
    BY <1>3 DEF TestAgain, At
  <2>2. Last(calls[c]) \in Frames /\ Asked(c) \in Types
    <3>1. Last(calls[c]) \in Frames
      BY <2>1, FrontParts DEF HolderTypeOK
    <3> QED
      BY <3>1 DEF Asked, Frames
  <2>3. CASE Asked(c) \in instances
    <3>1. Goto(c, "unlock")
      BY <1>3, <2>3 DEF TestAgain, Goto
    <3> QED
      BY <1>3, <2>1, <2>3, <3>1, GotoIs DEF Shape, Goes, Steps
  <2>4. CASE Asked(c) \notin instances
    <3> DEFINE f == Call(Asked(c), "create", Uses[Asked(c)])
    <3>1. calls' = [calls EXCEPT ![c] = Front(@) \o <<f>>]
      BY <1>3, <2>4 DEF TestAgain
    <3>2. f \in Frames
      BY <2>2, UsesAssumption DEF Call, Frames, Steps
    <3> HIDE DEF f
    <3>3. Replaced(c, f) /\ Others(c)
      BY <2>1, <3>1, <3>2, ReplacedIs
    <3> QED
      BY <1>3, <2>1, <2>4, <3>3 DEF Shape, f
  <2> QED
    BY <2>3, <2>4
<1>4. CASE DeadReference(c)
  BY <1>4 DEF DeadReference, At, Shape, Others, HolderTypeOK
<1>5. CASE Constructs(c) \/ Destructs(c)
  <2>1. calls[c] # <<>> /\ AsksNext(c)
    BY <1>5 DEF Constructs, Destructs, At
  <2> QED
    BY <1>5, <2>1, AsksIs DEF Constructs, Destructs, At, Shape
<1>6. CASE Constructed(c)
  BY <1>6, GotoIs DEF Constructed, At, Shape, Goes, Steps
<1>7. CASE Schedule(c)
  BY <1>7, GotoIs DEF Schedule, At, Shape, Goes, Steps
<1>8. CASE UnlockClass(c)
  BY <1>8, PoppedIs DEF UnlockClass, At, Shape
<1>9. CASE Destructed(c)
  BY <1>9, PoppedIs DEF Destructed, At, Shape
<1> QED
  BY <1>1, <1>2, <1>3, <1>4, <1>5, <1>6, <1>7, <1>8, <1>9 DEF Proceeds

(***************************************************************************)
(* Who may be inside whom: only constructors and destructors call; exit     *)
(* destroys when nothing else is under way, so that a destructor is the     *)
(* lowest call of Main.                                                     *)
(***************************************************************************)
StackInv ==
    /\ phase \in {"run", "exit", "terminated"}
    /\ phase # "run" => \A c \in Clients \ {Main} : calls[c] = <<>>
    /\ phase = "terminated" => calls[Main] = <<>>
    /\ \A c \in Clients : \A k \in DOMAIN calls[c] :
          /\ k < Len(calls[c]) => calls[c][k].pc \in {"create", "destroy"}
          /\ calls[c][k].pc = "destroy" => c = Main /\ k = 1 /\ phase = "exit"

LEMMA StackInit == HolderInit => StackInv
BY DEF HolderInit, StackInv

LEMMA StackProceeds ==
  ASSUME HolderInv, HolderInv', StackInv, NEW c \in Clients, Proceeds(c)
  PROVE  StackInv'
<1>1. /\ HolderTypeOK
      /\ calls[c] \in Seq(Frames) /\ calls'[c] \in Seq(Frames)
  BY DEF HolderInv, HolderTypeOK
<1>2. calls[c] # <<>> /\ Others(c) /\ Shape(c)
  BY <1>1, StepShape
<1>3. PICK n \in Nat : n = Len(calls[c]) /\ n > 0
  BY <1>1, <1>2, StackParts
<1>4. /\ DOMAIN calls[c] = 1 .. n /\ DOMAIN calls'[c] = 1 .. Len(calls'[c])
      /\ Last(calls[c]) = calls[c][n] /\ calls[c][n] \in Frames
      /\ calls'[c] = <<>> <=> Len(calls'[c]) = 0
      /\ Len(calls'[c]) \in Nat
  BY <1>1, <1>3, StackParts
<1>5. phase # "terminated" /\ (phase = "exit" => c = Main)
  BY <1>2 DEF StackInv
<1>6. /\ phase' \in {phase, "terminated"}
      /\ phase' # phase => phase = "exit" /\ calls'[c] = <<>>
  <2>1. CASE DeadReference(c)
    <3>1. calls'[c] = <<>> /\ 1 \in DOMAIN calls[c]
      BY <1>1, <1>3, <1>4, <2>1 DEF DeadReference, HolderTypeOK
    <3>2. phase' = IF calls[c][1].pc = "destroy" THEN "terminated" ELSE phase
      BY <2>1 DEF DeadReference
    <3>3. calls[c][1].pc = "destroy" => phase = "exit"
      BY <3>1 DEF StackInv
    <3> QED
      BY <3>1, <3>2, <3>3
  <2>2. CASE ~DeadReference(c)
    BY <2>2 DEF Proceeds, Test, LockClass, TestAgain, Constructs, Constructed, Schedule,
                UnlockClass, Destructs, Destructed
  <2> QED
    BY <2>1, <2>2
<1>7. ASSUME NEW k \in DOMAIN calls'[c]
      PROVE  /\ k < Len(calls'[c]) => calls'[c][k].pc \in {"create", "destroy"}
             /\ calls'[c][k].pc = "destroy" => k = 1 /\ c = Main /\ phase = "exit"
  <2> USE <1>3, <1>4
  <2>1. CASE \E f : Replaced(c, f) /\ f.pc # "destroy"
    BY <1>7, <2>1 DEF Replaced, StackInv
  <2>2. CASE Popped(c)
    BY <1>7, <2>2 DEF Popped, StackInv
  <2>3. CASE /\ Last(calls[c]).pc \in {"create", "destroy"}
             /\ Asks(c, [Last(calls[c]) EXCEPT !.todo = Tail(@)],
                        Call(Head(Last(calls[c]).todo), "test", <<>>))
    <3>1. PICK f, g : /\ Asks(c, f, g) /\ f.pc = calls[c][n].pc /\ g.pc = "test"
      BY <2>3 DEF Call, Frames
    <3> QED
      BY <1>7, <2>3, <3>1 DEF Asks, StackInv
  <2>4. CASE calls'[c] = <<>>
    BY <1>7, <2>4
  <2>5. \A to : [calls[c][n] EXCEPT !.pc = to].pc = to
    BY DEF Frames
  <2>6. Call(Asked(c), "create", Uses[Asked(c)]).pc = "create"
    BY DEF Call
  <2> QED
    BY <1>2, <2>1, <2>2, <2>3, <2>4, <2>5, <2>6 DEF Shape, Goes
<1> QED
  BY <1>2, <1>5, <1>6, <1>7 DEF StackInv, Others

LEMMA StackInductive ==
  ASSUME HolderInv, HolderInv', StackInv, [HolderNext]_holderVars
  PROVE  StackInv'
<1>1. ASSUME NEW c \in Clients, NEW t \in Types, Instance(c, t) PROVE StackInv'
  <2> DEFINE f == Call(t, "test", <<>>)
  <2>1. calls' = [calls EXCEPT ![c] = <<f>>] /\ f.pc = "test"
    BY <1>1 DEF Instance, Call
  <2> HIDE DEF f
  <2>2. \A d \in Clients : calls'[d] = IF d = c THEN <<f>> ELSE calls[d]
    BY <2>1 DEF HolderInv, HolderTypeOK
  <2>3. /\ phase' = phase /\ phase # "terminated" /\ (phase = "exit" => c = Main)
        /\ DOMAIN <<f>> = {1} /\ Len(<<f>>) = 1 /\ <<f>>[1] = f
    BY <1>1 DEF Instance
  <2> QED
    BY <2>1, <2>2, <2>3 DEF StackInv
<1>2. ASSUME NEW t \in Types, DestroySingleton(t) PROVE StackInv'
  <2> DEFINE f == Call(t, "destroy", UsesAtEnd[t])
  <2>1. calls' = [calls EXCEPT ![Main] = <<f>>] /\ f.pc = "destroy"
    BY <1>2 DEF DestroySingleton, Call
  <2> HIDE DEF f
  <2>2. \A d \in Clients : calls'[d] = IF d = Main THEN <<f>> ELSE calls[d]
    BY <2>1 DEF HolderInv, HolderTypeOK
  <2>3. /\ phase' = phase /\ phase = "exit"
        /\ DOMAIN <<f>> = {1} /\ Len(<<f>>) = 1 /\ <<f>>[1] = f
    BY <1>2 DEF DestroySingleton, ExitCalls
  <2> QED
    BY <2>1, <2>2, <2>3 DEF StackInv
<1>3. CASE \/ \E n \in Longevities : SetLongevity(n)
           \/ AtExitFn \/ UNCHANGED holderVars
  BY <1>3 DEF SetLongevity, AtExitFn, holderVars, StackInv
<1>4. CASE Exit
  BY <1>4 DEF Exit, StackInv
<1> QED
  BY <1>1, <1>2, <1>3, <1>4, StackProceeds DEF HolderNext

(***************************************************************************)
(* Destruction at exit.                                                     *)
(***************************************************************************)
Destroying == calls[Main] # <<>> /\ calls[Main][1].pc = "destroy"
Bottom     == calls[Main][1].type

\* Between its construction and its destruction a singleton is known to atexit
\* once, or it is just about to be given to it, or exit is just destroying it.
EndInv ==
    /\ instances \subseteq Types /\ destroyed \subseteq Types
    /\ atExit \in Seq(Types \cup {Main})
    /\ ToSet(atExit) \subseteq instances \cup {Main}
    /\ \A i, j \in DOMAIN atExit : atExit[i] = atExit[j] => i = j \/ atExit[i] = Main
    /\ instances \cap destroyed = {}
    /\ \A t \in instances \cup destroyed : made[t] # <<>>
    /\ \A c \in Clients : At(c, "schedule") =>
          /\ Asked(c) \in instances \ ToSet(atExit) /\ made[Asked(c)] = <<c>>
          /\ Destroying => Asked(c) # Bottom
    /\ \A c \in Clients : At(c, "unlock") => Asked(c) \in instances
    /\ Destroying => Bottom \in instances \ ToSet(atExit)
    /\ phase # "terminated" => \A t \in instances :
          \/ t \in ToSet(atExit)
          \/ \E c \in Clients : At(c, "schedule") /\ Asked(c) = t
          \/ Destroying /\ Bottom = t

LEMMA DestroyingAtExit ==
  ASSUME HolderInv, StackInv, Destroying
  PROVE  phase = "exit"
<1>1. calls[Main] \in Seq(Frames) /\ calls[Main] # <<>>
  BY UsesAssumption DEF HolderInv, HolderTypeOK, Destroying
<1>2. Len(calls[Main]) \in Nat /\ Len(calls[Main]) # 0 /\ DOMAIN calls[Main] = 1 .. Len(calls[Main])
  BY <1>1, StackParts
<1>3. 1 \in DOMAIN calls[Main]
  BY <1>2
<1> QED
  BY <1>3, UsesAssumption DEF Destroying, StackInv

LEMMA EndInit == HolderInit => EndInv
<1> SUFFICES ASSUME HolderInit PROVE EndInv
  OBVIOUS
<1>1. atExit \in Seq(Types \cup {Main}) /\ DOMAIN atExit = {} /\ ToSet(atExit) = {}
  BY EmptySeq DEF HolderInit, ToSet
<1>2. \A c \in Clients : calls[c] = <<>>
  BY DEF HolderInit
<1>3. Main \in Clients
  BY UsesAssumption
<1> QED
  BY <1>1, <1>2, <1>3 DEF HolderInit, EndInv, At, Destroying

\* Which singletons are about to be scheduled, or are being destroyed, after a step.
LEMMA StepEnds ==
  ASSUME HolderInv, HolderInv', StackInv, NEW c \in Clients, Proceeds(c)
  PROVE  /\ \A d \in Clients \ {c} : \A pc : At(d, pc)' = At(d, pc) /\ Asked(d)' = Asked(d)
         /\ At(c, "schedule") => Schedule(c)
         /\ At(c, "schedule")' => Constructed(c)
         /\ Constructed(c) => At(c, "create") /\ At(c, "schedule")' /\ Asked(c)' = Asked(c)
         /\ Schedule(c) => At(c, "schedule") /\ Asked(c)' = Asked(c)
         /\ At(c, "unlock")' => Asked(c)' = Asked(c)
                                   /\ (Schedule(c) \/ (TestAgain(c) /\ Asked(c) \in instances))
         /\ Destroying' => Destroying /\ Bottom' = Bottom
         /\ Destroying => \/ Destroying'
                          \/ Destructed(c) /\ c = Main
                          \/ DeadReference(c) /\ phase' = "terminated"
         /\ Destructed(c) => /\ c = Main /\ Destroying /\ ~Destroying' /\ Asked(c) = Bottom
                             /\ \A d \in Clients : ~At(d, "schedule")
<1> DEFINE Moves(from, to) ==
              /\ Goes(c, from, to) /\ from # "destroy" /\ to # "destroy"
              /\ to = "schedule" <=> Constructed(c)
              /\ to = "unlock" => Schedule(c) \/ (TestAgain(c) /\ Asked(c) \in instances)
              /\ Schedule(c) => to = "unlock"
              /\ ~Destructed(c)
<1>1. /\ HolderTypeOK
      /\ calls[c] \in Seq(Frames) /\ calls'[c] \in Seq(Frames)
  BY DEF HolderInv, HolderTypeOK
<1>2. calls[c] # <<>> /\ Others(c) /\ Shape(c)
  BY <1>1, StepShape
<1>3. PICK n \in Nat : n = Len(calls[c]) /\ n > 0 /\ (n = 1 \/ n > 1)
  BY <1>1, <1>2, StackParts
<1>4. /\ DOMAIN calls[c] = 1 .. n /\ DOMAIN calls'[c] = 1 .. Len(calls'[c])
      /\ Last(calls[c]) = calls[c][n] /\ calls[c][n] \in Frames
      /\ Last(calls'[c]) = calls'[c][Len(calls'[c])]
      /\ calls'[c] = <<>> <=> Len(calls'[c]) = 0
      /\ Len(calls'[c]) \in Nat
  BY <1>1, <1>3, StackParts
<1>5. PICK top \in Frames : top = Last(calls[c])
  BY <1>4
<1>6. \A to : [top EXCEPT !.pc = to].pc = to /\ [top EXCEPT !.pc = to].type = top.type
  BY DEF Frames
<1>7. \A d \in Clients \ {c} : \A pc : At(d, pc)' = At(d, pc) /\ Asked(d)' = Asked(d)
  BY <1>2 DEF Others, At, Asked
<1>8. ASSUME NEW f, Replaced(c, f)
      PROVE  /\ calls'[c] # <<>> /\ Last(calls'[c]) = f
             /\ c = Main => (Destroying' <=> IF n = 1 THEN f.pc = "destroy" ELSE Destroying)
             /\ c = Main /\ n > 1 => Bottom' = Bottom
             /\ c = Main /\ n = 1 => Bottom' = f.type
  <2>1. Len(calls'[c]) >= n /\ calls'[c][n] = f /\ (n > 1 => calls'[c][1] = calls[c][1])
        /\ Last(calls'[c]) = f
    BY <1>3, <1>4, <1>8 DEF Replaced
  <2>2. calls'[c] # <<>>
    BY <1>3, <1>4, <2>1
  <2>3. CASE n = 1
    BY <2>1, <2>2, <2>3 DEF Destroying, Bottom
  <2>4. CASE n > 1
    BY <1>2, <2>1, <2>2, <2>4 DEF Destroying, Bottom
  <2> QED
    BY <1>3, <2>1, <2>2, <2>3, <2>4
<1>9. ASSUME NEW f, NEW g, Asks(c, f, g)
      PROVE  /\ calls'[c] # <<>> /\ Last(calls'[c]) = g
             /\ c = Main => (Destroying' <=> IF n = 1 THEN f.pc = "destroy" ELSE Destroying)
             /\ c = Main /\ n > 1 => Bottom' = Bottom
             /\ c = Main /\ n = 1 => Bottom' = f.type
  <2>1. Len(calls'[c]) >= n /\ calls'[c][n] = f /\ (n > 1 => calls'[c][1] = calls[c][1])
        /\ Last(calls'[c]) = g
    BY <1>3, <1>4, <1>9 DEF Asks
  <2>2. calls'[c] # <<>>
    BY <1>3, <1>4, <2>1
  <2>3. CASE n = 1
    BY <2>1, <2>2, <2>3 DEF Destroying, Bottom
  <2>4. CASE n > 1
    BY <1>2, <2>1, <2>2, <2>4 DEF Destroying, Bottom
  <2> QED
    BY <1>3, <2>1, <2>2, <2>3, <2>4
<1>10. ASSUME Popped(c)
       PROVE  /\ calls'[c] # <<>> => Last(calls'[c]).pc \in {"create", "destroy"}
              /\ c = Main => (Destroying' <=> n > 1 /\ Destroying)
              /\ c = Main /\ n > 1 => Bottom' = Bottom
  <2>1. n > 1 => n - 1 \in 1 .. n - 1 /\ n - 1 \in DOMAIN calls[c] /\ n - 1 < n /\ 1 \in 1 .. n - 1
    BY <1>3, <1>4
  <2>2. n > 1 => calls'[c][n - 1] = calls[c][n - 1] /\ calls'[c][1] = calls[c][1]
    BY <1>3, <1>10, <2>1 DEF Popped
  <2>3. n > 1 => calls[c][n - 1].pc \in {"create", "destroy"}
    BY <1>3, <2>1 DEF StackInv
  <2>4. Len(calls'[c]) = n - 1
    BY <1>3, <1>10 DEF Popped
  <2> QED
    BY <1>2, <1>3, <1>4, <2>1, <2>2, <2>3, <2>4 DEF Destroying, Bottom
<1>11. /\ c = Main /\ n = 1 => (Destroying <=> top.pc = "destroy") /\ Bottom = top.type
       /\ c # Main => Destroying' = Destroying /\ Bottom' = Bottom
       /\ top.pc = "destroy" => c = Main /\ n = 1
       /\ Asked(c) = top.type
       /\ \A pc : At(c, pc) <=> top.pc = pc
  <2>1. top = calls[c][n] /\ n \in DOMAIN calls[c]
    BY <1>3, <1>4, <1>5
  <2>2. c = Main /\ n = 1 => (Destroying <=> top.pc = "destroy") /\ Bottom = top.type
    BY <1>2, <2>1 DEF Destroying, Bottom
  <2>3. c # Main => Destroying' = Destroying /\ Bottom' = Bottom
    BY <1>2, UsesAssumption DEF Destroying, Bottom, Others
  <2>4. top.pc = "destroy" => c = Main /\ n = 1
    BY <2>1 DEF StackInv
  <2> QED
    BY <1>2, <1>5, <2>2, <2>3, <2>4 DEF Asked, At
<1>12. /\ Constructed(c) => top.pc = "create" /\ top.todo = <<>>
       /\ Schedule(c) => top.pc = "schedule"
       /\ Destructed(c) => top.pc = "destroy" /\ top.todo = <<>>
       /\ top.pc = "schedule" => Schedule(c)
       /\ DeadReference(c) => calls'[c] = <<>>
  BY <1>2, <1>5, <1>11
     DEF Proceeds, Test, LockClass, TestAgain, DeadReference, Constructs, Constructed,
         Schedule, UnlockClass, Destructs, Destructed, HolderTypeOK, HolderInv
<1>13. CASE \E from, to : Moves(from, to)
  <2>1. PICK from, to : Moves(from, to)
    BY <1>13
  <2>2. /\ top.pc = from /\ calls'[c] # <<>>
        /\ Last(calls'[c]).pc = to /\ Last(calls'[c]).type = top.type
        /\ c = Main => (Destroying' <=> IF n = 1 THEN to = "destroy" ELSE Destroying)
        /\ c = Main /\ n > 1 => Bottom' = Bottom
    BY <1>5, <1>6, <1>8, <2>1 DEF Goes
  <2>3. (\A pc : At(c, pc)' <=> pc = to) /\ Asked(c)' = Asked(c)
    BY <1>11, <2>2 DEF At, Asked
  <2>4. (Destroying' <=> Destroying) /\ (Destroying => Bottom' = Bottom)
    <3>1. CASE c # Main
      BY <1>11, <3>1
    <3>2. CASE c = Main /\ n = 1
      BY <1>11, <2>1, <2>2, <3>2
    <3>3. CASE c = Main /\ n > 1
      BY <2>2, <3>3
    <3> QED
      BY <1>3, <3>1, <3>2, <3>3
  <2> QED
    BY <1>7, <1>11, <1>12, <2>1, <2>2, <2>3, <2>4
<1>14. CASE /\ top.pc = "again" /\ Replaced(c, Call(Asked(c), "create", Uses[Asked(c)]))
  <2>1. Call(Asked(c), "create", Uses[Asked(c)]).pc = "create"
    BY DEF Call
  <2>2. /\ ~At(c, "schedule")' /\ ~At(c, "unlock")'
        /\ c = Main => (Destroying' <=> IF n = 1 THEN FALSE ELSE Destroying)
        /\ c = Main /\ n > 1 => Bottom' = Bottom
    BY <1>8, <1>14, <2>1 DEF At
  <2>3. (Destroying' <=> Destroying) /\ (Destroying => Bottom' = Bottom)
    <3>1. CASE c # Main
      BY <1>11, <3>1
    <3>2. CASE c = Main /\ n = 1
      BY <1>11, <1>14, <2>2, <3>2
    <3>3. CASE c = Main /\ n > 1
      BY <2>2, <3>3
    <3> QED
      BY <1>3, <3>1, <3>2, <3>3
  <2> QED
    BY <1>7, <1>11, <1>12, <1>14, <2>2, <2>3
<1>15. CASE Popped(c) /\ (top.pc \in {"test", "unlock"} \/ (top.pc = "destroy" /\ Destructed(c)))
  <2>1. ~At(c, "schedule")' /\ ~At(c, "unlock")'
    BY <1>10, <1>15 DEF At
  <2>2. CASE top.pc \in {"test", "unlock"}
    BY <1>3, <1>7, <1>10, <1>11, <1>12, <1>15, <2>1, <2>2
  <2>3. CASE top.pc = "destroy" /\ Destructed(c)
    <3>1. c = Main /\ n = 1 /\ Destroying /\ ~Destroying' /\ Asked(c) = Bottom /\ phase = "exit"
      BY <1>3, <1>4, <1>5, <1>10, <1>11, <1>15, <2>3 DEF StackInv
    <3>2. \A d \in Clients : ~At(d, "schedule")
      BY <1>11, <2>3, <3>1 DEF StackInv, At
    <3> QED
      BY <1>7, <1>12, <2>1, <2>3, <3>1, <3>2
  <2> QED
    BY <1>15, <2>2, <2>3
<1>16. CASE /\ top.todo # <<>> /\ top.pc \in {"create", "destroy"}
            /\ Asks(c, [Last(calls[c]) EXCEPT !.todo = Tail(@)],
                       Call(Head(Last(calls[c]).todo), "test", <<>>))
  <2>1. PICK f, g : /\ Asks(c, f, g) /\ f.pc = top.pc /\ f.type = top.type /\ g.pc = "test"
    BY <1>5, <1>16 DEF Call, Frames
  <2>2. /\ ~At(c, "schedule")' /\ ~At(c, "unlock")'
        /\ c = Main => (Destroying' <=> IF n = 1 THEN top.pc = "destroy" ELSE Destroying)
        /\ c = Main /\ n > 1 => Bottom' = Bottom
        /\ c = Main /\ n = 1 => Bottom' = top.type
    BY <1>9, <2>1 DEF At
  <2>3. (Destroying' <=> Destroying) /\ (Destroying => Bottom' = Bottom)
    <3>1. CASE c # Main
      BY <1>11, <3>1
    <3>2. CASE c = Main /\ n = 1
      BY <1>11, <2>2, <3>2
    <3>3. CASE c = Main /\ n > 1
      BY <2>2, <3>3
    <3> QED
      BY <1>3, <3>1, <3>2, <3>3
  <2>4. ~Constructed(c) /\ ~Schedule(c) /\ ~Destructed(c)
    BY <1>12, <1>16
  <2> QED
    BY <1>7, <1>11, <1>12, <1>16, <2>2, <2>3, <2>4
<1>17. CASE calls'[c] = <<>> /\ top.pc = "again" /\ DeadReference(c)
  <2>1. ~At(c, "schedule")' /\ ~At(c, "unlock")' /\ (c = Main => ~Destroying')
    BY <1>17 DEF At, Destroying
  <2>2. c = Main /\ Destroying => phase' = "terminated"
    BY <1>17 DEF DeadReference, Destroying
  <2> QED
    BY <1>7, <1>11, <1>12, <1>17, <2>1, <2>2
<1>18. \A from, to : Goes(c, from, to) => top.pc = from
  BY <1>5 DEF Goes
<1>19. CASE \/ Goes(c, "test", "lock") /\ Test(c)
            \/ Goes(c, "lock", "again") /\ LockClass(c)
            \/ Goes(c, "again", "unlock") /\ TestAgain(c) /\ Asked(c) \in instances
            \/ Goes(c, "create", "schedule") /\ Constructed(c)
            \/ Goes(c, "schedule", "unlock") /\ Schedule(c)
  <2>1. ASSUME Goes(c, "test", "lock") \/ Goes(c, "lock", "again")
        PROVE  \E from, to : Moves(from, to)
    <3>1. ~Constructed(c) /\ ~Schedule(c) /\ ~Destructed(c)
      BY <1>12, <1>18, <2>1
    <3> QED
      BY <2>1, <3>1
  <2>2. ASSUME Goes(c, "again", "unlock") /\ TestAgain(c) /\ Asked(c) \in instances
        PROVE  \E from, to : Moves(from, to)
    <3>1. ~Constructed(c) /\ ~Schedule(c) /\ ~Destructed(c)
      BY <1>12, <1>18, <2>2
    <3> QED
      BY <2>2, <3>1
  <2>3. ASSUME Goes(c, "create", "schedule") /\ Constructed(c)
        PROVE  \E from, to : Moves(from, to)
    <3>1. ~Schedule(c) /\ ~Destructed(c)
      BY <1>12, <1>18, <2>3
    <3> QED
      BY <2>3, <3>1
  <2>4. ASSUME Goes(c, "schedule", "unlock") /\ Schedule(c)
        PROVE  \E from, to : Moves(from, to)
    <3>1. ~Constructed(c) /\ ~Destructed(c)
      BY <1>12, <1>18, <2>4
    <3> QED
      BY <2>4, <3>1
  <2> QED
    BY <1>13, <1>19, <2>1, <2>2, <2>3, <2>4
<1> QED
  BY <1>2, <1>5, <1>14, <1>15, <1>16, <1>17, <1>19 DEF Shape

-----------------------------------------------------------------------------
\* What is in a sequence that is extended or shortened at its end.
LEMMA AppendSet ==
  ASSUME NEW S, NEW s \in Seq(S), NEW e \in S
  PROVE  /\ Append(s, e) \in Seq(S) /\ Len(s) \in Nat /\ DOMAIN s = 1 .. Len(s)
         /\ Len(Append(s, e)) = Len(s) + 1 /\ DOMAIN Append(s, e) = 1 .. Len(s) + 1
         /\ \A i \in 1 .. Len(s) : Append(s, e)[i] = s[i]
         /\ Append(s, e)[Len(s) + 1] = e
         /\ ToSet(Append(s, e)) = ToSet(s) \cup {e}
<1>1. /\ Append(s, e) \in Seq(S) /\ Len(s) \in Nat /\ DOMAIN s = 1 .. Len(s)
      /\ Len(Append(s, e)) = Len(s) + 1
      /\ \A i \in 1 .. Len(s) : Append(s, e)[i] = s[i]
      /\ Append(s, e)[Len(s) + 1] = e
  BY AppendProperties, LenProperties
<1>2. DOMAIN Append(s, e) = 1 .. Len(s) + 1
  BY <1>1, LenProperties
<1>3. ToSet(Append(s, e)) = ToSet(s) \cup {e}
  <2>1. PICK r \in Seq(S) : r = Append(s, e)
    BY <1>1
  <2>2. PICK n \in Nat : n = Len(s)
    BY <1>1
  <2>3. /\ DOMAIN r = 1 .. n + 1 /\ DOMAIN s = 1 .. n
        /\ \A i \in 1 .. n : r[i] = s[i]
        /\ r[n + 1] = e
    BY <1>1, <1>2, <2>1, <2>2
  <2>4. \A i \in DOMAIN s : i \in DOMAIN r /\ r[i] = s[i]
    BY <2>3
  <2>5. n + 1 \in DOMAIN r
    BY <2>3
  <2>6. \A i \in DOMAIN r : i = n + 1 \/ i \in DOMAIN s
    BY <2>3
  <2> QED
    BY <2>1, <2>3, <2>4, <2>5, <2>6 DEF ToSet
<1> QED
  BY <1>1, <1>2, <1>3

LEMMA FrontSet ==
  ASSUME NEW S, NEW s \in Seq(S), s # <<>>
  PROVE  /\ Len(s) \in DOMAIN s /\ Last(s) = s[Len(s)] /\ Last(s) \in S
         /\ ToSet(s) = ToSet(Front(s)) \cup {Last(s)}
         /\ \A i \in DOMAIN s : i # Len(s) => i \in DOMAIN Front(s)
<1>1. /\ Front(s) \in Seq(S) /\ Len(s) \in Nat \ {0} /\ Len(Front(s)) = Len(s) - 1
      /\ Last(s) = s[Len(s)] /\ Last(s) \in S
  BY FrontParts
<1>2. PICK r \in Seq(S) : r = Front(s)
  BY <1>1
<1>3. PICK n \in Nat \ {0} : n = Len(s)
  BY <1>1
<1>4. /\ DOMAIN r = 1 .. n - 1 /\ DOMAIN s = 1 .. n
      /\ \A k \in DOMAIN r : r[k] = s[k]
  BY <1>1, <1>2, <1>3, FrontOf, LenProperties
<1>5. n \in DOMAIN s /\ \A i \in DOMAIN s : i # n => i \in DOMAIN r
  BY <1>4
<1>6. \A i \in DOMAIN r : i \in DOMAIN s
  BY <1>4
<1>7. ToSet(s) = ToSet(r) \cup {s[n]}
  BY <1>4, <1>5, <1>6 DEF ToSet
<1> QED
  BY <1>1, <1>2, <1>3, <1>5, <1>7

\* The steps that construct, schedule and destroy.
LEMMA EndConstructed ==
  ASSUME HolderInv, HolderInv', StackInv, EndInv, NEW c \in Clients, Constructed(c)
  PROVE  EndInv'
<1>1. PICK t \in Types : t = Asked(c) /\ made[t] = <<>> /\ calls[c] # <<>>
  BY TopParts DEF Constructed, At
<1>2. Append(<<>>, c) = <<c>> /\ <<c>> # <<>>
  OBVIOUS
<1>3. /\ instances' = instances \cup {t} /\ destroyed' = destroyed /\ atExit' = atExit
      /\ phase' = phase
      /\ \A u \in Types : made'[u] = IF u = t THEN <<c>> ELSE made[u]
  BY <1>1, <1>2 DEF Constructed, HolderInv, HolderTypeOK
<1>4. t \notin instances \cup destroyed /\ t \notin ToSet(atExit)
  BY <1>1, UsesAssumption DEF EndInv
<1>5. /\ At(c, "create") /\ At(c, "schedule")' /\ Asked(c)' = t
      /\ \A d \in Clients \ {c} : \A pc : At(d, pc)' = At(d, pc) /\ Asked(d)' = Asked(d)
      /\ ~At(c, "unlock")'
      /\ Destroying' => Destroying /\ Bottom' = Bottom
      /\ Destroying => Destroying'
  <2>1. Proceeds(c) /\ At(c, "create") /\ ~Schedule(c) /\ ~TestAgain(c) /\ ~Destructed(c) /\ ~DeadReference(c)
    BY DEF Proceeds, Constructed, At, Schedule, TestAgain, Destructed, DeadReference
  <2> QED
    BY <1>1, <2>1, StepEnds
<1>6. \A d \in Clients : At(d, "schedule")' =>
         \/ d = c /\ Asked(d)' = t
         \/ /\ d # c /\ At(d, "schedule") /\ Asked(d)' = Asked(d) /\ Asked(d) # t
            /\ Asked(d) \in Types
  BY <1>4, <1>5 DEF EndInv
<1>7. \A d \in Clients : At(d, "unlock")' => Asked(d)' \in instances'
  BY <1>3, <1>5 DEF EndInv
<1>8. \A d \in Clients : At(d, "schedule")' =>
          /\ Asked(d)' \in instances' \ ToSet(atExit') /\ made'[Asked(d)'] = <<d>>
          /\ Destroying' => Asked(d)' # Bottom'
  <2> SUFFICES ASSUME NEW d \in Clients, At(d, "schedule")'
               PROVE  /\ Asked(d)' \in instances' \ ToSet(atExit') /\ made'[Asked(d)'] = <<d>>
                      /\ Destroying' => Asked(d)' # Bottom'
    OBVIOUS
  <2>1. CASE d = c
    BY <1>3, <1>4, <1>5, <2>1 DEF EndInv
  <2>2. CASE d # c
    BY <1>3, <1>5, <1>6, <2>2 DEF EndInv
  <2> QED
    BY <2>1, <2>2
<1>9. phase' # "terminated" => \A u \in instances' :
          \/ u \in ToSet(atExit')
          \/ \E d \in Clients : At(d, "schedule")' /\ Asked(d)' = u
          \/ Destroying' /\ Bottom' = u
  <2> SUFFICES ASSUME phase' # "terminated", NEW u \in instances', u # t
               PROVE  \/ u \in ToSet(atExit')
                      \/ \E d \in Clients : At(d, "schedule")' /\ Asked(d)' = u
                      \/ Destroying' /\ Bottom' = u
    BY <1>5
  <2>1. u \in instances
    BY <1>3
  <2>2. ASSUME NEW d \in Clients, At(d, "schedule"), Asked(d) = u
        PROVE  At(d, "schedule")' /\ Asked(d)' = u
    BY <1>1, <1>5, <2>2
  <2> QED
    BY <1>3, <1>5, <2>1, <2>2 DEF EndInv
<1>10. /\ instances' \subseteq Types /\ destroyed' \subseteq Types
       /\ atExit' \in Seq(Types \cup {Main}) /\ ToSet(atExit') \subseteq instances' \cup {Main}
       /\ instances' \cap destroyed' = {}
       /\ \A u \in instances' \cup destroyed' : made'[u] # <<>>
       /\ Destroying' => Bottom' \in instances' \ ToSet(atExit')
  BY <1>2, <1>3, <1>4, <1>5 DEF EndInv
<1> QED
  BY <1>3, <1>7, <1>8, <1>9, <1>10 DEF EndInv

LEMMA EndSchedule ==
  ASSUME HolderInv, HolderInv', StackInv, EndInv, NEW c \in Clients, Schedule(c)
  PROVE  EndInv'
<1>1. /\ At(c, "schedule") /\ ~Constructed(c) /\ ~Destructed(c) /\ ~DeadReference(c)
      /\ Proceeds(c)
  BY DEF Proceeds, Schedule, At, Constructed, Destructed, DeadReference
<1>2. PICK t \in Types : t = Asked(c) /\ t \in instances \ ToSet(atExit) /\ made[t] = <<c>>
                         /\ (Destroying => t # Bottom)
  BY <1>1 DEF EndInv
<1>3. /\ UNCHANGED <<instances, destroyed, made, phase>>
      /\ atExit' = Append(atExit, t) /\ atExit \in Seq(Types \cup {Main})
  BY <1>2 DEF Schedule, EndInv
<1>4. /\ ToSet(atExit') = ToSet(atExit) \cup {t} /\ atExit' \in Seq(Types \cup {Main})
      /\ \A i \in DOMAIN atExit : atExit'[i] = atExit[i]
      /\ \A i \in DOMAIN atExit' : i \notin DOMAIN atExit => i = Len(atExit) + 1
      /\ atExit'[Len(atExit) + 1] = t
  <2>1. t \in Types \cup {Main}
    OBVIOUS
  <2>2. /\ Len(atExit) \in Nat /\ DOMAIN atExit = 1 .. Len(atExit)
        /\ DOMAIN atExit' = 1 .. Len(atExit) + 1
        /\ \A i \in 1 .. Len(atExit) : atExit'[i] = atExit[i]
        /\ atExit'[Len(atExit) + 1] = t
        /\ ToSet(atExit') = ToSet(atExit) \cup {t} /\ atExit' \in Seq(Types \cup {Main})
    BY <1>3, <2>1, AppendSet
  <2> QED
    BY <2>2
<1>5. \A i, j \in DOMAIN atExit' : atExit'[i] = atExit'[j] => i = j \/ atExit'[i] = Main
  <2>1. \A i \in DOMAIN atExit : atExit[i] # t
    BY <1>2 DEF ToSet
  <2> QED
    BY <1>4, <2>1 DEF EndInv
<1>6. /\ \A d \in Clients \ {c} : \A pc : At(d, pc)' = At(d, pc) /\ Asked(d)' = Asked(d)
      /\ ~At(c, "schedule")' /\ Asked(c)' = t
      /\ Destroying' => Destroying /\ Bottom' = Bottom
      /\ Destroying => Destroying'
  BY <1>1, <1>2, StepEnds
<1>7. \A d \in Clients \ {c} : <<d>> # <<c>>
  OBVIOUS
<1>8. \A d \in Clients : At(d, "schedule")' =>
          /\ Asked(d)' \in instances' \ ToSet(atExit') /\ made'[Asked(d)'] = <<d>>
          /\ Destroying' => Asked(d)' # Bottom'
  BY <1>2, <1>3, <1>4, <1>6, <1>7 DEF EndInv
<1>9. \A d \in Clients : At(d, "unlock")' => Asked(d)' \in instances'
  BY <1>2, <1>3, <1>6 DEF EndInv
<1>10. phase' # "terminated" => \A u \in instances' :
          \/ u \in ToSet(atExit')
          \/ \E d \in Clients : At(d, "schedule")' /\ Asked(d)' = u
          \/ Destroying' /\ Bottom' = u
  BY <1>2, <1>3, <1>4, <1>6 DEF EndInv
<1> QED
  BY <1>2, <1>3, <1>4, <1>5, <1>6, <1>8, <1>9, <1>10 DEF EndInv

LEMMA EndDestructed ==
  ASSUME HolderInv, HolderInv', StackInv, StackInv', EndInv, NEW c \in Clients, Destructed(c)
  PROVE  EndInv'
<1>1. /\ ~Constructed(c) /\ ~Schedule(c) /\ ~TestAgain(c) /\ Proceeds(c)
  BY DEF Proceeds, Schedule, At, Constructed, Destructed, TestAgain
<1>2. /\ c = Main /\ Destroying /\ ~Destroying' /\ Asked(c) = Bottom
      /\ \A d \in Clients : ~At(d, "schedule")
      /\ \A d \in Clients : ~At(d, "schedule")'
      /\ ~At(c, "unlock")'
      /\ \A d \in Clients \ {c} : \A pc : At(d, pc)' = At(d, pc)
  BY <1>1, StepEnds
<1>3. PICK t \in instances : t = Bottom /\ t \notin ToSet(atExit) /\ t \in Types
  BY <1>2 DEF EndInv
<1>4. /\ instances' = instances \ {t} /\ destroyed' = destroyed \cup {t}
      /\ UNCHANGED <<made, atExit, phase>>
  BY <1>2, <1>3 DEF Destructed
<1>5. phase = "exit"
  BY <1>2, DestroyingAtExit
<1>6. \A d \in Clients : ~At(d, "unlock")'
  BY <1>2, <1>4, <1>5 DEF StackInv, At
<1>7. ToSet(atExit') \subseteq instances' \cup {Main}
  BY <1>3, <1>4 DEF EndInv
<1>8. \A u \in instances' : u \in ToSet(atExit')
  BY <1>2, <1>3, <1>4, <1>5 DEF EndInv
<1> QED
  BY <1>2, <1>3, <1>4, <1>6, <1>7, <1>8 DEF EndInv

\* Exit takes what was scheduled last.
LEMMA EndDestroys ==
  ASSUME HolderInv, HolderInv', StackInv, StackInv', EndInv, NEW t \in Types,
         DestroySingleton(t)
  PROVE  EndInv'
<1>1. /\ atExit # <<>> /\ Last(atExit) = t /\ atExit' = Front(atExit)
      /\ phase = "exit" /\ calls[Main] = <<>>
      /\ UNCHANGED <<instances, destroyed, made, phase>>
      /\ atExit \in Seq(Types \cup {Main}) /\ t # Main
  BY UsesAssumption DEF DestroySingleton, ExitCalls, EndInv
<1>2. /\ Len(atExit) \in DOMAIN atExit /\ t = atExit[Len(atExit)]
      /\ ToSet(atExit) = ToSet(atExit') \cup {t}
      /\ DOMAIN atExit = 1 .. Len(atExit)
      /\ atExit' \in Seq(Types \cup {Main})
      /\ \A k \in DOMAIN atExit' :
            atExit'[k] = atExit[k] /\ k \in DOMAIN atExit /\ k # Len(atExit)
  <2>1. /\ Len(atExit) \in DOMAIN atExit /\ Last(atExit) = atExit[Len(atExit)]
        /\ ToSet(atExit) = ToSet(Front(atExit)) \cup {Last(atExit)}
    BY <1>1, FrontSet
  <2>2. /\ Front(atExit) \in Seq(Types \cup {Main}) /\ Len(atExit) \in Nat
        /\ DOMAIN atExit = 1 .. Len(atExit)
        /\ \A k \in DOMAIN Front(atExit) :
              Front(atExit)[k] = atExit[k] /\ k \in DOMAIN atExit /\ k < Len(atExit)
    BY <1>1, FrontOf
  <2>3. \A k \in DOMAIN Front(atExit) : k # Len(atExit)
    BY <2>2
  <2> QED
    BY <1>1, <2>1, <2>2, <2>3
<1>3. t \notin ToSet(atExit')
  BY <1>1, <1>2 DEF EndInv, ToSet
<1>4. /\ calls' = [calls EXCEPT ![Main] = <<Call(t, "destroy", UsesAtEnd[t])>>]
      /\ \A d \in Clients \ {Main} : calls'[d] = <<>> /\ calls[d] = <<>>
  BY <1>1 DEF DestroySingleton, StackInv
<1>5. /\ calls'[Main] # <<>> /\ Destroying' /\ Bottom' = t
      /\ \A pc : At(Main, pc)' => pc = "destroy"
  <2> DEFINE f == Call(t, "destroy", UsesAtEnd[t])
  <2>1. f.pc = "destroy" /\ f.type = t
    BY DEF Call
  <2> HIDE DEF f
  <2>2. calls'[Main] = <<f>>
    BY <1>4, UsesAssumption DEF f, HolderInv, HolderTypeOK
  <2> QED
    BY <2>1, <2>2 DEF Destroying, Bottom, At, Last
<1>6. \A d \in Clients : ~At(d, "schedule")' /\ ~At(d, "unlock")' /\ ~At(d, "schedule")
  BY <1>1, <1>4, <1>5 DEF At
<1>7. ~Destroying
  BY <1>1 DEF Destroying
<1>8. \A i, j \in DOMAIN atExit' : atExit'[i] = atExit'[j] => i = j \/ atExit'[i] = Main
  BY <1>2 DEF EndInv
<1> QED
  BY <1>1, <1>2, <1>3, <1>5, <1>6, <1>7, <1>8 DEF EndInv

\* What changes neither the singletons nor what is known of them.
LEMMA EndOthers ==
  ASSUME EndInv, UNCHANGED <<instances, destroyed, made>>,
         atExit' \in Seq(Types \cup {Main}),
         ToSet(atExit') \cup {Main} = ToSet(atExit) \cup {Main},
         \A i, j \in DOMAIN atExit' : atExit'[i] = atExit'[j] => i = j \/ atExit'[i] = Main,
         phase' # "terminated" => phase # "terminated",
         \A d \in Clients : At(d, "schedule")' <=> At(d, "schedule"),
         \A d \in Clients : At(d, "schedule")' => Asked(d)' = Asked(d),
         \A d \in Clients : At(d, "unlock")' => Asked(d)' \in instances,
         Destroying' => Destroying /\ Bottom' = Bottom,
         phase' # "terminated" => (Destroying => Destroying')
  PROVE  EndInv'
<1>1. \A t \in instances : t \in Types /\ t # Main
  BY UsesAssumption DEF EndInv
<1>2. \A t \in instances : t \in ToSet(atExit') <=> t \in ToSet(atExit)
  BY <1>1
<1>3. \A d \in Clients : At(d, "schedule")' =>
          /\ Asked(d)' \in instances' \ ToSet(atExit') /\ made'[Asked(d)'] = <<d>>
          /\ Destroying' => Asked(d)' # Bottom'
  BY <1>2 DEF EndInv
<1>4. phase' # "terminated" => \A t \in instances' :
          \/ t \in ToSet(atExit')
          \/ \E d \in Clients : At(d, "schedule")' /\ Asked(d)' = t
          \/ Destroying' /\ Bottom' = t
  <2> SUFFICES ASSUME phase' # "terminated", NEW t \in instances
               PROVE  \/ t \in ToSet(atExit')
                      \/ \E d \in Clients : At(d, "schedule")' /\ Asked(d)' = t
                      \/ Destroying' /\ Bottom' = t
    OBVIOUS
  <2> QED
    BY <1>2 DEF EndInv
<1>5. /\ Destroying' => Bottom' \in instances' \ ToSet(atExit')
      /\ ToSet(atExit') \subseteq instances' \cup {Main}
  BY <1>2 DEF EndInv
<1> QED
  BY <1>3, <1>4, <1>5 DEF EndInv

LEMMA EndProceeds ==
  ASSUME HolderInv, HolderInv', StackInv, StackInv', EndInv, NEW c \in Clients, Proceeds(c)
  PROVE  EndInv'
<1>1. CASE Constructed(c) \/ Schedule(c) \/ Destructed(c)
  BY <1>1, EndConstructed, EndSchedule, EndDestructed
<1>2. CASE ~Constructed(c) /\ ~Schedule(c) /\ ~Destructed(c)
  <2>1. UNCHANGED <<instances, destroyed, made, atExit>>
    BY <1>2 DEF Proceeds, Test, LockClass, TestAgain, DeadReference, Constructs,
                UnlockClass, Destructs
  <2>2. phase' # "terminated" => phase # "terminated"
    BY <1>2 DEF Proceeds, Test, LockClass, TestAgain, DeadReference, Constructs,
                UnlockClass, Destructs
  <2>3. /\ \A d \in Clients \ {c} : \A pc : At(d, pc)' = At(d, pc) /\ Asked(d)' = Asked(d)
        /\ ~At(c, "schedule") /\ ~At(c, "schedule")'
        /\ At(c, "unlock")' => Asked(c)' \in instances
        /\ Destroying' => Destroying /\ Bottom' = Bottom
        /\ phase' # "terminated" => (Destroying => Destroying')
    BY <1>2, StepEnds
  <2>4. \A d \in Clients : At(d, "unlock")' => Asked(d)' \in instances
    BY <2>3 DEF EndInv
  <2>5. /\ \A d \in Clients : At(d, "schedule")' <=> At(d, "schedule")
        /\ \A d \in Clients : At(d, "schedule")' => Asked(d)' = Asked(d)
    BY <2>3
  <2>6. /\ atExit' \in Seq(Types \cup {Main})
        /\ ToSet(atExit') \cup {Main} = ToSet(atExit) \cup {Main}
        /\ \A i, j \in DOMAIN atExit' : atExit'[i] = atExit'[j] => i = j \/ atExit'[i] = Main
    BY <2>1 DEF EndInv
  <2> QED
    BY <2>1, <2>2, <2>3, <2>4, <2>5, <2>6, EndOthers
<1> QED
  BY <1>1, <1>2

LEMMA EndInductive ==
  ASSUME HolderInv, HolderInv', StackInv, StackInv', EndInv, [HolderNext]_holderVars
  PROVE  EndInv'
<1>1. ASSUME NEW c \in Clients, NEW t \in Types, Instance(c, t) PROVE EndInv'
  <2> DEFINE f == Call(t, "test", <<>>)
  <2>1. /\ calls' = [calls EXCEPT ![c] = <<f>>] /\ calls[c] = <<>> /\ f.pc = "test"
        /\ UNCHANGED <<instances, destroyed, made, atExit, phase>>
    BY <1>1 DEF Instance, Call
  <2> HIDE DEF f
  <2>2. \A d \in Clients : calls'[d] = IF d = c THEN <<f>> ELSE calls[d]
    BY <2>1 DEF HolderInv, HolderTypeOK
  <2>3. <<f>>[1] = f /\ Last(<<f>>) = f /\ <<f>> # <<>>
    BY DEF Last
  <2>4. \A d \in Clients \ {c} : \A pc : At(d, pc)' = At(d, pc) /\ Asked(d)' = Asked(d)
    BY <2>2 DEF At, Asked
  <2>5. /\ ~At(c, "schedule") /\ ~At(c, "schedule")' /\ ~At(c, "unlock")'
    BY <2>1, <2>2, <2>3 DEF At
  <2>6. (Destroying' <=> Destroying) /\ (Destroying' => Bottom' = Bottom)
    <3>1. CASE c = Main
      BY <2>1, <2>2, <2>3, <3>1, UsesAssumption DEF Destroying
    <3>2. CASE c # Main
      BY <2>2, <3>2, UsesAssumption DEF Destroying, Bottom
    <3> QED
      BY <3>1, <3>2
  <2>7. \A d \in Clients : At(d, "unlock")' => Asked(d)' \in instances
    BY <2>4, <2>5 DEF EndInv
  <2>8. /\ \A d \in Clients : At(d, "schedule")' <=> At(d, "schedule")
        /\ \A d \in Clients : At(d, "schedule")' => Asked(d)' = Asked(d)
    BY <2>4, <2>5
  <2>9. /\ atExit' \in Seq(Types \cup {Main})
        /\ ToSet(atExit') \cup {Main} = ToSet(atExit) \cup {Main}
        /\ \A i, j \in DOMAIN atExit' : atExit'[i] = atExit'[j] => i = j \/ atExit'[i] = Main
    BY <2>1 DEF EndInv
  <2> QED
    BY <2>1, <2>6, <2>7, <2>8, <2>9, EndOthers
<1>2. ASSUME atExit' \in Seq(Types \cup {Main}),
             ToSet(atExit') \cup {Main} = ToSet(atExit) \cup {Main},
             \A i, j \in DOMAIN atExit' : atExit'[i] = atExit'[j] => i = j \/ atExit'[i] = Main,
             UNCHANGED <<instances, destroyed, made, calls>>, phase' = phase \/ Exit
      PROVE  EndInv'
  <2>1. /\ \A d \in Clients : At(d, "schedule")' <=> At(d, "schedule")
        /\ \A d \in Clients : At(d, "schedule")' => Asked(d)' = Asked(d)
        /\ \A d \in Clients : At(d, "unlock")' => Asked(d)' \in instances
    BY <1>2 DEF At, Asked, EndInv
  <2>2. (Destroying' <=> Destroying) /\ Bottom' = Bottom
    BY <1>2 DEF Destroying, Bottom
  <2>3. phase' # "terminated" => phase # "terminated"
    BY <1>2 DEF Exit
  <2> QED
    BY <1>2, <2>1, <2>2, <2>3, EndOthers
<1>3. ASSUME NEW n \in Longevities, SetLongevity(n) PROVE EndInv'
  <2>1. /\ atExit' = Append(atExit, Main) /\ atExit \in Seq(Types \cup {Main})
        /\ Main \in Types \cup {Main}
    BY <1>3 DEF SetLongevity, EndInv
  <2>2. /\ ToSet(atExit') = ToSet(atExit) \cup {Main} /\ atExit' \in Seq(Types \cup {Main})
        /\ Len(atExit) \in Nat /\ DOMAIN atExit = 1 .. Len(atExit)
        /\ DOMAIN atExit' = 1 .. Len(atExit) + 1
        /\ \A i \in 1 .. Len(atExit) : atExit'[i] = atExit[i]
        /\ atExit'[Len(atExit) + 1] = Main
    BY <2>1, AppendSet
  <2>3. \A i \in DOMAIN atExit' : i \in DOMAIN atExit \/ i = Len(atExit) + 1
    BY <2>2
  <2>4. \A i, j \in DOMAIN atExit' : atExit'[i] = atExit'[j] => i = j \/ atExit'[i] = Main
    BY <2>2, <2>3 DEF EndInv
  <2> QED
    BY <1>2, <1>3, <2>2, <2>4 DEF SetLongevity
<1>4. CASE AtExitFn
  <2>1. /\ atExit # <<>> /\ atExit' = Front(atExit) /\ Last(atExit) = Main
        /\ atExit \in Seq(Types \cup {Main})
    BY <1>4 DEF AtExitFn, ExitCalls, EndInv
  <2>2. /\ ToSet(atExit) = ToSet(atExit') \cup {Main} /\ atExit' \in Seq(Types \cup {Main})
        /\ \A k \in DOMAIN atExit' : atExit'[k] = atExit[k] /\ k \in DOMAIN atExit
    BY <2>1, FrontSet, FrontOf
  <2>3. \A i, j \in DOMAIN atExit' : atExit'[i] = atExit'[j] => i = j \/ atExit'[i] = Main
    BY <2>2 DEF EndInv
  <2> QED
    BY <1>2, <1>4, <2>2, <2>3 DEF AtExitFn
<1>5. CASE Exit \/ UNCHANGED holderVars
  <2>1. /\ UNCHANGED <<instances, destroyed, made, calls, atExit>>
        /\ phase' = phase \/ Exit
    BY <1>5 DEF Exit, holderVars
  <2> QED
    BY <1>2, <2>1 DEF EndInv
<1> QED
  BY <1>1, <1>3, <1>4, <1>5, EndProceeds, EndDestroys DEF HolderNext

-----------------------------------------------------------------------------
\* There are as many trackers as atexit has been given their function.
OfTrackers == {i \in DOMAIN atExit : atExit[i] = Main}
TrackInv   == Len(trackers) = Cardinality(OfTrackers)

LEMMA TrackInit == HolderInit => TrackInv
<1> SUFFICES ASSUME HolderInit PROVE TrackInv
  OBVIOUS
<1>1. OfTrackers = {} /\ Len(trackers) = 0
  BY EmptySeq DEF HolderInit, OfTrackers
<1> QED
  BY <1>1, FS_EmptySet DEF TrackInv

LEMMA TrackStep ==
  ASSUME TrackInv, SortedInv, EndInv, [HolderNext]_holderVars
  PROVE  TrackInv'
<1>1. /\ atExit \in Seq(Types \cup {Main}) /\ trackers \in Seq(Trackers)
      /\ Len(atExit) \in Nat /\ Len(trackers) \in Nat /\ DOMAIN atExit = 1 .. Len(atExit)
  BY LenProperties DEF SortedInv, EndInv
<1>2. IsFiniteSet(OfTrackers)
  <2>1. OfTrackers \in SUBSET (1 .. Len(atExit)) /\ 1 \in Int /\ Len(atExit) \in Int
    BY <1>1 DEF OfTrackers
  <2>2. IsFiniteSet(1 .. Len(atExit))
    BY <2>1, FS_Interval
  <2> QED
    BY <2>1, <2>2, FS_Subset
<1>3. ASSUME NEW f \in Types \cup {Main}, atExit' = Append(atExit, f),
             Len(trackers') = Len(trackers) + (IF f = Main THEN 1 ELSE 0)
      PROVE  TrackInv'
  <2>1. /\ DOMAIN atExit' = 1 .. Len(atExit) + 1
        /\ \A i \in 1 .. Len(atExit) : atExit'[i] = atExit[i]
        /\ atExit'[Len(atExit) + 1] = f
    BY <1>1, <1>3, AppendSet
  <2>2. OfTrackers' = IF f = Main THEN OfTrackers \cup {Len(atExit) + 1} ELSE OfTrackers
    BY <1>1, <2>1 DEF OfTrackers
  <2>3. Len(atExit) + 1 \notin OfTrackers
    BY <1>1 DEF OfTrackers
  <2>4. CASE f = Main
    <3>1. Cardinality(OfTrackers') = Cardinality(OfTrackers) + 1
      BY <1>2, <2>2, <2>3, <2>4, FS_AddElement
    <3> QED
      BY <1>3, <2>4, <3>1 DEF TrackInv
  <2>5. CASE f # Main
    BY <1>1, <1>3, <2>2, <2>5 DEF TrackInv
  <2> QED
    BY <2>4, <2>5
<1>4. ASSUME NEW f \in Types \cup {Main}, ExitCalls(f),
             f = Main => trackers' = Front(trackers),
             f # Main => trackers' = trackers
      PROVE  TrackInv'
  <2>1. /\ atExit # <<>> /\ atExit' = Front(atExit) /\ Last(atExit) = f
    BY <1>4 DEF ExitCalls
  <2>2. /\ Len(atExit) \in DOMAIN atExit /\ atExit[Len(atExit)] = f
        /\ \A i \in DOMAIN atExit : i # Len(atExit) => i \in DOMAIN atExit'
        /\ \A k \in DOMAIN atExit' : atExit'[k] = atExit[k] /\ k \in DOMAIN atExit /\ k # Len(atExit)
    <3>1. \A k \in DOMAIN atExit' : atExit'[k] = atExit[k] /\ k \in DOMAIN atExit /\ k < Len(atExit)
      BY <1>1, <2>1, FrontOf
    <3>2. /\ Len(atExit) \in DOMAIN atExit /\ atExit[Len(atExit)] = f
          /\ \A i \in DOMAIN atExit : i # Len(atExit) => i \in DOMAIN atExit'
      BY <1>1, <2>1, FrontSet
    <3> QED
      BY <1>1, <3>1, <3>2
  <2>3. CASE f = Main
    <3>1. OfTrackers' = OfTrackers \ {Len(atExit)} /\ Len(atExit) \in OfTrackers
      BY <2>2, <2>3 DEF OfTrackers
    <3>2. Cardinality(OfTrackers') = Cardinality(OfTrackers) - 1
      BY <1>2, <3>1, FS_RemoveElement
    <3>3. trackers # <<>>
      <4>1. Cardinality(OfTrackers) # 0
        BY <1>2, <3>1, FS_EmptySet
      <4> QED
        BY <1>1, <4>1, EmptySeq DEF TrackInv
    <3>4. Len(trackers') = Len(trackers) - 1
      BY <1>1, <1>4, <2>3, <3>3, FrontOf
    <3> QED
      BY <3>2, <3>4 DEF TrackInv
  <2>4. CASE f # Main
    <3>1. OfTrackers' = OfTrackers
      BY <2>2, <2>4 DEF OfTrackers
    <3> QED
      BY <1>4, <2>4, <3>1 DEF TrackInv
  <2> QED
    BY <2>3, <2>4
<1>5. ASSUME NEW n \in Longevities, SetLongevity(n) PROVE TrackInv'
  <2> DEFINE e == [object |-> tracked, longevity |-> n]
  <2>1. e \in Trackers /\ n \in Nat
    BY UsesAssumption DEF Trackers, SortedInv
  <2>2. UpperBound(n) \in 1 .. Len(trackers) + 1
    BY <1>1, <2>1, UpperBoundFound
  <2>3. trackers' = InsertAt(trackers, UpperBound(n), e)
    BY <1>5 DEF SetLongevity
  <2> HIDE DEF e
  <2>4. Len(trackers') = Len(trackers) + 1
    BY <1>1, <2>1, <2>2, <2>3, Inserted
  <2>5. atExit' = Append(atExit, Main)
    BY <1>5 DEF SetLongevity
  <2> QED
    BY <1>3, <2>4, <2>5
<1>6. ASSUME NEW c \in Clients, Schedule(c) PROVE TrackInv'
  <2>1. Asked(c) \in Types /\ Asked(c) # Main
    BY <1>6, UsesAssumption DEF Schedule, EndInv
  <2>2. atExit' = Append(atExit, Asked(c)) /\ trackers' = trackers
    BY <1>6 DEF Schedule
  <2>3. Len(trackers') = Len(trackers) + (IF Asked(c) = Main THEN 1 ELSE 0)
    BY <1>1, <2>1, <2>2
  <2> QED
    BY <1>3, <2>1, <2>2, <2>3
<1>7. CASE AtExitFn
  BY <1>4, <1>7 DEF AtExitFn
<1>8. ASSUME NEW t \in Types, DestroySingleton(t) PROVE TrackInv'
  BY <1>4, <1>8, UsesAssumption DEF DestroySingleton
<1>9. CASE UNCHANGED <<trackers, atExit>>
  BY <1>9 DEF TrackInv, OfTrackers
<1> QED
  BY <1>5, <1>6, <1>7, <1>8, <1>9
     DEF HolderNext, holderVars, Proceeds, Test, LockClass, TestAgain, DeadReference,
         Constructs, Constructed, UnlockClass, Destructs, Destructed, Instance, Exit

\* Every function that atexit has been given finds what it is to destroy; when all
\* have run, no singleton and no tracked object is left.
THEOREM ExitLeavesNone == HolderSpec => []AllDestroyed
<1> DEFINE Inv == HolderInv /\ StackInv /\ SortedInv /\ EndInv /\ TrackInv
<1>1. HolderInit => Inv
  BY HolderInitInv, StackInit, SortedInit, EndInit, TrackInit
<1>2. Inv /\ [HolderNext]_holderVars => Inv'
  <2> SUFFICES ASSUME Inv, [HolderNext]_holderVars PROVE Inv'
    OBVIOUS
  <2>1. HolderInv' /\ SortedInv' /\ TrackInv'
    BY HolderInductive, SortedStep, TrackStep
  <2>2. StackInv'
    BY <2>1, StackInductive
  <2>3. EndInv'
    BY <2>1, <2>2, EndInductive
  <2> QED
    BY <2>1, <2>2, <2>3
<1>3. Inv => AllDestroyed
  <2> SUFFICES ASSUME Inv PROVE AllDestroyed
    OBVIOUS
  <2>1. \A i \in DOMAIN atExit : atExit[i] \notin destroyed
    BY UsesAssumption DEF EndInv, ToSet
  <2>2. Len(trackers) = Cardinality({i \in DOMAIN atExit : atExit[i] = Main})
    BY DEF TrackInv, OfTrackers
  <2>3. ASSUME Ended PROVE instances = {}
    <3>1. /\ phase = "exit" /\ calls[Main] = <<>> /\ ToSet(atExit) = {}
      BY <2>3, EmptySeq DEF Ended, ToSet
    <3>2. \A c \in Clients : calls[c] = <<>>
      BY <3>1 DEF StackInv
    <3> QED
      BY <3>1, <3>2 DEF EndInv, At, Destroying
  <2> QED
    BY <2>1, <2>2, <2>3 DEF AllDestroyed
<1> QED
  BY <1>1, <1>2, <1>3, PTL DEF HolderSpec

(***************************************************************************)
(* What a constructor has asked for lives as long as its object, if no      *)
(* destructor asks, itself or through the constructors it causes to run, for *)
(* what uses its own.                                                       *)
(***************************************************************************)
Rank == CHOOSE rank : /\ rank \in [Types -> 1 .. Cardinality(Types)]
                      /\ \A t \in Types :
                            /\ \A i \in DOMAIN Uses[t] : rank[Uses[t][i]] < rank[t]
                            /\ \A i \in DOMAIN UsesAtEnd[t] : rank[UsesAtEnd[t][i]] < rank[t]

LEMMA RankIs ==
  ASSUME RankedAtEnd
  PROVE  /\ \A t \in Types : Rank[t] \in Int
         /\ \A t \in Types : /\ \A u \in ToSet(Uses[t]) : u \in Types /\ Rank[u] < Rank[t]
                             /\ \A u \in ToSet(UsesAtEnd[t]) : u \in Types /\ Rank[u] < Rank[t]
<1>1. /\ Rank \in [Types -> 1 .. Cardinality(Types)]
      /\ \A t \in Types :
            /\ \A i \in DOMAIN Uses[t] : Rank[Uses[t][i]] < Rank[t]
            /\ \A i \in DOMAIN UsesAtEnd[t] : Rank[UsesAtEnd[t][i]] < Rank[t]
  BY DEF RankedAtEnd, Rank
<1>2. \A x \in 1 .. Cardinality(Types) : x \in Int
  OBVIOUS
<1>3. ASSUME NEW s \in Seq(Types), NEW u \in ToSet(s) PROVE u \in Types
  BY <1>3, ElementOfSeq, LenProperties DEF ToSet
<1>4. \A t \in Types : Uses[t] \in Seq(Types) /\ UsesAtEnd[t] \in Seq(Types)
  BY UsesAssumption
<1> QED
  BY <1>1, <1>2, <1>3, <1>4 DEF ToSet

\* A call asks for less than its own class, so that those above the lowest are for
\* less than it.
RankInv == \A c \in Clients : \A k \in DOMAIN calls[c] :
              /\ \A u \in ToSet(calls[c][k].todo) : Rank[u] < Rank[calls[c][k].type]
              /\ k > 1 => Rank[calls[c][k].type] < Rank[calls[c][1].type]

LEMMA TailSet ==
  ASSUME NEW S, NEW s \in Seq(S), s # <<>>
  PROVE  /\ ToSet(s) = {Head(s)} \cup ToSet(Tail(s))
         /\ Tail(s) \in Seq(S) /\ Head(s) \in S
<1>1. /\ Tail(s) \in Seq(S) /\ Head(s) \in S /\ Head(s) = s[1]
      /\ Len(Tail(s)) = Len(s) - 1 /\ \A i \in 1 .. Len(Tail(s)) : Tail(s)[i] = s[i + 1]
  BY HeadTailProperties
<1>2. PICK r \in Seq(S) : r = Tail(s)
  BY <1>1
<1>3. PICK n \in Nat \ {0} : n = Len(s)
  BY EmptySeq
<1>4. /\ DOMAIN r = 1 .. n - 1 /\ DOMAIN s = 1 .. n
      /\ \A i \in 1 .. n - 1 : r[i] = s[i + 1]
  BY <1>1, <1>2, <1>3, LenProperties
<1>5. \A i \in DOMAIN s : i = 1 \/ (i - 1 \in DOMAIN r /\ r[i - 1] = s[i])
  BY <1>4
<1>6. \A i \in DOMAIN r : i + 1 \in DOMAIN s /\ s[i + 1] = r[i]
  BY <1>4
<1>7. 1 \in DOMAIN s
  BY <1>4
<1>8. ToSet(s) = {s[1]} \cup ToSet(r)
  BY <1>5, <1>6, <1>7 DEF ToSet
<1> QED
  BY <1>1, <1>2, <1>8

LEMMA NothingIn == ToSet(<<>>) = {}
BY DEF ToSet

LEMMA RankInit == HolderInit => RankInv
BY DEF HolderInit, RankInv

LEMMA RankProceeds ==
  ASSUME RankedAtEnd, HolderInv, HolderInv', RankInv, NEW c \in Clients, Proceeds(c)
  PROVE  RankInv'
<1>1. /\ HolderTypeOK
      /\ calls[c] \in Seq(Frames) /\ calls'[c] \in Seq(Frames)
  BY DEF HolderInv, HolderTypeOK
<1>2. calls[c] # <<>> /\ Others(c) /\ Shape(c)
  BY <1>1, StepShape
<1>3. PICK n \in Nat : n = Len(calls[c]) /\ n > 0 /\ (n = 1 \/ n > 1)
  BY <1>1, <1>2, StackParts
<1>4. /\ DOMAIN calls[c] = 1 .. n /\ DOMAIN calls'[c] = 1 .. Len(calls'[c])
      /\ Last(calls[c]) = calls[c][n] /\ calls[c][n] \in Frames
      /\ \A k \in DOMAIN calls[c] : calls[c][k].type \in Types
      /\ calls'[c] = <<>> <=> Len(calls'[c]) = 0
      /\ Len(calls'[c]) \in Nat
  BY <1>1, <1>3, StackParts
<1>5. PICK top \in Frames : top = calls[c][n] /\ top.type \in Types /\ top.todo \in Seq(Types)
  BY <1>4 DEF Frames
<1>6. /\ \A u \in ToSet(top.todo) : Rank[u] < Rank[top.type]
      /\ n > 1 => Rank[top.type] < Rank[calls[c][1].type]
      /\ n = 1 => calls[c][1] = top
  BY <1>3, <1>4, <1>5 DEF RankInv
<1> DEFINE Below == \A k \in DOMAIN calls'[c] :
              /\ \A u \in ToSet(calls'[c][k].todo) : Rank[u] < Rank[calls'[c][k].type]
              /\ k > 1 => Rank[calls'[c][k].type] < Rank[calls'[c][1].type]
<1>7. ASSUME NEW f \in Frames, Replaced(c, f), f.type = top.type,
             \A u \in ToSet(f.todo) : Rank[u] < Rank[f.type]
      PROVE  Below
  <2>1. /\ Len(calls'[c]) = n /\ calls'[c][n] = f
        /\ \A k \in 1 .. n - 1 : calls'[c][k] = calls[c][k]
    BY <1>3, <1>7 DEF Replaced
  <2>2. calls'[c][1].type = calls[c][1].type
    BY <1>3, <1>5, <1>7, <2>1
  <2>3. ASSUME NEW k \in 1 .. n
        PROVE  /\ \A u \in ToSet(calls'[c][k].todo) : Rank[u] < Rank[calls'[c][k].type]
               /\ k > 1 => Rank[calls'[c][k].type] < Rank[calls'[c][1].type]
    <3>1. CASE k = n
      BY <1>3, <1>6, <1>7, <2>1, <2>2, <3>1
    <3>2. CASE k # n
      <4>1. k \in 1 .. n - 1
        BY <3>2
      <4> QED
        BY <1>4, <2>1, <2>2, <4>1 DEF RankInv
    <3> QED
      BY <3>1, <3>2
  <2> QED
    BY <1>4, <2>1, <2>3
<1>8. ASSUME Popped(c) PROVE Below
  <2>1. Len(calls'[c]) = n - 1 /\ \A k \in 1 .. n - 1 : calls'[c][k] = calls[c][k]
    BY <1>3, <1>8 DEF Popped
  <2>2. ASSUME NEW k \in 1 .. n - 1
        PROVE  /\ calls'[c][k] = calls[c][k] /\ calls'[c][1] = calls[c][1]
               /\ k \in DOMAIN calls[c]
    BY <1>3, <1>4, <2>1
  <2> QED
    BY <1>4, <2>1, <2>2 DEF RankInv
<1>9. ASSUME top.todo # <<>>,
             Asks(c, [Last(calls[c]) EXCEPT !.todo = Tail(@)],
                     Call(Head(Last(calls[c]).todo), "test", <<>>))
      PROVE  Below
  <2>1. /\ ToSet(top.todo) = {Head(top.todo)} \cup ToSet(Tail(top.todo))
        /\ Head(top.todo) \in Types /\ Tail(top.todo) \in Seq(Types)
    BY <1>5, <1>9, TailSet
  <2>2. PICK f, g : /\ Asks(c, f, g) /\ f.type = top.type /\ f.todo = Tail(top.todo)
                    /\ g.type = Head(top.todo) /\ g.todo = <<>>
    <3> DEFINE f == [top EXCEPT !.todo = Tail(@)]
               g == Call(Head(top.todo), "test", <<>>)
    <3>1. Last(calls[c]) = top
      BY <1>4, <1>5
    <3>2. Asks(c, f, g)
      BY <1>9, <3>1
    <3>3. f.type = top.type /\ f.todo = Tail(top.todo)
      BY DEF Frames
    <3>4. g.type = Head(top.todo) /\ g.todo = <<>>
      BY DEF Call
    <3> QED
      BY <3>2, <3>3, <3>4
  <2>3. /\ Len(calls'[c]) = n + 1 /\ calls'[c][n] = f /\ calls'[c][n + 1] = g
        /\ \A k \in 1 .. n - 1 : calls'[c][k] = calls[c][k]
    BY <1>3, <2>2 DEF Asks
  <2>4. calls'[c][1].type = calls[c][1].type /\ calls[c][1].type \in Types
    BY <1>3, <1>4, <1>5, <2>2, <2>3
  <2>5. Rank[Head(top.todo)] < Rank[top.type]
    BY <1>6, <2>1
  <2>6. Rank[Head(top.todo)] < Rank[calls[c][1].type]
    <3>1. /\ Rank[Head(top.todo)] \in Int /\ Rank[top.type] \in Int
          /\ Rank[calls[c][1].type] \in Int
      BY <1>5, <2>1, <2>4, RankIs
    <3>2. CASE n = 1
      BY <1>6, <2>5, <3>2
    <3>3. CASE n > 1
      <4>1. \A x, y, z \in Int : x < y /\ y < z => x < z
        OBVIOUS
      <4> QED
        BY <1>6, <2>5, <3>1, <3>3, <4>1
    <3> QED
      BY <1>3, <3>2, <3>3
  <2>7. ASSUME NEW k \in 1 .. n + 1
        PROVE  /\ \A u \in ToSet(calls'[c][k].todo) : Rank[u] < Rank[calls'[c][k].type]
               /\ k > 1 => Rank[calls'[c][k].type] < Rank[calls'[c][1].type]
    <3>1. CASE k = n + 1
      BY <2>2, <2>3, <2>4, <2>6, <3>1, NothingIn
    <3>2. CASE k = n
      BY <1>3, <1>6, <2>1, <2>2, <2>3, <2>4, <3>2
    <3>3. CASE k # n /\ k # n + 1
      <4>1. k \in 1 .. n - 1
        BY <3>3
      <4> QED
        BY <1>4, <2>3, <2>4, <4>1 DEF RankInv
    <3> QED
      BY <3>1, <3>2, <3>3
  <2> QED
    BY <1>4, <2>3, <2>7
<1>10. Below
  <2> HIDE DEF Below
  <2>1. ASSUME NEW from, NEW to \in Steps, Goes(c, from, to) PROVE Below
    <3> DEFINE f == [top EXCEPT !.pc = to]
    <3>1. f \in Frames /\ f.type = top.type /\ f.todo = top.todo
      BY DEF Frames
    <3>2. Replaced(c, f)
      BY <1>4, <1>5, <2>1 DEF Goes
    <3> HIDE DEF f
    <3> QED
      BY <1>6, <1>7, <3>1, <3>2
  <2>2. CASE Replaced(c, Call(Asked(c), "create", Uses[Asked(c)]))
    <3> DEFINE f == Call(Asked(c), "create", Uses[Asked(c)])
    <3>1. Asked(c) = top.type
      BY <1>4, <1>5 DEF Asked
    <3>2. f \in Frames /\ f.type = top.type /\ f.todo = Uses[top.type]
      BY <1>5, <3>1, UsesAssumption DEF Call, Frames, Steps
    <3>3. \A u \in ToSet(Uses[top.type]) : Rank[u] < Rank[top.type]
      BY <1>5, RankIs
    <3> HIDE DEF f
    <3> QED
      BY <1>7, <2>2, <3>2, <3>3 DEF f
  <2>3. CASE calls'[c] = <<>>
    BY <2>3 DEF Below
  <2>4. {"test", "lock", "again", "create", "schedule", "unlock"} \subseteq Steps
    BY DEF Steps
  <2> QED
    BY <1>2, <1>4, <1>5, <1>8, <1>9, <2>1, <2>2, <2>3, <2>4 DEF Shape
<1> QED
  BY <1>2, <1>10 DEF RankInv, Others

LEMMA RankInductive ==
  ASSUME RankedAtEnd, HolderInv, HolderInv', RankInv, [HolderNext]_holderVars
  PROVE  RankInv'
<1>1. ASSUME NEW c \in Clients, NEW f, calls' = [calls EXCEPT ![c] = <<f>>],
             \A u \in ToSet(f.todo) : Rank[u] < Rank[f.type]
      PROVE  RankInv'
  <2>1. \A d \in Clients : calls'[d] = IF d = c THEN <<f>> ELSE calls[d]
    BY <1>1 DEF HolderInv, HolderTypeOK
  <2>2. DOMAIN <<f>> = {1} /\ <<f>>[1] = f
    OBVIOUS
  <2> QED
    BY <1>1, <2>1, <2>2 DEF RankInv
<1>2. ASSUME NEW c \in Clients, NEW t \in Types, Instance(c, t) PROVE RankInv'
  <2> DEFINE f == Call(t, "test", <<>>)
  <2>1. calls' = [calls EXCEPT ![c] = <<f>>] /\ f.todo = <<>>
    BY <1>2 DEF Instance, Call
  <2> HIDE DEF f
  <2> QED
    BY <1>1, <2>1, NothingIn
<1>3. ASSUME NEW t \in Types, DestroySingleton(t) PROVE RankInv'
  <2> DEFINE f == Call(t, "destroy", UsesAtEnd[t])
  <2>1. calls' = [calls EXCEPT ![Main] = <<f>>] /\ f.todo = UsesAtEnd[t] /\ f.type = t
    BY <1>3 DEF DestroySingleton, Call
  <2> HIDE DEF f
  <2>2. \A u \in ToSet(UsesAtEnd[t]) : Rank[u] < Rank[t]
    BY RankIs
  <2> QED
    BY <1>1, <2>1, <2>2, UsesAssumption
<1>4. CASE UNCHANGED calls
  BY <1>4 DEF RankInv
<1> QED
  BY <1>2, <1>3, <1>4, RankProceeds DEF HolderNext, SetLongevity, Exit, AtExitFn, holderVars

\* What a constructor under way needs is still to be asked for, is being asked for,
\* or is there.
AskedInv == \A c \in Clients : \A k \in DOMAIN calls[c] :
               calls[c][k].pc = "create" => \A u \in ToSet(Uses[calls[c][k].type]) :
                  \/ u \in ToSet(calls[c][k].todo)
                  \/ k + 1 \in DOMAIN calls[c] /\ calls[c][k + 1].type = u
                  \/ u \in instances

LEMMA AskedInit == HolderInit => AskedInv
BY DEF HolderInit, AskedInv

LEMMA AskedProceeds ==
  ASSUME HolderInv, HolderInv', StackInv, EndInv, AskedInv, NEW c \in Clients, Proceeds(c)
  PROVE  AskedInv'
<1>1. /\ HolderTypeOK
      /\ calls[c] \in Seq(Frames) /\ calls'[c] \in Seq(Frames)
  BY DEF HolderInv, HolderTypeOK
<1>2. calls[c] # <<>> /\ Others(c) /\ Shape(c)
  BY <1>1, StepShape
<1>3. PICK n \in Nat : n = Len(calls[c]) /\ n > 0 /\ (n = 1 \/ n > 1)
  BY <1>1, <1>2, StackParts
<1>4. /\ DOMAIN calls[c] = 1 .. n /\ DOMAIN calls'[c] = 1 .. Len(calls'[c])
      /\ Last(calls[c]) = calls[c][n] /\ calls[c][n] \in Frames
      /\ calls'[c] = <<>> <=> Len(calls'[c]) = 0
      /\ Len(calls'[c]) \in Nat
  BY <1>1, <1>3, StackParts
<1>5. PICK top \in Frames : /\ top = calls[c][n] /\ top.type \in Types
                            /\ top.todo \in Seq(Types) /\ top.type = Asked(c)
  BY <1>4 DEF Frames, Asked
<1> DEFINE Good(k) == calls'[c][k].pc = "create" => \A u \in ToSet(Uses[calls'[c][k].type]) :
                         \/ u \in ToSet(calls'[c][k].todo)
                         \/ k + 1 \in DOMAIN calls'[c] /\ calls'[c][k + 1].type = u
                         \/ u \in instances'
<1>6. CASE Destructed(c)
  <2>1. top.pc = "destroy"
    BY <1>4, <1>5, <1>6 DEF Destructed, At
  <2>2. n = 1 /\ c = Main /\ phase = "exit"
    BY <1>3, <1>4, <1>5, <2>1 DEF StackInv
  <2>3. calls'[c] = <<>>
    <3>1. Popped(c)
      BY <1>1, <1>2, <1>6, PoppedIs DEF Destructed
    <3> QED
      BY <1>3, <1>4, <2>2, <3>1 DEF Popped
  <2>4. \A d \in Clients : calls'[d] = <<>>
    BY <1>2, <2>2, <2>3 DEF StackInv, Others
  <2> QED
    BY <2>4 DEF AskedInv
<1>7. CASE ~Destructed(c)
  <2>1. instances \subseteq instances'
    BY <1>7 DEF Proceeds, Test, LockClass, TestAgain, DeadReference, Constructs, Constructed,
                Schedule, UnlockClass, Destructs
  <2>2. ASSUME NEW k \in 1 .. n - 1, calls'[c][k] = calls[c][k],
               k + 1 \in DOMAIN calls'[c], calls'[c][k + 1].type = calls[c][k + 1].type
        PROVE  Good(k)
    <3>1. k \in DOMAIN calls[c]
      BY <1>4
    <3> QED
      BY <2>1, <2>2, <3>1 DEF AskedInv
  <2>3. ASSUME NEW f \in Frames, Replaced(c, f), f.type = top.type,
               f.pc = "create" => f.todo = Uses[f.type],
               NEW k \in DOMAIN calls'[c]
        PROVE  Good(k)
    <3>1. /\ Len(calls'[c]) = n /\ calls'[c][n] = f
          /\ \A l \in 1 .. n - 1 : calls'[c][l] = calls[c][l]
      BY <1>3, <2>3 DEF Replaced
    <3>2. CASE k = n
      BY <2>3, <3>1, <3>2
    <3>3. CASE k # n
      <4>1. k \in 1 .. n - 1 /\ k + 1 \in DOMAIN calls'[c] /\ (k + 1 = n \/ k + 1 \in 1 .. n - 1)
        BY <1>4, <3>1, <3>3
      <4>2. calls'[c][k + 1].type = calls[c][k + 1].type
        BY <1>5, <2>3, <3>1, <4>1
      <4> QED
        BY <2>2, <3>1, <4>1, <4>2
    <3> QED
      BY <3>2, <3>3
  <2>4. ASSUME Popped(c), top.type \in instances, NEW k \in DOMAIN calls'[c]
        PROVE  Good(k)
    <3>1. Len(calls'[c]) = n - 1 /\ \A l \in 1 .. n - 1 : calls'[c][l] = calls[c][l]
      BY <1>3, <2>4 DEF Popped
    <3>2. k \in 1 .. n - 1 /\ k \in DOMAIN calls[c] /\ calls'[c][k] = calls[c][k]
      BY <1>4, <3>1
    <3>3. CASE k + 1 = n
      <4>1. calls[c][k + 1].type \in instances
        BY <1>5, <2>4, <3>3
      <4> QED
        BY <2>1, <3>2, <4>1 DEF AskedInv
    <3>4. CASE k + 1 # n
      <4>1. k + 1 \in 1 .. n - 1 /\ k + 1 \in DOMAIN calls'[c]
        BY <1>4, <3>1, <3>2, <3>4
      <4> QED
        BY <2>2, <3>1, <3>2, <4>1
    <3> QED
      BY <3>3, <3>4
  <2>5. ASSUME top.todo # <<>>,
               Asks(c, [Last(calls[c]) EXCEPT !.todo = Tail(@)],
                       Call(Head(Last(calls[c]).todo), "test", <<>>)),
               NEW k \in DOMAIN calls'[c]
        PROVE  Good(k)
    <3>1. ToSet(top.todo) = {Head(top.todo)} \cup ToSet(Tail(top.todo))
      BY <1>5, <2>5, TailSet
    <3>2. PICK f, g : /\ Asks(c, f, g) /\ f.type = top.type /\ f.todo = Tail(top.todo)
                      /\ f.pc = top.pc /\ g.type = Head(top.todo) /\ g.pc = "test"
      <4> DEFINE f == [top EXCEPT !.todo = Tail(@)]
                 g == Call(Head(top.todo), "test", <<>>)
      <4>1. Last(calls[c]) = top
        BY <1>4, <1>5
      <4>2. Asks(c, f, g)
        BY <2>5, <4>1
      <4>3. f.type = top.type /\ f.todo = Tail(top.todo) /\ f.pc = top.pc
        BY DEF Frames
      <4>4. g.type = Head(top.todo) /\ g.pc = "test"
        BY DEF Call
      <4> QED
        BY <4>2, <4>3, <4>4
    <3>3. /\ Len(calls'[c]) = n + 1 /\ calls'[c][n] = f /\ calls'[c][n + 1] = g
          /\ \A l \in 1 .. n - 1 : calls'[c][l] = calls[c][l]
      BY <1>3, <3>2 DEF Asks
    <3>4. CASE k = n + 1
      BY <3>2, <3>3, <3>4
    <3>5. CASE k = n
      <4>1. k + 1 \in DOMAIN calls'[c] /\ n \in DOMAIN calls[c] /\ n + 1 \notin DOMAIN calls[c]
        BY <1>3, <1>4, <3>3, <3>5
      <4>2. top.pc = "create" => \A u \in ToSet(Uses[top.type]) :
                                    u \in ToSet(top.todo) \/ u \in instances
        BY <1>5, <4>1 DEF AskedInv
      <4> QED
        BY <2>1, <3>1, <3>2, <3>3, <3>5, <4>1, <4>2
    <3>6. CASE k # n /\ k # n + 1
      <4>1. k \in 1 .. n - 1 /\ k + 1 \in DOMAIN calls'[c] /\ (k + 1 = n \/ k + 1 \in 1 .. n - 1)
        <5>1. DOMAIN calls'[c] = 1 .. n + 1
          BY <1>4, <3>3
        <5> QED
          BY <3>6, <5>1
      <4>2. calls'[c][k + 1].type = calls[c][k + 1].type
        BY <1>5, <3>2, <3>3, <4>1
      <4> QED
        BY <2>2, <3>3, <4>1, <4>2
    <3> QED
      BY <3>4, <3>5, <3>6
  <2>6. ASSUME NEW k \in DOMAIN calls'[c] PROVE Good(k)
    <3> HIDE DEF Good
    <3>1. ASSUME NEW from, NEW to \in Steps \ {"create"}, Goes(c, from, to) PROVE Good(k)
      <4> DEFINE f == [top EXCEPT !.pc = to]
      <4>1. f \in Frames /\ f.type = top.type /\ f.pc = to
        BY DEF Frames
      <4>2. Replaced(c, f)
        BY <1>4, <1>5, <3>1 DEF Goes
      <4> HIDE DEF f
      <4> QED
        BY <2>3, <3>1, <4>1, <4>2
    <3>2. CASE Replaced(c, Call(Asked(c), "create", Uses[Asked(c)]))
      <4> DEFINE f == Call(Asked(c), "create", Uses[Asked(c)])
      <4>1. f \in Frames /\ f.type = top.type /\ f.todo = Uses[f.type]
        BY <1>5, UsesAssumption DEF Call, Frames, Steps
      <4> HIDE DEF f
      <4> QED
        BY <2>3, <3>2, <4>1 DEF f
    <3>3. CASE calls'[c] = <<>>
      BY <1>4, <3>3
    <3>4. {"test", "lock", "again", "schedule", "unlock"} \subseteq Steps \ {"create"}
      BY DEF Steps
    <3>5. CASE Popped(c) /\ \/ Last(calls[c]).pc = "test" /\ Test(c) /\ Asked(c) \in instances
                            \/ Last(calls[c]).pc = "unlock" /\ UnlockClass(c)
      <4>1. Asked(c) \in instances
        BY <1>2, <3>5 DEF EndInv, At
      <4> QED
        BY <1>5, <2>4, <3>5, <4>1
    <3> QED
      BY <1>2, <1>4, <1>5, <1>7, <2>5, <3>1, <3>2, <3>3, <3>4, <3>5 DEF Shape
  <2>7. ASSUME NEW d \in Clients, d # c, NEW k \in DOMAIN calls'[d], calls'[d][k].pc = "create",
               NEW u \in ToSet(Uses[calls'[d][k].type])
        PROVE  \/ u \in ToSet(calls'[d][k].todo)
               \/ k + 1 \in DOMAIN calls'[d] /\ calls'[d][k + 1].type = u
               \/ u \in instances'
    <3>1. calls'[d] = calls[d]
      BY <1>2, <2>7 DEF Others
    <3> QED
      BY <2>1, <2>7, <3>1 DEF AskedInv
  <2> QED
    BY <2>6, <2>7 DEF AskedInv
<1> QED
  BY <1>6, <1>7

LEMMA AskedInductive ==
  ASSUME HolderInv, HolderInv', StackInv, EndInv, AskedInv, [HolderNext]_holderVars
  PROVE  AskedInv'
<1>1. ASSUME NEW c \in Clients, NEW f, calls' = [calls EXCEPT ![c] = <<f>>],
             f.pc # "create", instances' = instances
      PROVE  AskedInv'
  <2>1. \A d \in Clients : calls'[d] = IF d = c THEN <<f>> ELSE calls[d]
    BY <1>1 DEF HolderInv, HolderTypeOK
  <2>2. DOMAIN <<f>> = {1} /\ <<f>>[1] = f
    OBVIOUS
  <2> QED
    BY <1>1, <2>1, <2>2 DEF AskedInv
<1>2. ASSUME NEW c \in Clients, NEW t \in Types, Instance(c, t) PROVE AskedInv'
  <2> DEFINE f == Call(t, "test", <<>>)
  <2>1. calls' = [calls EXCEPT ![c] = <<f>>] /\ f.pc # "create" /\ instances' = instances
    BY <1>2 DEF Instance, Call
  <2> HIDE DEF f
  <2> QED
    BY <1>1, <2>1
<1>3. ASSUME NEW t \in Types, DestroySingleton(t) PROVE AskedInv'
  <2> DEFINE f == Call(t, "destroy", UsesAtEnd[t])
  <2>1. calls' = [calls EXCEPT ![Main] = <<f>>] /\ f.pc # "create" /\ instances' = instances
    BY <1>3 DEF DestroySingleton, Call
  <2> HIDE DEF f
  <2> QED
    BY <1>1, <2>1, UsesAssumption
<1>4. CASE UNCHANGED <<calls, instances>>
  BY <1>4 DEF AskedInv
<1> QED
  BY <1>2, <1>3, <1>4, AskedProceeds DEF HolderNext, SetLongevity, Exit, AtExitFn, holderVars

\* What an object was built with by the same thread was scheduled before it.
Earlier(u, t) == \E j \in DOMAIN atExit :
                    /\ atExit[j] = u
                    /\ \A i \in DOMAIN atExit : atExit[i] = t => j < i
OrderInv == \A t \in instances : \A u \in ToSet(Uses[t]) :
               /\ made[u] # <<>>
               /\ made[u] = made[t] => Earlier(u, t)

LEMMA OrderInit == HolderInit => OrderInv
BY DEF HolderInit, OrderInv

\* All that the constructor has asked for is scheduled, if this thread has made it:
\* nothing is destroyed meanwhile but what is of a higher rank.
LEMMA OrderConstructed ==
  ASSUME RankedAtEnd, HolderInv, StackInv, EndInv, RankInv, AskedInv, OrderInv,
         NEW c \in Clients, Constructed(c)
  PROVE  OrderInv'
<1>1. PICK t \in Types : t = Asked(c) /\ made[t] = <<>> /\ calls[c] # <<>>
  BY TopParts DEF Constructed, At
<1>2. /\ instances' = instances \cup {t} /\ atExit' = atExit
      /\ \A u \in Types : made'[u] = IF u = t THEN <<c>> ELSE made[u]
  <2>1. Append(<<>>, c) = <<c>>
    OBVIOUS
  <2> QED
    BY <1>1, <2>1 DEF Constructed, HolderInv, HolderTypeOK
<1>3. t \notin instances /\ instances \subseteq Types
  BY <1>1 DEF EndInv
<1>4. \A u \in ToSet(Uses[t]) : /\ u \in Types /\ u \in instances /\ u # t
                                /\ phase = "exit" /\ Destroying => u # Bottom
  <2> SUFFICES ASSUME NEW u \in ToSet(Uses[t])
               PROVE  /\ u \in Types /\ u \in instances /\ u # t
                      /\ phase = "exit" /\ Destroying => u # Bottom
    OBVIOUS
  <2>1. calls[c] \in Seq(Frames)
    BY DEF HolderInv, HolderTypeOK
  <2>2. PICK n \in Nat : n = Len(calls[c]) /\ n > 0 /\ (n = 1 \/ n > 1)
    BY <1>1, <2>1, StackParts
  <2>3. /\ DOMAIN calls[c] = 1 .. n /\ n \in DOMAIN calls[c] /\ 1 \in DOMAIN calls[c]
        /\ n + 1 \notin DOMAIN calls[c]
        /\ calls[c][n].pc = "create" /\ calls[c][n].todo = <<>> /\ calls[c][n].type = t
        /\ calls[c][1].type \in Types
    BY <1>1, <2>1, <2>2, StackParts DEF Constructed, At, Asked
  <2>4. u \in Types /\ Rank[u] < Rank[t]
    BY RankIs
  <2>5. u \in instances
    BY <2>3, NothingIn DEF AskedInv
  <2>6. ASSUME phase = "exit", Destroying PROVE u # Bottom
    <3>1. c = Main
      BY <1>1, <2>6 DEF StackInv
    <3>2. calls[c][1].pc = "destroy" /\ Bottom = calls[c][1].type
      BY <2>6, <3>1 DEF Destroying, Bottom
    <3>3. n > 1
      BY <2>2, <2>3, <3>2
    <3>4. Rank[t] < Rank[Bottom]
      BY <2>3, <3>2, <3>3 DEF RankInv
    <3>5. Rank[u] \in Int /\ Rank[t] \in Int
      BY <2>4, RankIs
    <3> QED
      BY <2>4, <3>4, <3>5
  <2> QED
    BY <1>3, <2>4, <2>5, <2>6
<1>5. ASSUME NEW u \in ToSet(Uses[t]), made'[u] = made'[t] PROVE Earlier(u, t)'
  <2>1. made[u] = <<c>>
    BY <1>1, <1>2, <1>4, <1>5
  <2>2. phase # "terminated"
    BY <1>1 DEF StackInv
  <2>3. ASSUME NEW d \in Clients, At(d, "schedule"), Asked(d) = u PROVE FALSE
    <3>1. <<d>> = <<c>>
      BY <2>1, <2>3 DEF EndInv
    <3>2. d = c
      BY <3>1
    <3> QED
      BY <2>3, <3>2 DEF Constructed, At
  <2>4. Destroying => phase = "exit"
    BY DestroyingAtExit
  <2>5. u \in ToSet(atExit)
    <3>1. u \in instances /\ (Destroying => u # Bottom)
      BY <1>4, <2>4
    <3>2. \A d \in Clients : ~(At(d, "schedule") /\ Asked(d) = u)
      BY <2>3
    <3> QED
      BY <2>2, <3>1, <3>2 DEF EndInv
  <2>6. \A i \in DOMAIN atExit : atExit[i] # t
    <3>1. t \notin ToSet(atExit)
      BY <1>3, UsesAssumption DEF EndInv
    <3> QED
      BY <3>1 DEF ToSet
  <2> QED
    BY <1>2, <2>5, <2>6 DEF Earlier, ToSet
<1>6. ASSUME NEW x \in instances, NEW u \in ToSet(Uses[x])
      PROVE  /\ made'[u] # <<>>
             /\ made'[u] = made'[x] => Earlier(u, x)'
  <2>1. u \in Types /\ x \in Types /\ x # t
    BY <1>3, RankIs
  <2>2. made[u] # <<>> /\ u # t
    BY <1>1, <1>6 DEF OrderInv
  <2> QED
    BY <1>2, <2>1, <2>2 DEF OrderInv, Earlier
<1>7. \A u \in ToSet(Uses[t]) : made'[u] # <<>>
  BY <1>2, <1>4 DEF EndInv
<1> QED
  BY <1>2, <1>5, <1>6, <1>7 DEF OrderInv

\* atexit is given one more function, which is not yet there.
LEMMA OrderAppend ==
  ASSUME EndInv, OrderInv, NEW f \in Types \cup {Main}, atExit' = Append(atExit, f),
         UNCHANGED <<instances, made>>
  PROVE  OrderInv'
<1>1. PICK n \in Nat : n = Len(atExit) /\ DOMAIN atExit = 1 .. n
  BY LenProperties DEF EndInv
<1>2. /\ DOMAIN atExit' = 1 .. n + 1
      /\ \A i \in 1 .. n : atExit'[i] = atExit[i]
  BY <1>1, AppendSet DEF EndInv
<1>3. ASSUME NEW t, NEW u, Earlier(u, t) PROVE Earlier(u, t)'
  <2>1. PICK j \in 1 .. n : /\ atExit[j] = u
                            /\ \A i \in 1 .. n : atExit[i] = t => j < i
    BY <1>1, <1>3 DEF Earlier
  <2>2. j \in DOMAIN atExit' /\ atExit'[j] = u
    BY <1>2, <2>1
  <2>3. ASSUME NEW i \in DOMAIN atExit', atExit'[i] = t PROVE j < i
    <3>1. CASE i = n + 1
      BY <3>1
    <3>2. CASE i # n + 1
      BY <1>2, <2>1, <2>3, <3>2
    <3> QED
      BY <3>1, <3>2
  <2> QED
    BY <2>2, <2>3 DEF Earlier
<1> QED
  BY <1>3 DEF OrderInv

\* Exit takes the last function; the object of t, if it was scheduled, has gone
\* before what it was built with.
LEMMA OrderFront ==
  ASSUME StackInv, EndInv, OrderInv, NEW f \in Types \cup {Main}, ExitCalls(f),
         UNCHANGED <<instances, made>>
  PROVE  OrderInv'
<1>1. /\ atExit # <<>> /\ atExit' = Front(atExit) /\ Last(atExit) = f
      /\ phase = "exit" /\ \A d \in Clients : calls[d] = <<>>
      /\ atExit \in Seq(Types \cup {Main})
  BY DEF ExitCalls, EndInv, StackInv
<1>2. PICK n \in Nat : n = Len(atExit) /\ DOMAIN atExit = 1 .. n
  BY <1>1, LenProperties
<1>3. /\ \A i \in DOMAIN atExit : i # n => i \in DOMAIN atExit'
      /\ \A k \in DOMAIN atExit' : atExit'[k] = atExit[k] /\ k \in DOMAIN atExit
  BY <1>1, <1>2, FrontOf, FrontSet
<1>4. \A t \in instances : t \in ToSet(atExit)
  BY <1>1, UsesAssumption DEF EndInv, At, Destroying
<1>5. ASSUME NEW t \in instances, NEW u, Earlier(u, t) PROVE Earlier(u, t)'
  <2>1. PICK j \in 1 .. n : /\ atExit[j] = u
                            /\ \A i \in 1 .. n : atExit[i] = t => j < i
    BY <1>2, <1>5 DEF Earlier
  <2>2. PICK i \in 1 .. n : atExit[i] = t
    BY <1>2, <1>4 DEF ToSet
  <2>3. j # n /\ j \in DOMAIN atExit
    BY <1>2, <2>1, <2>2
  <2>4. j \in DOMAIN atExit' /\ atExit'[j] = u
    BY <1>3, <2>1, <2>3
  <2>5. \A k \in DOMAIN atExit' : atExit'[k] = t => j < k
    BY <1>2, <1>3, <2>1
  <2> QED
    BY <2>4, <2>5 DEF Earlier
<1> QED
  BY <1>5 DEF OrderInv

LEMMA OrderInductive ==
  ASSUME RankedAtEnd, HolderInv, StackInv, EndInv, RankInv, AskedInv, OrderInv,
         [HolderNext]_holderVars
  PROVE  OrderInv'
<1>1. ASSUME NEW c \in Clients, Schedule(c) PROVE OrderInv'
  <2>1. Asked(c) \in Types \cup {Main}
    BY <1>1 DEF Schedule, EndInv
  <2> QED
    BY <1>1, <2>1, OrderAppend DEF Schedule
<1>2. ASSUME NEW n \in Longevities, SetLongevity(n) PROVE OrderInv'
  BY <1>2, OrderAppend DEF SetLongevity
<1>3. ASSUME NEW t \in Types, DestroySingleton(t) PROVE OrderInv'
  BY <1>3, OrderFront DEF DestroySingleton
<1>4. CASE AtExitFn
  BY <1>4, OrderFront DEF AtExitFn
<1>5. CASE instances' \subseteq instances /\ UNCHANGED <<made, atExit>>
  BY <1>5 DEF OrderInv, Earlier
<1> QED
  BY <1>1, <1>2, <1>3, <1>4, <1>5, OrderConstructed
     DEF HolderNext, holderVars, Proceeds, Test, LockClass, TestAgain, DeadReference,
         Constructs, UnlockClass, Destructs, Destructed, Instance, Exit

\* Where one thread has made an object and what it was built with, the object goes
\* first, if destructors keep to the rank.
THEOREM UsedIsDestroyedLater ==
  ASSUME RankedAtEnd
  PROVE  HolderSpec => []UsedOutlivesUser
<1> DEFINE Inv == /\ HolderInv /\ StackInv /\ EndInv
                  /\ RankInv /\ AskedInv /\ OrderInv
<1>1. HolderInit => Inv
  BY HolderInitInv, StackInit, EndInit, RankInit, AskedInit, OrderInit
<1>2. Inv /\ [HolderNext]_holderVars => Inv'
  <2> SUFFICES ASSUME Inv, [HolderNext]_holderVars PROVE Inv'
    OBVIOUS
  <2>1. HolderInv'
    BY HolderInductive
  <2>2. StackInv'
    BY <2>1, StackInductive
  <2>3. EndInv'
    BY <2>1, <2>2, EndInductive
  <2>4. RankInv' /\ AskedInv' /\ OrderInv'
    BY <2>1, RankInductive, AskedInductive, OrderInductive
  <2> QED
    BY <2>1, <2>2, <2>3, <2>4
<1>3. Inv => UsedOutlivesUser
  <2> SUFFICES ASSUME Inv, NEW t \in instances, NEW u \in ToSet(Uses[t]), made[u] = made[t]
               PROVE  u \in instances
    BY DEF UsedOutlivesUser
  <2>1. t \in Types
    BY DEF EndInv
  <2>2. u \in Types /\ u # Main
    BY <2>1, RankIs, UsesAssumption
  <2>3. u \in ToSet(atExit)
    BY DEF OrderInv, Earlier, ToSet
  <2> QED
    BY <2>2, <2>3 DEF EndInv
<1> QED
  BY <1>1, <1>2, <1>3, PTL DEF HolderSpec
=============================================================================
