--------------------------- MODULE HelixStackProofs ---------------------------
(***************************************************************************)
(* Theorems about HelixStack, for any number of protocols and sockets and  *)
(* any order of installation.                                              *)
(***************************************************************************)
EXTENDS HelixStack, TLAPS

Elems(s) == {s[i] : i \in 1..Len(s)}

(* The activations after a call and after a return. *)
LEMMA ElemsPush ==
  ASSUME NEW S, NEW s \in Seq(S), NEW x \in S
  PROVE  /\ <<x>> \o s \in Seq(S) /\ <<x>> \o s # << >>
         /\ Head(<<x>> \o s) = x /\ Tail(<<x>> \o s) = s
         /\ Elems(<<x>> \o s) = {x} \cup Elems(s)
  <1>1. /\ <<x>> \o s \in Seq(S) /\ <<x>> \o s # << >>
        /\ Head(<<x>> \o s) = x /\ Tail(<<x>> \o s) = s
        /\ Len(<<x>> \o s) = Len(s) + 1
        /\ (<<x>> \o s)[1] = x
        /\ \A i \in 1..Len(s) : (<<x>> \o s)[i + 1] = s[i]
    OBVIOUS
  <1>2. ASSUME NEW y \in Elems(<<x>> \o s) PROVE y \in {x} \cup Elems(s)
    <2>1. PICK i \in 1..Len(s) + 1 : y = (<<x>> \o s)[i]
      BY <1>1 DEF Elems
    <2>2. CASE i = 1
      BY <1>1, <2>1, <2>2
    <2>3. CASE i # 1
      <3>1. i - 1 \in 1..Len(s) /\ y = s[i - 1]
        BY <1>1, <2>1, <2>3
      <3> QED
        BY <3>1 DEF Elems
    <2> QED
      BY <2>2, <2>3
  <1>3. ASSUME NEW y \in {x} \cup Elems(s) PROVE y \in Elems(<<x>> \o s)
    <2>1. CASE y = x
      <3>1. 1 \in 1..Len(<<x>> \o s)
        BY <1>1
      <3> QED
        BY <1>1, <2>1, <3>1 DEF Elems
    <2>2. CASE y \in Elems(s)
      <3>1. PICK i \in 1..Len(s) : y = s[i]
        BY <2>2 DEF Elems
      <3>2. i + 1 \in 1..Len(<<x>> \o s) /\ y = (<<x>> \o s)[i + 1]
        BY <1>1, <3>1
      <3> QED
        BY <3>2 DEF Elems
    <2> QED
      BY <2>1, <2>2
  <1> QED
    BY <1>1, <1>2, <1>3

LEMMA ElemsPop ==
  ASSUME NEW S, NEW s \in Seq(S), s # << >>
  PROVE  /\ Head(s) \in S /\ Tail(s) \in Seq(S)
         /\ Elems(s) = {Head(s)} \cup Elems(Tail(s))
  <1>1. Head(s) \in S /\ Tail(s) \in Seq(S) /\ s = <<Head(s)>> \o Tail(s)
    OBVIOUS
  <1> QED
    BY <1>1, ElemsPush

LEMMA ElemsIn ==
  ASSUME NEW S, NEW s \in Seq(S)
  PROVE  Elems(s) \subseteq S /\ (s = << >> => Elems(s) = {})
  BY DEF Elems
-----------------------------------------------------------------------------
(* The inductive invariant.  A node has one protocol.  Of the activations   *)
(* in progress all but the oldest are notifications; AddHelix is the oldest *)
(* one and, while it runs, it owns the right to make the factory.  A        *)
(* factory leads to a protocol with a node; what is not linked yet has a    *)
(* notification in progress that saw it.                                   *)
OneHelix == \A h, g \in agg \cap Helices : h = g
AddedInv ==
  /\ agg \cap Helices \subseteq added
  /\ \A h \in Helices \ added : ~mNode[h]
  /\ FatalOnlyOnReAdd /\ CreateNeverNull

NotifyAbove(s) == \A i \in 1..(Len(s) - 1) : s[i].kind = "notify"
CallInv ==
  /\ NotifyAbove(calls)
  /\ \A c \in Elems(calls) :
       /\ c.helix \in agg
       /\ c.kind = "notify" => c.ips \subseteq agg
       /\ c.kind = "helper" => mNode[c.helix] /\ "factory" \notin agg

FactoryInv == ~disposed =>
  /\ "factory" \in agg => factoryHelix \in agg \cap Helices /\ mNode[factoryHelix]
  /\ \A h \in agg \cap Helices : mNode[h] /\ "factory" \notin agg =>
       \E c \in Elems(calls) : c.kind = "helper"

TargetInv == \A h \in Helices : downTarget[h] \subseteq agg
PendingInv == ~disposed => \A h \in agg \cap Helices :
  /\ \A v \in agg \cap Ips :
       v \in downTarget[h] \/ \E c \in Elems(calls) : c.kind = "notify" /\ v \in c.ips
  /\ agg \cap Ips # {} =>
       mNode[h] \/ \E c \in Elems(calls) : c.kind = "notify" /\ c.pc = "link" /\ c.ips # {}

SocketInv == ~disposed => held \subseteq mSockets /\ tied \subseteq mSockets

LinkInv == OneHelix /\ AddedInv /\ CallInv /\ FactoryInv /\ TargetInv /\ PendingInv
IInv == TypeOK /\ LinkInv /\ InsertedOnce /\ SocketInv

Objects == Helices \cup Externals \cup {"factory"}

(* What AggregateObject does to the stack it returns to. *)
LEMMA AggregateEffect ==
  ASSUME TypeOK, OneHelix, NEW o \in Objects, NEW rest \in Seq(Activations),
         NotifyAbove(rest), Aggregate(o, rest), ~Duplicate(o)
  PROVE  /\ agg' = agg \cup {o} /\ crash' = crash
         /\ OneHelix'
         /\ calls' \in Seq(Activations)
         /\ NotifyAbove(calls')
         /\ Elems(calls') = Elems(rest) \cup
              {Notify(h, agg' \cap Ips, "link") : h \in agg' \cap Helices}
  <1>1. agg' = agg \cup {o} /\ crash' = crash
    BY DEF Aggregate
  <1>2. OneHelix'
    BY <1>1, StackAssumption DEF OneHelix, Duplicate, Objects
  <1>3. CASE agg' \cap Helices = {}
    BY <1>1, <1>2, <1>3 DEF Aggregate
  <1>4. CASE agg' \cap Helices # {}
    <2>1. PICK h \in agg' \cap Helices :
            calls' = <<Notify(h, agg' \cap Ips, "link")>> \o rest
      BY <1>4 DEF Aggregate
    <2>2. Notify(h, agg' \cap Ips, "link") \in Activations
      BY DEF Notify, Activations
    <2>3. /\ calls' \in Seq(Activations)
          /\ Elems(calls') = {Notify(h, agg' \cap Ips, "link")} \cup Elems(rest)
      BY <2>1, <2>2, ElemsPush
    <2>4. NotifyAbove(calls')
      <3> SUFFICES ASSUME NEW i \in 1..(Len(calls') - 1) PROVE calls'[i].kind = "notify"
        BY DEF NotifyAbove
      <3>1. CASE i = 1
        BY <2>1, <3>1 DEF Notify
      <3>2. CASE i # 1
        <4>1. i - 1 \in 1..(Len(rest) - 1) /\ calls'[i] = rest[i - 1]
          BY <2>1, <3>2
        <4> QED
          BY <4>1 DEF NotifyAbove
      <3> QED
        BY <3>1, <3>2
    <2>5. agg' \cap Helices = {h}
      BY <1>2 DEF OneHelix
    <2> QED
      BY <1>1, <1>2, <2>3, <2>4, <2>5
  <1> QED
    BY <1>3, <1>4
-----------------------------------------------------------------------------
(* The activation on top, and the stack beneath it. *)
LEMMA TopOfStack ==
  ASSUME TypeOK, CallInv, calls # << >>
  PROVE  /\ Top \in Activations /\ Rest \in Seq(Activations)
         /\ Elems(calls) = {Top} \cup Elems(Rest)
         /\ NotifyAbove(Rest)
         /\ Top.kind = "helper" => Rest = << >>
         /\ Top.helix \in agg \cap Helices
         /\ Top.kind = "notify" => Top.ips \in SUBSET (agg \cap Ips) /\ Top.pc \in {"link", "down"}
         /\ Top.kind = "helper" => mNode[Top.helix] /\ "factory" \notin agg
  <1>1. calls \in Seq(Activations) /\ NotifyAbove(calls)
    BY DEF TypeOK, CallInv
  <1>2. /\ Top \in Activations /\ Rest \in Seq(Activations)
        /\ Elems(calls) = {Top} \cup Elems(Rest)
    BY <1>1, ElemsPop DEF Top, Rest
  <1>3. NotifyAbove(Rest)
    BY <1>1 DEF NotifyAbove, Rest
  <1>4. Top.kind = "helper" => Rest = << >>
    <2>1. Len(calls) \in Nat \ {0} /\ Top = calls[1]
      BY <1>1 DEF Top
    <2>2. CASE Len(calls) = 1
      <3>1. Rest \in Seq(Activations) /\ Len(Rest) = 0
        BY <1>1, <2>2 DEF Rest
      <3> QED
        BY <3>1
    <2>3. CASE Len(calls) # 1
      <3>1. 1 \in 1..(Len(calls) - 1)
        <4> DEFINE n == Len(calls)
        <4>1. n \in Nat /\ n # 0 /\ n # 1
          BY <2>1, <2>3
        <4> HIDE DEF n
        <4>2. 1 \in 1..(n - 1)
          BY <4>1
        <4> QED
          BY <4>2 DEF n
      <3> QED
        BY <1>1, <2>1, <3>1 DEF NotifyAbove
    <2> QED
      BY <2>2, <2>3
  <1>5. Top \in Elems(calls)
    BY <1>2
  <1>6. /\ Top.helix \in agg
        /\ Top.kind = "notify" => Top.ips \subseteq agg
        /\ Top.kind = "helper" => mNode[Top.helix] /\ "factory" \notin agg
    BY <1>5 DEF CallInv
  <1>7. /\ Top.helix \in Helices
        /\ Top.kind = "notify" => Top.ips \subseteq Ips /\ Top.pc \in {"link", "down"}
    BY <1>2 DEF Activations
  <1> QED
    BY <1>2, <1>3, <1>4, <1>6, <1>7

LEMMA StackInit == ASSUME Init PROVE IInv
  <1>1. disposed \in BOOLEAN /\ mNode \in [Helices -> BOOLEAN]
    BY Zenon DEF Init
  <1>2. TypeOK
    BY <1>1 DEF Init, TypeOK
  <1>3. /\ agg = {} /\ calls = << >> /\ crash = "none" /\ held = {} /\ tied = {}
        /\ downTarget = [h \in Helices |-> {}]
        /\ \A h \in Helices : ~mNode[h]
    BY DEF Init
  <1>4. InsertedOnce
    BY DEF Init, InsertedOnce
  <1>5. Elems(calls) = {} /\ NotifyAbove(calls)
    BY <1>3 DEF Elems, NotifyAbove
  <1> QED
    BY <1>2, <1>3, <1>4, <1>5
    DEF IInv, LinkInv, OneHelix, AddedInv, FatalOnlyOnReAdd, CreateNeverNull, CallInv,
        FactoryInv, TargetInv, PendingInv, SocketInv
-----------------------------------------------------------------------------
(* A notification that has just begun saw everything there is to link. *)
LEMMA PendingAfterAggregate ==
  ASSUME {Notify(h, agg' \cap Ips, "link") : h \in agg' \cap Helices} \subseteq Elems(calls')
  PROVE  PendingInv'
  <1> SUFFICES ASSUME NEW h \in agg' \cap Helices
               PROVE  \E c \in Elems(calls') : /\ c.kind = "notify" /\ c.pc = "link"
                                              /\ c.ips = agg' \cap Ips
    BY DEF PendingInv
  <1>1. Notify(h, agg' \cap Ips, "link") \in Elems(calls')
    OBVIOUS
  <1> QED
    BY <1>1 DEF Notify

LEMMA NoCalls ==
  /\ << >> \in Seq(Activations) /\ NotifyAbove(<< >>) /\ Elems(<< >>) = {}
  BY DEF NotifyAbove, Elems

(* Each operation keeps the invariant. *)
LEMMA InstallStep ==
  ASSUME IInv, NEW o \in Externals, Install(o)
  PROVE  IInv'
  <1>0. TypeOK /\ LinkInv /\ InsertedOnce /\ SocketInv
    BY DEF IInv
  <1>1. /\ calls = << >> /\ o \notin agg /\ o \notin Helices /\ o # "factory"
        /\ Aggregate(o, << >>)
        /\ UNCHANGED <<added, linkVars, factoryHelix, sockVars, disposed>>
    BY StackAssumption DEF Install, Idle, Externals, Ips
  <1>2. ~Duplicate(o) /\ o \in Objects
    BY <1>1 DEF Duplicate, Objects
  <1>3. /\ agg' = agg \cup {o} /\ crash' = crash /\ OneHelix'
        /\ calls' \in Seq(Activations) /\ NotifyAbove(calls')
        /\ Elems(calls') = {Notify(h, agg' \cap Ips, "link") : h \in agg' \cap Helices}
    BY <1>0, <1>1, <1>2, AggregateEffect, NoCalls DEF LinkInv
  <1>4. TypeOK'
    BY <1>0, <1>1, <1>3 DEF TypeOK, linkVars, sockVars
  <1>5. AddedInv' /\ TargetInv'
    BY <1>0, <1>1, <1>3 DEF LinkInv, AddedInv, TargetInv, FatalOnlyOnReAdd, ReAdded,
                            CreateNeverNull, linkVars
  <1>6. CallInv'
    BY <1>3 DEF CallInv, Notify
  <1>7. FactoryInv'
    BY <1>0, <1>1, <1>3, NoCalls DEF LinkInv, FactoryInv, linkVars
  <1>8. PendingInv'
    BY <1>3, PendingAfterAggregate
  <1>9. InsertedOnce' /\ SocketInv'
    BY <1>0, <1>1 DEF InsertedOnce, SocketInv, linkVars, sockVars
  <1> QED
    BY <1>3, <1>4, <1>5, <1>6, <1>7, <1>8, <1>9 DEF IInv, LinkInv

LEMMA AggregateHelixStep ==
  ASSUME IInv, NEW k \in Helices, AggregateHelix(k), ~Duplicate(k)
  PROVE  IInv'
  <1>0. TypeOK /\ LinkInv /\ InsertedOnce /\ SocketInv
    BY DEF IInv
  <1>1. /\ calls = << >> /\ k \notin agg /\ k # "factory" /\ k \notin Ips
        /\ agg \cap Helices = {} /\ added' = added \cup {k}
        /\ Aggregate(k, << >>)
        /\ UNCHANGED <<linkVars, factoryHelix, sockVars, disposed>>
    BY StackAssumption DEF AggregateHelix, Duplicate, Idle, Externals
  <1>3. /\ agg' = agg \cup {k} /\ crash' = crash /\ OneHelix'
        /\ calls' \in Seq(Activations) /\ NotifyAbove(calls')
        /\ Elems(calls') = {Notify(h, agg' \cap Ips, "link") : h \in agg' \cap Helices}
    BY <1>0, <1>1, AggregateEffect, NoCalls DEF LinkInv, Objects
  <1>4. TypeOK'
    BY <1>0, <1>1, <1>3 DEF TypeOK, linkVars, sockVars
  <1>5. AddedInv' /\ TargetInv'
    BY <1>0, <1>1, <1>3 DEF LinkInv, AddedInv, TargetInv, FatalOnlyOnReAdd, ReAdded,
                            CreateNeverNull, linkVars
  <1>6. CallInv'
    BY <1>3 DEF CallInv, Notify
  <1>7. FactoryInv'
    <2>1. ~mNode[k]
      BY <1>0 DEF LinkInv, AddedInv, AggregateHelix
    <2> QED
      BY <1>0, <1>1, <1>3, <2>1 DEF LinkInv, FactoryInv, linkVars
  <1>8. PendingInv'
    BY <1>3, PendingAfterAggregate
  <1>9. InsertedOnce' /\ SocketInv'
    BY <1>0, <1>1 DEF InsertedOnce, SocketInv, linkVars, sockVars
  <1> QED
    BY <1>3, <1>4, <1>5, <1>6, <1>7, <1>8, <1>9 DEF IInv, LinkInv

LEMMA AddHelixStep ==
  ASSUME IInv, NEW k \in Helices, AddHelix(k), ~Duplicate(k)
  PROVE  IInv'
  <1>0. TypeOK /\ LinkInv /\ InsertedOnce /\ SocketInv
    BY DEF IInv
  <1>1. /\ calls = << >> /\ k \notin agg /\ k # "factory" /\ k \notin Ips
        /\ k \notin added /\ agg \cap Helices = {} /\ added' = added \cup {k}
        /\ mNode' = [mNode EXCEPT ![k] = TRUE]
        /\ Aggregate(k, <<Helper(k)>>)
        /\ UNCHANGED <<downTarget, inserts, factoryHelix, sockVars, disposed>>
        /\ ~disposed
    BY StackAssumption DEF AddHelix, Made, SetNode, Duplicate, Idle, Running, Externals
  <1>2. /\ <<Helper(k)>> \in Seq(Activations) /\ NotifyAbove(<<Helper(k)>>)
        /\ Elems(<<Helper(k)>>) = {Helper(k)}
    <2>1. Helper(k) \in Activations
      BY DEF Helper, Activations
    <2> QED
      BY <2>1 DEF NotifyAbove, Elems
  <1>3. /\ agg' = agg \cup {k} /\ crash' = crash /\ OneHelix'
        /\ calls' \in Seq(Activations) /\ NotifyAbove(calls')
        /\ Elems(calls') = {Helper(k)} \cup
             {Notify(h, agg' \cap Ips, "link") : h \in agg' \cap Helices}
    BY <1>0, <1>1, <1>2, AggregateEffect DEF LinkInv, Objects
  <1>4. TypeOK'
    BY <1>0, <1>1, <1>3 DEF TypeOK, sockVars
  <1>5. AddedInv' /\ TargetInv'
    BY <1>0, <1>1, <1>3 DEF TypeOK, LinkInv, AddedInv, TargetInv, FatalOnlyOnReAdd,
                            ReAdded, CreateNeverNull
  <1>6. "factory" \notin agg'
    BY <1>0, <1>1, <1>3 DEF LinkInv, FactoryInv
  <1>7. mNode'[k]
    BY <1>0, <1>1 DEF TypeOK
  <1>8. CallInv'
    <2>1. ASSUME NEW h \in agg' \cap Helices, NEW c, c = Notify(h, agg' \cap Ips, "link")
          PROVE  c.helix \in agg' /\ c.kind = "notify" /\ c.ips \subseteq agg'
      BY <2>1 DEF Notify
    <2>2. Helper(k).helix = k /\ Helper(k).kind = "helper"
      BY DEF Helper
    <2> QED
      BY <1>3, <1>6, <1>7, <2>1, <2>2 DEF CallInv
  <1>9. FactoryInv'
    <2>1. Helper(k) \in Elems(calls') /\ Helper(k).kind = "helper"
      BY <1>3 DEF Helper
    <2> QED
      BY <1>6, <2>1 DEF FactoryInv
  <1>10. PendingInv'
    BY <1>3, PendingAfterAggregate
  <1>11. InsertedOnce' /\ SocketInv'
    BY <1>0, <1>1 DEF InsertedOnce, SocketInv, sockVars
  <1> QED
    BY <1>3, <1>4, <1>5, <1>8, <1>9, <1>10, <1>11 DEF IInv, LinkInv

LEMMA ReAddStep ==
  ASSUME IInv, NEW k \in Helices, AggregateHelix(k) \/ AddHelix(k), Duplicate(k)
  PROVE  IInv'
  <1>0. TypeOK /\ LinkInv /\ InsertedOnce /\ SocketInv
    BY DEF IInv
  <1>1. /\ k \notin added /\ added' = added \cup {k} /\ crash' = "duplicate"
        /\ UNCHANGED <<agg, calls, downTarget, inserts, factoryHelix, sockVars, disposed>>
        /\ mNode' = mNode \/ mNode' = [mNode EXCEPT ![k] = TRUE]
    BY DEF AggregateHelix, AddHelix, Made, SetNode, Aggregate, linkVars
  <1>2. PICK g \in agg \cap Helices : g # k
    BY <1>0, <1>1 DEF LinkInv, AddedInv, Duplicate
  <1>3. g \in added' /\ k \in added' /\ k \notin agg
    BY <1>0, <1>1, <1>2 DEF LinkInv, AddedInv
  <1>4. mNode' \in [Helices -> BOOLEAN] /\ \A h \in Helices \ {k} : mNode'[h] = mNode[h]
    BY <1>0, <1>1 DEF TypeOK
  <1>5. TypeOK'
    BY <1>0, <1>1, <1>4 DEF TypeOK, sockVars
  <1>6. AddedInv'
    BY <1>0, <1>1, <1>2, <1>3, <1>4 DEF LinkInv, AddedInv, FatalOnlyOnReAdd, ReAdded,
                                        CreateNeverNull
  <1>7. \A h \in agg \cap Helices : mNode'[h] = mNode[h]
    BY <1>3, <1>4
  <1>8. OneHelix' /\ TargetInv' /\ InsertedOnce' /\ SocketInv'
    BY <1>0, <1>1 DEF LinkInv, OneHelix, TargetInv, InsertedOnce, SocketInv, sockVars
  <1>9. CallInv'
    <2>1. \A c \in Elems(calls) : c.helix \in agg \cap Helices
      BY <1>0, ElemsIn DEF LinkInv, CallInv, TypeOK, Activations
    <2> QED
      BY <1>0, <1>1, <1>7, <2>1 DEF LinkInv, CallInv
  <1>10. FactoryInv' /\ PendingInv'
    BY <1>0, <1>1, <1>7 DEF LinkInv, FactoryInv, PendingInv
  <1> QED
    BY <1>5, <1>6, <1>8, <1>9, <1>10 DEF IInv, LinkInv

LEMMA AddFactoryStep ==
  ASSUME IInv, AddFactory
  PROVE  IInv'
  <1>0. TypeOK /\ LinkInv /\ InsertedOnce /\ SocketInv
    BY DEF IInv
  <1>1. /\ Rest = << >> /\ "factory" \notin agg /\ "factory" \notin Helices
        /\ Top.helix \in agg \cap Helices /\ mNode[Top.helix]
    BY <1>0, TopOfStack, StackAssumption DEF AddFactory, LinkInv
  <1>2. /\ Aggregate("factory", << >>) /\ factoryHelix' = Top.helix
        /\ UNCHANGED <<added, linkVars, sockVars, disposed>>
    BY <1>1 DEF AddFactory, AggregateFactory, Duplicate
  <1>3. /\ agg' = agg \cup {"factory"} /\ crash' = crash /\ OneHelix'
        /\ calls' \in Seq(Activations) /\ NotifyAbove(calls')
        /\ Elems(calls') = {Notify(h, agg' \cap Ips, "link") : h \in agg' \cap Helices}
    BY <1>0, <1>1, <1>2, AggregateEffect, NoCalls DEF LinkInv, Objects, Duplicate
  <1>4. TypeOK'
    BY <1>0, <1>1, <1>2, <1>3 DEF TypeOK, linkVars, sockVars
  <1>5. AddedInv' /\ TargetInv'
    BY <1>0, <1>1, <1>2, <1>3 DEF LinkInv, AddedInv, TargetInv, FatalOnlyOnReAdd,
                                  ReAdded, CreateNeverNull, linkVars
  <1>6. CallInv'
    BY <1>3 DEF CallInv, Notify
  <1>7. FactoryInv'
    BY <1>1, <1>2, <1>3 DEF FactoryInv, linkVars
  <1>8. PendingInv'
    BY <1>3, PendingAfterAggregate
  <1>9. InsertedOnce' /\ SocketInv'
    BY <1>0, <1>2 DEF InsertedOnce, SocketInv, linkVars, sockVars
  <1> QED
    BY <1>3, <1>4, <1>5, <1>6, <1>7, <1>8, <1>9 DEF IInv, LinkInv

LEMMA NotifyLinkStep ==
  ASSUME IInv, NotifyLink
  PROVE  IInv'
  <1> DEFINE h == Top.helix
             down == Notify(h, Top.ips, "down")
             after == <<down>> \o Rest
  <1>0. TypeOK /\ LinkInv /\ InsertedOnce /\ SocketInv
    BY DEF IInv
  <1>1. /\ Rest \in Seq(Activations) /\ NotifyAbove(Rest)
        /\ Elems(calls) = {Top} \cup Elems(Rest)
        /\ h \in agg \cap Helices /\ Top.ips \in SUBSET (agg \cap Ips)
        /\ Top.kind = "notify" /\ Top.pc = "link" /\ ~disposed
    BY <1>0, TopOfStack DEF NotifyLink, InNotify, Running, LinkInv
  <1>2. down \in Activations /\ down.kind = "notify" /\ down.pc = "down"
        /\ down.helix = h /\ down.ips = Top.ips
    BY <1>1 DEF Notify, Activations
  <1>3. after \in Seq(Activations) /\ Elems(after) = {down} \cup Elems(Rest)
    BY <1>1, <1>2, ElemsPush
  <1>4. NotifyAbove(after)
    <2> SUFFICES ASSUME NEW i \in 1..(Len(after) - 1) PROVE after[i].kind = "notify"
      BY DEF NotifyAbove
    <2> HIDE DEF down
    <2>1. CASE i = 1
      BY <1>1, <1>2, <2>1
    <2>2. CASE i # 1
      <3>1. i - 1 \in 1..(Len(Rest) - 1) /\ after[i] = Rest[i - 1]
        BY <1>1, <1>2, <2>2
      <3> QED
        BY <1>1, <3>1 DEF NotifyAbove
    <2> QED
      BY <2>1, <2>2
  <1> HIDE DEF after
  <1>5. UNCHANGED <<added, downTarget, inserts, sockVars, disposed>>
    BY DEF NotifyLink, SetNode
  <1>6. CASE ~mNode[h] /\ Top.ips # {}
    <2>1. mNode' = [mNode EXCEPT ![h] = TRUE] /\ AggregateFactory(h, after)
      BY <1>6 DEF NotifyLink, SetNode, after
    <2>2. "factory" \notin agg /\ "factory" \notin Helices
      BY <1>0, <1>1, <1>6, StackAssumption DEF LinkInv, OneHelix, FactoryInv
    <2>3. \A c \in Elems(calls) : c.kind # "helper" /\ c.kind = "notify"
      <3>1. \A c \in Elems(calls) : c \in Activations /\ c.helix \in agg \cap Helices
        BY <1>0, ElemsIn DEF LinkInv, CallInv, TypeOK, Activations
      <3>2. \A c \in Elems(calls) : c.kind # "helper"
        BY <1>0, <1>1, <1>6, <3>1 DEF LinkInv, CallInv, OneHelix
      <3> QED
        BY <3>1, <3>2 DEF Activations
    <2>4. Aggregate("factory", after) /\ factoryHelix' = h
      BY <2>1, <2>2 DEF AggregateFactory, Duplicate
    <2>5. /\ agg' = agg \cup {"factory"} /\ crash' = crash /\ OneHelix'
          /\ calls' \in Seq(Activations) /\ NotifyAbove(calls')
          /\ Elems(calls') = Elems(after) \cup
               {Notify(g, agg' \cap Ips, "link") : g \in agg' \cap Helices}
      BY <1>0, <1>3, <1>4, <2>2, <2>4, AggregateEffect DEF LinkInv, Objects, Duplicate
    <2>6. mNode' \in [Helices -> BOOLEAN] /\ mNode'[h] /\ h \in added
          /\ \A g \in Helices \ {h} : mNode'[g] = mNode[g]
      BY <1>0, <1>1, <2>1 DEF TypeOK, LinkInv, AddedInv
    <2>7. TypeOK'
      BY <1>0, <1>1, <1>5, <2>4, <2>5, <2>6 DEF TypeOK, sockVars
    <2>8. AddedInv' /\ TargetInv'
      BY <1>0, <1>5, <2>2, <2>5, <2>6 DEF LinkInv, AddedInv, TargetInv, FatalOnlyOnReAdd,
                                          ReAdded, CreateNeverNull
    <2>9. CallInv'
      <3>1. ASSUME NEW c \in Elems(after) PROVE /\ c.helix \in agg /\ c.kind = "notify"
                                               /\ c.ips \subseteq agg
        BY <1>0, <1>1, <1>2, <1>3, <2>3 DEF LinkInv, CallInv
      <3>2. ASSUME NEW g \in agg' \cap Helices, NEW c, c = Notify(g, agg' \cap Ips, "link")
            PROVE  c.helix \in agg' /\ c.kind = "notify" /\ c.ips \subseteq agg'
        BY <3>2 DEF Notify
      <3> QED
        BY <2>5, <3>1, <3>2 DEF CallInv
    <2>10. FactoryInv'
      BY <1>1, <2>4, <2>5, <2>6 DEF FactoryInv
    <2>11. PendingInv'
      BY <2>5, PendingAfterAggregate
    <2>12. InsertedOnce' /\ SocketInv'
      BY <1>0, <1>5 DEF InsertedOnce, SocketInv, sockVars
    <2> QED
      BY <2>5, <2>7, <2>8, <2>9, <2>10, <2>11, <2>12 DEF IInv, LinkInv
  <1>7. CASE ~(~mNode[h] /\ Top.ips # {})
    <2>1. calls' = after /\ UNCHANGED <<agg, mNode, factoryHelix, crash>>
      BY <1>7 DEF NotifyLink, SetNode, after
    <2>2. TypeOK'
      BY <1>0, <1>3, <1>5, <2>1 DEF TypeOK, sockVars
    <2>3. OneHelix' /\ AddedInv' /\ TargetInv' /\ InsertedOnce' /\ SocketInv'
      BY <1>0, <1>5, <2>1 DEF LinkInv, OneHelix, AddedInv, TargetInv, FatalOnlyOnReAdd,
           ReAdded, CreateNeverNull, InsertedOnce, SocketInv, sockVars
    <2>4. CallInv'
      BY <1>0, <1>1, <1>2, <1>3, <1>4, <2>1 DEF LinkInv, CallInv
    <2>5. FactoryInv'
      BY <1>0, <1>1, <1>3, <1>5, <2>1 DEF LinkInv, FactoryInv
    <2>6. PendingInv'
      <3> SUFFICES ASSUME NEW g \in agg \cap Helices
                   PROVE  /\ \A v \in agg \cap Ips :
                               \/ v \in downTarget[g]
                               \/ \E c \in Elems(after) : c.kind = "notify" /\ v \in c.ips
                          /\ agg \cap Ips # {} =>
                               \/ mNode[g]
                               \/ \E c \in Elems(after) : /\ c.kind = "notify" /\ c.pc = "link"
                                                         /\ c.ips # {}
        BY <1>5, <2>1 DEF PendingInv
      <3>1. g = h
        BY <1>0, <1>1 DEF LinkInv, OneHelix
      <3>2. ASSUME NEW v \in agg \cap Ips, v \notin downTarget[g]
            PROVE  \E c \in Elems(after) : c.kind = "notify" /\ v \in c.ips
        <4>1. PICK c \in Elems(calls) : c.kind = "notify" /\ v \in c.ips
          BY <1>0, <1>1, <3>2 DEF LinkInv, PendingInv
        <4> QED
          BY <1>1, <1>2, <1>3, <4>1
      <3>3. ASSUME agg \cap Ips # {}, ~mNode[g]
            PROVE  \E c \in Elems(after) : c.kind = "notify" /\ c.pc = "link" /\ c.ips # {}
        <4>1. PICK c \in Elems(calls) : c.kind = "notify" /\ c.pc = "link" /\ c.ips # {}
          BY <1>0, <1>1, <3>3 DEF LinkInv, PendingInv
        <4>2. c # Top
          BY <1>7, <3>1, <3>3, <4>1
        <4> QED
          BY <1>1, <1>3, <4>1, <4>2
      <3> QED
        BY <3>2, <3>3
    <2> QED
      BY <2>2, <2>3, <2>4, <2>5, <2>6 DEF IInv, LinkInv
  <1> QED
    BY <1>6, <1>7

LEMMA NotifyDownStep ==
  ASSUME IInv, NotifyDown
  PROVE  IInv'
  <1> DEFINE h == Top.helix
             new == Top.ips \ downTarget[h]
  <1>0. TypeOK /\ LinkInv /\ InsertedOnce /\ SocketInv
    BY DEF IInv
  <1>1. /\ Rest \in Seq(Activations) /\ NotifyAbove(Rest)
        /\ Elems(calls) = {Top} \cup Elems(Rest)
        /\ h \in agg \cap Helices /\ Top.ips \in SUBSET (agg \cap Ips)
        /\ Top.kind = "notify" /\ Top.pc = "down" /\ ~disposed
    BY <1>0, TopOfStack DEF NotifyDown, NewTargets, InNotify, Running, LinkInv
  <1>2. /\ calls' = Rest
        /\ inserts' = [inserts EXCEPT ![h] =
              [v \in Ips |-> inserts[h][v] + (IF v \in new THEN 1 ELSE 0)]]
        /\ downTarget' = [downTarget EXCEPT ![h] = downTarget[h] \cup new]
        /\ UNCHANGED <<agg, added, mNode, factoryHelix, sockVars, disposed, crash>>
    BY DEF NotifyDown, NewTargets, SetDownTargets
  <1>3. /\ downTarget' \in [Helices -> SUBSET Ips]
        /\ downTarget'[h] = downTarget[h] \cup Top.ips
        /\ \A g \in Helices \ {h} : downTarget'[g] = downTarget[g]
    BY <1>0, <1>1, <1>2 DEF TypeOK
  <1>4. inserts' \in [Helices -> [Ips -> Nat]]
    <2>1. [v \in Ips |-> inserts[h][v] + (IF v \in new THEN 1 ELSE 0)] \in [Ips -> Nat]
      BY <1>0, <1>1 DEF TypeOK
    <2> QED
      BY <1>0, <1>1, <1>2, <2>1 DEF TypeOK
  <1>5. InsertedOnce'
    <2> SUFFICES ASSUME NEW g \in Helices, NEW v \in Ips
                 PROVE  inserts'[g][v] = IF v \in downTarget'[g] THEN 1 ELSE 0
      BY DEF InsertedOnce
    <2>0. inserts[g][v] = IF v \in downTarget[g] THEN 1 ELSE 0
      BY <1>0 DEF InsertedOnce
    <2>1. CASE g # h
      BY <1>0, <1>1, <1>2, <1>3, <2>0, <2>1 DEF TypeOK
    <2>2. CASE g = h
      <3>1. inserts'[g][v] = inserts[g][v] + (IF v \in new THEN 1 ELSE 0)
        BY <1>0, <1>1, <1>2, <2>2 DEF TypeOK
      <3> QED
        BY <1>3, <2>0, <2>2, <3>1
    <2> QED
      BY <2>1, <2>2
  <1>6. TypeOK'
    BY <1>0, <1>1, <1>2, <1>3, <1>4 DEF TypeOK, sockVars
  <1>7. OneHelix' /\ AddedInv' /\ SocketInv'
    BY <1>0, <1>2 DEF LinkInv, OneHelix, AddedInv, FatalOnlyOnReAdd, ReAdded,
                      CreateNeverNull, SocketInv, sockVars
  <1>8. TargetInv'
    BY <1>0, <1>1, <1>2, <1>3 DEF LinkInv, TargetInv
  <1>9. CallInv' /\ FactoryInv'
    BY <1>0, <1>1, <1>2 DEF LinkInv, CallInv, FactoryInv
  <1>10. PendingInv'
    <2> SUFFICES ASSUME NEW g \in agg \cap Helices
                 PROVE  /\ \A v \in agg \cap Ips :
                             \/ v \in downTarget'[g]
                             \/ \E c \in Elems(Rest) : c.kind = "notify" /\ v \in c.ips
                        /\ agg \cap Ips # {} =>
                             \/ mNode[g]
                             \/ \E c \in Elems(Rest) : /\ c.kind = "notify" /\ c.pc = "link"
                                                      /\ c.ips # {}
      BY <1>2 DEF PendingInv
    <2>1. g = h
      BY <1>0, <1>1 DEF LinkInv, OneHelix
    <2>2. ASSUME NEW v \in agg \cap Ips, v \notin downTarget'[g]
          PROVE  \E c \in Elems(Rest) : c.kind = "notify" /\ v \in c.ips
      <3>1. v \notin Top.ips /\ v \notin downTarget[g]
        BY <1>3, <2>1, <2>2
      <3>2. PICK c \in Elems(calls) : c.kind = "notify" /\ v \in c.ips
        BY <1>0, <1>1, <3>1 DEF LinkInv, PendingInv
      <3> QED
        BY <1>1, <3>1, <3>2
    <2>3. ASSUME agg \cap Ips # {}, ~mNode[g]
          PROVE  \E c \in Elems(Rest) : c.kind = "notify" /\ c.pc = "link" /\ c.ips # {}
      <3>1. PICK c \in Elems(calls) : c.kind = "notify" /\ c.pc = "link" /\ c.ips # {}
        BY <1>0, <1>1, <2>3 DEF LinkInv, PendingInv
      <3> QED
        BY <1>1, <3>1
    <2> QED
      BY <2>2, <2>3
  <1> QED
    BY <1>5, <1>6, <1>7, <1>8, <1>9, <1>10 DEF IInv, LinkInv

LEMMA SocketStep ==
  ASSUME IInv, NEW s \in Sockets, CreateSocket(s) \/ Tie(s) \/ Release(s)
  PROVE  IInv'
  <1>0. TypeOK /\ LinkInv /\ InsertedOnce /\ SocketInv
    BY DEF IInv
  <1>1. /\ UNCHANGED <<agg, calls, added, linkVars, factoryHelix, disposed>>
        /\ crash' = crash
        /\ TypeOK' /\ SocketInv'
    <2>1. CASE CreateSocket(s)
      <3>1. factoryHelix \in Helices /\ factoryHelix # NoHelix /\ mNode[factoryHelix]
        BY <1>0, <2>1, StackAssumption DEF LinkInv, FactoryInv, CreateSocket, Tracks, Reached, Idle, Running
      <3>2. /\ crash' = "none" /\ crash = "none"
            /\ mSockets' = mSockets \cup {s} /\ held' = held \cup {s}
            /\ UNCHANGED <<agg, calls, added, linkVars, factoryHelix, tied, disposed>>
        BY <2>1, <3>1 DEF CreateSocket, Tracks, Reached, Idle, Running
      <3> QED
        BY <1>0, <3>2 DEF TypeOK, SocketInv, linkVars
    <2>2. CASE Tie(s) \/ Release(s)
      BY <1>0, <2>2 DEF Tie, Release, TypeOK, SocketInv, linkVars
    <2> QED
      BY <2>1, <2>2
  <1>2. LinkInv' /\ InsertedOnce'
    BY <1>0, <1>1 DEF LinkInv, OneHelix, AddedInv, FatalOnlyOnReAdd, ReAdded,
       CreateNeverNull, CallInv, FactoryInv, TargetInv, PendingInv, InsertedOnce, linkVars
  <1> QED
    BY <1>1, <1>2 DEF IInv

LEMMA DisposeStep ==
  ASSUME IInv, Dispose
  PROVE  IInv'
  <1>0. TypeOK /\ LinkInv /\ InsertedOnce /\ SocketInv
    BY DEF IInv
  <1>1. /\ calls = << >> /\ disposed' = TRUE /\ mSockets' = {} /\ factoryHelix' = NoHelix
        /\ mNode' = [h \in Helices |-> mNode[h] /\ h \notin agg]
        /\ UNCHANGED <<agg, calls, added, downTarget, inserts, held, tied, crash>>
    BY DEF Dispose, Idle, DisposeHelix, DisposeFactory
  <1>2. mNode' \in [Helices -> BOOLEAN] /\ \A h \in Helices : mNode'[h] => mNode[h]
    <2>1. \A h \in Helices : (mNode[h] /\ h \notin agg) \in BOOLEAN
      OBVIOUS
    <2> QED
      BY <1>1, <2>1
  <1>3. TypeOK'
    BY <1>0, <1>1, <1>2 DEF TypeOK
  <1>4. FactoryInv' /\ PendingInv' /\ SocketInv'
    BY <1>1 DEF FactoryInv, PendingInv, SocketInv
  <1>5. OneHelix' /\ AddedInv' /\ TargetInv' /\ InsertedOnce'
    BY <1>0, <1>1, <1>2 DEF LinkInv, OneHelix, AddedInv, FatalOnlyOnReAdd, ReAdded,
                            CreateNeverNull, TargetInv, InsertedOnce
  <1>6. CallInv'
    BY <1>1, NoCalls DEF CallInv
  <1> QED
    BY <1>3, <1>4, <1>5, <1>6 DEF IInv, LinkInv

LEMMA StackInvariant == Spec => []IInv
  <1>1. Init => IInv
    BY StackInit
  <1>2. IInv /\ [Next]_vars => IInv'
    <2> SUFFICES ASSUME IInv, [Next]_vars PROVE IInv'
      OBVIOUS
    <2>1. CASE UNCHANGED vars
      <3> USE <2>1 DEF IInv, LinkInv, vars, linkVars, sockVars
      <3>1. TypeOK' /\ OneHelix' /\ TargetInv' /\ InsertedOnce' /\ SocketInv'
        BY DEF TypeOK, OneHelix, TargetInv, InsertedOnce, SocketInv
      <3>2. AddedInv' /\ CallInv'
        BY DEF AddedInv, FatalOnlyOnReAdd, ReAdded, CreateNeverNull, CallInv
      <3>3. FactoryInv' /\ PendingInv'
        BY DEF FactoryInv, PendingInv
      <3> QED
        BY <3>1, <3>2, <3>3
    <2>2. ASSUME NEW k \in Helices, AggregateHelix(k) \/ AddHelix(k)
          PROVE  IInv'
      BY <2>2, AggregateHelixStep, AddHelixStep, ReAddStep
    <2> QED
      BY <2>1, <2>2, InstallStep, AddFactoryStep, NotifyLinkStep, NotifyDownStep,
         SocketStep, DisposeStep DEF Next, Unwind
  <1> QED
    BY <1>1, <1>2, PTL DEF Spec

(* The node's state is well typed in every reachable state. *)
THEOREM StackTypeCorrect == Spec => []TypeOK
  BY StackInvariant, PTL DEF IInv

(* For any number of protocol objects and any order of installing IPv4,     *)
(* IPv6, UDP and HELIX, by the helper or by plain aggregation, the two     *)
(* places that make a socket factory never both do: only adding HELIX      *)
(* twice ends the simulation.                                              *)
THEOREM OneFactory == Spec => []FatalOnlyOnReAdd
  <1>1. IInv => FatalOnlyOnReAdd
    BY DEF IInv, LinkInv, AddedInv
  <1> QED
    BY <1>1, StackInvariant, PTL

(* However the notifications nest, an IP gets the protocol at most once. *)
THEOREM OneInsertion == Spec => []InsertedOnce
  <1>1. IInv => InsertedOnce
    BY DEF IInv
  <1> QED
    BY <1>1, StackInvariant, PTL

(* Whatever the order of installation, the links are complete once no call  *)
(* is in progress.                                                         *)
THEOREM AllLinked == Spec => []Linked
  <1>1. IInv => Linked
    <2> SUFFICES ASSUME IInv, Idle, NEW h \in agg \cap Helices
                 PROVE  /\ downTarget[h] = agg \cap Ips
                        /\ agg \cap Ips # {} => mNode[h]
                        /\ mNode[h] => "factory" \in agg /\ factoryHelix = h
      BY DEF Linked
    <2>1. ~disposed /\ Elems(calls) = {}
      BY NoCalls DEF Idle, Running
    <2> QED
      BY <2>1 DEF IInv, TypeOK, LinkInv, OneHelix, FactoryInv, TargetInv, PendingInv
  <1> QED
    BY <1>1, StackInvariant, PTL

(* CreateSocket meets neither a null m_helix nor a null m_node. *)
THEOREM CreateSafe == Spec => []CreateNeverNull
  <1>1. IInv => CreateNeverNull
    BY DEF IInv, LinkInv, AddedInv
  <1> QED
    BY <1>1, StackInvariant, PTL

(* The raw pointer in UDP's callback outlives the application's interest in *)
(* the socket, until the node is disposed of.                              *)
THEOREM TargetsAlive == Spec => []CallbackTargetAlive
  <1>1. IInv => CallbackTargetAlive
    BY DEF IInv, SocketInv, CallbackTargetAlive
  <1> QED
    BY <1>1, StackInvariant, PTL
=============================================================================
