---------------------------- MODULE BrokerProofs ----------------------------
(***************************************************************************)
(* What the broker counts, reports and is set to.                          *)
(*                                                                         *)
(* For any number of connections, however their steps interleave: when     *)
(* nobody is connecting, ClientsMax is at least half the number of clients *)
(* connected, it is always less than twice the most there were at a time,  *)
(* and the report of the state loop keeps to the same bound although it is *)
(* not a snapshot.                                                         *)
(*                                                                         *)
(* For any arguments and any file: a setting is the one with the highest   *)
(* precedence.                                                             *)
(***************************************************************************)
EXTENDS StateLoop, Config, TLAPS, SequenceTheorems, FiniteSetTheorems

-----------------------------------------------------------------------------
(* The counters                                                            *)

Settled == At({"in", "stale"})
Raising == At({"raise"})

\* Those that have loaded the number of clients and not raised the maximum.
Loaded == At({"compare"}) \cup (Settled \ raised)

\* Of any connections that have loaded the number of clients, one did so last:
\* clients that are connected now and that it did not count came later.
LastCounted ==
  \A T \in SUBSET Loaded :
     T # {} => \E c \in T : ClientsConnected <= seen[c] + Cardinality(Counted \ T)

\* The maximum covers what a connection saw that did not raise it, and those
\* that did.
MaxCoversSeen ==
  /\ Cardinality(raised) <= ClientsMax
  /\ \A c \in Settled \ raised : seen[c] <= ClientsMax

\* Nobody has seen more than the peak, and at most that many raise the maximum
\* on one comparison.
UpToPeak ==
  /\ Cardinality(Counted) <= peak
  /\ \A c \in At({"compare"}) : seen[c] <= peak
  /\ \/ ClientsMax = 0 /\ Raising = {}
     \/ ClientsMax + Cardinality(Raising) < 2 * peak

IInv ==
  /\ TypeOK
  /\ ClientsConnected <= Cardinality(Counted)
  /\ LastCounted
  /\ MaxCoversSeen
  /\ UpToPeak

\* The sets of connections are finite.
LEMMA Finite ==
  ASSUME NEW S \in SUBSET Conns
  PROVE  IsFiniteSet(S) /\ Cardinality(S) \in Nat
BY ConnsAssumption, FS_Subset, FS_CardinalityType

LEMMA InitIInv == Init => IInv
<1> SUFFICES ASSUME Init PROVE IInv
  OBVIOUS
<1>1. Counted = {} /\ Raising = {} /\ Settled = {} /\ At({"compare"}) = {} /\ Loaded = {}
  BY DEF Init, Counted, Raising, Settled, Loaded, At
<1>2. TypeOK
  BY DEF Init, TypeOK, Labels
<1> QED
  BY <1>1, <1>2, FS_EmptySet DEF Init, IInv, LastCounted, MaxCoversSeen, UpToPeak

\* Every step keeps the types.
LEMMA NextTypeOK == TypeOK /\ [Next]_vars => TypeOK'
<1> SUFFICES ASSUME TypeOK, [Next]_vars PROVE TypeOK'
  OBVIOUS
<1> USE DEF TypeOK, Labels, Goto, At
<1>1. ASSUME NEW c \in Conns, Add(c) PROVE TypeOK'
  <2>1. Cardinality(Counted) \in Nat
    BY Finite DEF Counted
  <2> QED
    BY <1>1, <2>1 DEF Add
<1>2. ASSUME NEW c \in Conns, Load(c) \/ Compare(c) \/ Raise(c) PROVE TypeOK'
  BY <1>2 DEF Load, Compare, Raise
<1>3. ASSUME NEW c \in Conns, Leave(c) \/ LeaveUncounted(c) \/ StayCounted(c) PROVE TypeOK'
  BY <1>3 DEF Leave, LeaveUncounted, StayCounted
<1>4. CASE UNCHANGED vars
  BY <1>4 DEF vars
<1> QED
  BY <1>1, <1>2, <1>3, <1>4 DEF Next

LEMMA AddKeepsIInv ==
  ASSUME IInv, TypeOK', NEW c \in Conns, Add(c)
  PROVE  IInv'
<1>1. TypeOK /\ pc[c] = "out" /\ "load" \in Labels /\ Goto(c, "load")
  BY DEF IInv, Add, Labels
<1>2. /\ Counted' = Counted \cup {c} /\ c \notin Counted /\ Raising' = Raising
      /\ Settled' = Settled /\ At({"compare"})' = At({"compare"})
  BY <1>1 DEF Counted, Raising, Settled, At, Goto, TypeOK
<1>3. Loaded' = Loaded /\ c \notin Loaded /\ Loaded \subseteq Conns /\ Counted \subseteq Conns
  BY <1>1, <1>2 DEF Loaded, Add, At, Counted, Settled
<1>4. Cardinality(Counted) \in Nat /\ Cardinality(Counted') = Cardinality(Counted) + 1
  BY <1>2, <1>3, Finite, FS_AddElement
<1>5. ClientsConnected' <= Cardinality(Counted')
  BY <1>4 DEF IInv, TypeOK, Add
<1>6. LastCounted'
  <2> SUFFICES ASSUME NEW T \in SUBSET Loaded, T # {}
               PROVE \E d \in T : ClientsConnected' <= seen'[d] + Cardinality(Counted' \ T)
    BY <1>3 DEF LastCounted
  <2>1. PICK d \in T : ClientsConnected <= seen[d] + Cardinality(Counted \ T)
    BY DEF IInv, LastCounted
  <2>2. Counted' \ T = (Counted \ T) \cup {c} /\ c \notin Counted \ T
    BY <1>2, <1>3
  <2>3. /\ Cardinality(Counted \ T) \in Nat
        /\ Cardinality(Counted' \ T) = Cardinality(Counted \ T) + 1
    BY <1>3, <2>2, Finite, FS_AddElement
  <2>4. ClientsConnected' = ClientsConnected + 1 /\ seen' = seen /\ seen[d] \in Int
    BY <1>1, <1>3 DEF Add, TypeOK
  <2> QED
    BY <1>1, <2>1, <2>3, <2>4 DEF TypeOK
<1>7. MaxCoversSeen'
  BY <1>2 DEF IInv, MaxCoversSeen, Add
<1>8. UpToPeak'
  <2>1. peak \in Nat /\ peak' \in Nat /\ peak <= peak' /\ Cardinality(Counted') <= peak'
    BY <1>1, <1>4 DEF Add, TypeOK
  <2>2. \A d \in At({"compare"}) : seen[d] \in Int
    BY <1>1 DEF TypeOK, At
  <2>3. Raising \subseteq Conns /\ Cardinality(Raising) \in Nat /\ ClientsMax \in Nat
    BY <1>1, Finite DEF Raising, At, TypeOK
  <2>4. UNCHANGED <<ClientsMax, seen>>
    BY DEF Add
  <2>5. \A d \in At({"compare"})' : seen'[d] <= peak'
    BY <1>2, <2>1, <2>2, <2>4 DEF IInv, UpToPeak
  <2>6. (ClientsMax' = 0 /\ Raising' = {}) \/ ClientsMax' + Cardinality(Raising') < 2 * peak'
    BY <1>2, <2>1, <2>3, <2>4 DEF IInv, UpToPeak
  <2> QED
    BY <2>1, <2>5, <2>6 DEF UpToPeak
<1> QED
  BY <1>5, <1>6, <1>7, <1>8 DEF IInv

LEMMA LoadKeepsIInv ==
  ASSUME IInv, TypeOK', NEW c \in Conns, Load(c)
  PROVE  IInv'
<1>1. TypeOK /\ pc[c] = "load" /\ "compare" \in Labels /\ Goto(c, "compare")
  BY DEF IInv, Load, Labels
<1>2. /\ Counted' = Counted /\ c \in Counted /\ Raising' = Raising /\ Settled' = Settled
      /\ At({"compare"})' = At({"compare"}) \cup {c} /\ c \notin Settled
  BY <1>1 DEF Counted, Raising, Settled, At, Goto, TypeOK
<1>3. /\ Loaded' = Loaded \cup {c} /\ Loaded \subseteq Conns /\ Counted \subseteq Conns
      /\ c \notin Settled \ raised
  BY <1>1, <1>2 DEF Loaded, Load, At, Counted, Settled, TypeOK
<1>4. /\ ClientsConnected' = ClientsConnected /\ ClientsConnected \in Int
      /\ seen'[c] = ClientsConnected
      /\ \A d \in Conns \ {c} : seen'[d] = seen[d]
  BY <1>1 DEF Load, TypeOK
<1>5. ClientsConnected' <= Cardinality(Counted')
  BY <1>2, <1>4 DEF IInv
<1>6. LastCounted'
  <2> SUFFICES ASSUME NEW T \in SUBSET Loaded', T # {}
               PROVE \E d \in T : ClientsConnected' <= seen'[d] + Cardinality(Counted' \ T)
    BY DEF LastCounted
  <2>1. Cardinality(Counted \ T) \in Nat
    BY <1>3, Finite
  <2>2. CASE c \in T
    BY <1>2, <1>4, <2>1, <2>2
  <2>3. CASE c \notin T
    <3>1. T \in SUBSET Loaded
      BY <1>3, <2>3
    <3>2. PICK d \in T : ClientsConnected <= seen[d] + Cardinality(Counted \ T)
      BY <3>1 DEF IInv, LastCounted
    <3> QED
      BY <1>2, <1>3, <1>4, <2>3, <3>1, <3>2
  <2> QED
    BY <2>2, <2>3
<1>7. MaxCoversSeen'
  <2>1. UNCHANGED <<ClientsMax, raised>>
    BY DEF Load
  <2>2. \A d \in Settled \ raised : seen'[d] = seen[d]
    BY <1>3, <1>4 DEF Settled, At
  <2> QED
    BY <1>2, <2>1, <2>2 DEF IInv, MaxCoversSeen
<1>8. UpToPeak'
  <2>1. /\ UNCHANGED <<ClientsMax, peak>> /\ peak \in Nat
        /\ Cardinality(Counted) \in Nat
    BY <1>1, <1>3, Finite DEF Load, TypeOK
  <2>2. ClientsConnected <= peak
    BY <1>4, <2>1 DEF IInv, UpToPeak
  <2>3. \A d \in At({"compare"})' : seen'[d] <= peak'
    BY <1>2, <1>4, <2>1, <2>2 DEF IInv, UpToPeak, At
  <2> QED
    BY <1>2, <2>1, <2>3 DEF IInv, UpToPeak
<1> QED
  BY <1>5, <1>6, <1>7, <1>8 DEF IInv

LEMMA CompareKeepsIInv ==
  ASSUME IInv, TypeOK', NEW c \in Conns, Compare(c)
  PROVE  IInv'
<1>1. /\ TypeOK /\ pc[c] = "compare" /\ UNCHANGED <<ClientsConnected, ClientsMax, seen, raised, peak>>
      /\ "raise" \in Labels /\ "in" \in Labels
  BY DEF IInv, Compare, Labels
<1>2. /\ seen[c] \in Int /\ ClientsMax \in Nat /\ peak \in Nat /\ ClientsConnected \in Int
      /\ raised \subseteq Settled /\ c \notin Settled /\ c \in At({"compare"})
  BY <1>1 DEF TypeOK, Settled, At
<1>3. CASE seen[c] > ClientsMax
  <2>1. Goto(c, "raise")
    BY <1>3 DEF Compare
  <2>2. /\ Counted' = Counted /\ Raising' = Raising \cup {c} /\ c \notin Raising
        /\ Settled' = Settled /\ At({"compare"})' = At({"compare"}) \ {c} /\ c \in Counted
    BY <1>1, <2>1 DEF Counted, Raising, Settled, At, Goto, TypeOK
  <2>3. Loaded' \subseteq Loaded /\ Raising \subseteq Counted /\ Counted \subseteq Conns
    BY <1>1, <2>2 DEF Loaded, Raising, Counted, At
  <2>4. LastCounted'
    BY <1>1, <2>2, <2>3 DEF IInv, LastCounted
  <2>5. MaxCoversSeen'
    BY <1>1, <2>2 DEF IInv, MaxCoversSeen
  <2>6. UpToPeak'
    <3>1. /\ Cardinality(Raising') \in Nat /\ Cardinality(Counted) \in Nat
          /\ Cardinality(Raising') <= Cardinality(Counted)
      <4>1. Raising' \in SUBSET Counted
        BY <2>2, <2>3
      <4> QED
        BY <2>3, <4>1, Finite, FS_Subset
    <3>2. seen[c] <= peak /\ Cardinality(Counted) <= peak
      BY <1>2 DEF IInv, UpToPeak
    <3>3. ClientsMax + Cardinality(Raising') < 2 * peak
      BY <1>2, <1>3, <3>1, <3>2
    <3> QED
      BY <1>1, <2>2, <3>3 DEF IInv, UpToPeak
  <2> QED
    BY <1>1, <2>2, <2>4, <2>5, <2>6 DEF IInv
<1>4. CASE ~ (seen[c] > ClientsMax)
  <2>1. Goto(c, "in")
    BY <1>4 DEF Compare
  <2>2. /\ Counted' = Counted /\ Raising' = Raising /\ Settled' = Settled \cup {c}
        /\ At({"compare"})' = At({"compare"}) \ {c}
    BY <1>1, <2>1 DEF Counted, Raising, Settled, At, Goto, TypeOK
  <2>3. Loaded' = Loaded
    BY <1>1, <1>2, <2>2 DEF Loaded
  <2>4. LastCounted'
    BY <1>1, <2>2, <2>3 DEF IInv, LastCounted
  <2>5. MaxCoversSeen'
    BY <1>1, <1>2, <1>4, <2>2 DEF IInv, MaxCoversSeen
  <2>6. UpToPeak'
    BY <1>1, <2>2 DEF IInv, UpToPeak
  <2> QED
    BY <1>1, <2>2, <2>4, <2>5, <2>6 DEF IInv
<1> QED
  BY <1>3, <1>4

LEMMA RaiseKeepsIInv ==
  ASSUME IInv, TypeOK', NEW c \in Conns, Raise(c)
  PROVE  IInv'
<1>1. /\ TypeOK /\ pc[c] = "raise" /\ "in" \in Labels /\ Goto(c, "in")
      /\ UNCHANGED <<ClientsConnected, seen, peak>>
      /\ ClientsMax' = ClientsMax + 1 /\ raised' = raised \cup {c}
  BY DEF IInv, Raise, Labels
<1>2. /\ Counted' = Counted /\ Raising' = Raising \ {c} /\ c \in Raising
      /\ Settled' = Settled \cup {c} /\ c \notin Settled
      /\ At({"compare"})' = At({"compare"})
  BY <1>1 DEF Counted, Raising, Settled, At, Goto, TypeOK
<1>3. /\ raised \subseteq Settled /\ Settled \subseteq Conns /\ Raising \subseteq Conns
      /\ ClientsMax \in Nat /\ peak \in Nat
  BY <1>1 DEF TypeOK, Settled, Raising, At
<1>4. Loaded' = Loaded
  BY <1>1, <1>2, <1>3 DEF Loaded
<1>5. LastCounted'
  BY <1>1, <1>2, <1>4 DEF IInv, LastCounted
<1>6. MaxCoversSeen'
  <2>1. /\ Cardinality(raised) \in Nat
        /\ Cardinality(raised') = Cardinality(raised) + 1
    <3>1. raised \in SUBSET Conns /\ c \notin raised
      BY <1>2, <1>3
    <3> QED
      BY <1>1, <3>1, Finite, FS_AddElement
  <2>2. Settled' \ raised' = Settled \ raised
    BY <1>1, <1>2, <1>3
  <2>3. \A d \in Settled \ raised : seen[d] \in Int
    BY <1>1, <1>3 DEF TypeOK
  <2> QED
    BY <1>1, <1>3, <2>1, <2>2, <2>3 DEF IInv, MaxCoversSeen
<1>7. UpToPeak'
  <2>1. /\ Cardinality(Raising) \in Nat
        /\ Cardinality(Raising') = Cardinality(Raising) - 1
    BY <1>2, <1>3, Finite, FS_RemoveElement
  <2>2. ClientsMax' + Cardinality(Raising') < 2 * peak
    BY <1>1, <1>2, <1>3, <2>1 DEF IInv, UpToPeak
  <2> QED
    BY <1>1, <1>2, <2>2 DEF IInv, UpToPeak
<1> QED
  BY <1>1, <1>2, <1>5, <1>6, <1>7 DEF IInv

LEMMA LeaveKeepsIInv ==
  ASSUME IInv, TypeOK', NEW c \in Conns, Leave(c)
  PROVE  IInv'
<1>1. /\ TypeOK /\ pc[c] = "in" /\ "out" \in Labels /\ Goto(c, "out")
      /\ UNCHANGED <<ClientsMax, seen, peak>>
      /\ ClientsConnected' = ClientsConnected - 1 /\ raised' = raised \ {c}
  BY DEF IInv, Leave, Labels
<1>2. /\ Counted' = Counted \ {c} /\ c \in Counted /\ Raising' = Raising
      /\ Settled' = Settled \ {c} /\ At({"compare"})' = At({"compare"})
      /\ c \notin At({"compare"})
  BY <1>1 DEF Counted, Raising, Settled, At, Goto, TypeOK
<1>3. /\ Loaded' = Loaded \ {c} /\ Loaded \subseteq Conns /\ Counted \subseteq Conns
      /\ raised \subseteq Conns /\ ClientsMax \in Nat /\ peak \in Nat /\ ClientsConnected \in Int
  BY <1>1, <1>2 DEF Loaded, At, Counted, Settled, TypeOK
<1>4. Cardinality(Counted) \in Nat /\ Cardinality(Counted') = Cardinality(Counted) - 1
  BY <1>2, <1>3, Finite, FS_RemoveElement
<1>5. LastCounted'
  <2> SUFFICES ASSUME NEW T \in SUBSET Loaded', T # {}
               PROVE \E d \in T : ClientsConnected' <= seen'[d] + Cardinality(Counted' \ T)
    BY DEF LastCounted
  <2>1. T \in SUBSET Loaded /\ c \notin T
    BY <1>3
  <2>2. PICK d \in T : ClientsConnected <= seen[d] + Cardinality(Counted \ T)
    BY <2>1 DEF IInv, LastCounted
  <2>3. Counted' \ T = (Counted \ T) \ {c} /\ c \in Counted \ T
    BY <1>2, <2>1
  <2>4. /\ Cardinality(Counted \ T) \in Nat
        /\ Cardinality(Counted' \ T) = Cardinality(Counted \ T) - 1
    <3> DEFINE S == Counted \ T
    <3>1. IsFiniteSet(S) /\ Cardinality(S) \in Nat
      BY <1>3, Finite
    <3>2. c \in S /\ Counted' \ T = S \ {c}
      BY <2>3
    <3> HIDE DEF S
    <3>3. Cardinality(S \ {c}) = Cardinality(S) - 1
      BY <3>1, <3>2, FS_RemoveElement
    <3> QED
      BY <3>1, <3>2, <3>3 DEF S
  <2>5. seen[d] \in Int
    BY <1>1, <1>3, <2>1 DEF TypeOK
  <2> QED
    BY <1>1, <1>3, <2>2, <2>4, <2>5
<1>6. MaxCoversSeen'
  <2>1. /\ Cardinality(raised) \in Nat /\ Cardinality(raised') \in Nat
        /\ Cardinality(raised') <= Cardinality(raised)
    <3>1. raised' \in SUBSET raised
      BY <1>1
    <3> QED
      BY <1>3, <3>1, Finite, FS_Subset
  <2>2. Settled' \ raised' \subseteq Settled \ raised
    BY <1>1, <1>2
  <2>3. Cardinality(raised') <= ClientsMax
    BY <1>3, <2>1 DEF IInv, MaxCoversSeen
  <2> QED
    BY <1>1, <2>2, <2>3 DEF IInv, MaxCoversSeen
<1>7. UpToPeak'
  <2>1. Cardinality(Counted') <= peak
    BY <1>3, <1>4 DEF IInv, UpToPeak
  <2> QED
    BY <1>1, <1>2, <2>1 DEF IInv, UpToPeak
<1>8. ClientsConnected' <= Cardinality(Counted')
  BY <1>1, <1>3, <1>4 DEF IInv
<1> QED
  BY <1>5, <1>6, <1>7, <1>8 DEF IInv

LEMMA LeaveUncountedKeepsIInv ==
  ASSUME IInv, TypeOK', NEW c \in Conns, LeaveUncounted(c)
  PROVE  IInv'
<1>1. /\ TypeOK /\ pc[c] = "out" /\ "gone" \in Labels /\ Goto(c, "gone")
      /\ UNCHANGED <<ClientsMax, seen, raised, peak>>
      /\ ClientsConnected' = ClientsConnected - 1
  BY DEF IInv, LeaveUncounted, Labels
<1>2. /\ Counted' = Counted /\ Raising' = Raising /\ Settled' = Settled
      /\ At({"compare"})' = At({"compare"})
  BY <1>1 DEF Counted, Raising, Settled, At, Goto, TypeOK
<1>3. /\ Loaded' = Loaded /\ Loaded \subseteq Conns /\ Counted \subseteq Conns
      /\ ClientsConnected \in Int
  BY <1>1, <1>2 DEF Loaded, At, Counted, Settled, TypeOK
<1>4. LastCounted'
  <2> SUFFICES ASSUME NEW T \in SUBSET Loaded, T # {}
               PROVE \E d \in T : ClientsConnected' <= seen'[d] + Cardinality(Counted' \ T)
    BY <1>3 DEF LastCounted
  <2>1. PICK d \in T : ClientsConnected <= seen[d] + Cardinality(Counted \ T)
    BY DEF IInv, LastCounted
  <2>2. Cardinality(Counted \ T) \in Nat /\ seen[d] \in Int
    BY <1>1, <1>3, Finite DEF TypeOK
  <2> QED
    BY <1>1, <1>2, <1>3, <2>1, <2>2
<1>5. MaxCoversSeen' /\ UpToPeak'
  BY <1>1, <1>2 DEF IInv, MaxCoversSeen, UpToPeak
<1>6. ClientsConnected' <= Cardinality(Counted')
  <2>1. Cardinality(Counted) \in Nat
    BY <1>3, Finite
  <2> QED
    BY <1>1, <1>2, <1>3, <2>1 DEF IInv
<1> QED
  BY <1>4, <1>5, <1>6 DEF IInv

LEMMA StayCountedKeepsIInv ==
  ASSUME IInv, TypeOK', NEW c \in Conns, StayCounted(c)
  PROVE  IInv'
<1>1. /\ TypeOK /\ pc[c] = "in" /\ "stale" \in Labels /\ Goto(c, "stale")
      /\ UNCHANGED <<ClientsConnected, ClientsMax, seen, raised, peak>>
  BY DEF IInv, StayCounted, Labels
<1>2. /\ Counted' = Counted /\ Raising' = Raising /\ Settled' = Settled
      /\ At({"compare"})' = At({"compare"})
  BY <1>1 DEF Counted, Raising, Settled, At, Goto, TypeOK
<1>3. Loaded' = Loaded
  BY <1>1, <1>2 DEF Loaded
<1> QED
  BY <1>1, <1>2, <1>3 DEF IInv, LastCounted, MaxCoversSeen, UpToPeak

LEMMA NextIInv == IInv /\ [Next]_vars => IInv'
<1> SUFFICES ASSUME IInv, [Next]_vars PROVE IInv'
  OBVIOUS
<1>1. TypeOK'
  BY NextTypeOK DEF IInv
<1>2. CASE UNCHANGED vars
  BY <1>2 DEF vars, IInv, TypeOK, LastCounted, MaxCoversSeen, UpToPeak, Loaded, Settled,
              Raising, Counted, At
<1> QED
  BY <1>1, <1>2, AddKeepsIInv, LoadKeepsIInv, CompareKeepsIInv, RaiseKeepsIInv,
     LeaveKeepsIInv, LeaveUncountedKeepsIInv, StayCountedKeepsIInv DEF Next

\* The maximum covers half of the clients, but for those in ProcessConnect.
LEMMA HalfCovered ==
  ASSUME IInv
  PROVE  /\ ClientsConnected \in Int /\ ClientsMax \in Nat /\ Cardinality(Pending) \in Nat
         /\ ClientsConnected <= 2 * ClientsMax + Cardinality(Pending)
<1>1. /\ TypeOK /\ ClientsConnected \in Int /\ ClientsMax \in Nat
      /\ raised \subseteq Settled /\ Settled \subseteq Conns /\ Pending \subseteq Conns
      /\ Counted = Pending \cup Settled /\ Pending \cap Settled = {}
  BY DEF IInv, TypeOK, Settled, Pending, Counted, At
<1>2. IsFiniteSet(Pending) /\ Cardinality(Pending) \in Nat
  BY <1>1, Finite
<1>3. IsFiniteSet(raised) /\ Cardinality(raised) \in Nat /\ Cardinality(raised) <= ClientsMax
  BY <1>1, Finite DEF IInv, MaxCoversSeen
<1>4. Cardinality(Pending \cup raised) = Cardinality(Pending) + Cardinality(raised)
  <2>1. Pending \cap raised = {}
    BY <1>1
  <2>2. Cardinality(Pending \cap raised) = 0
    BY <2>1, FS_EmptySet
  <2>3. Cardinality(Pending \cup raised)
          = Cardinality(Pending) + Cardinality(raised) - Cardinality(Pending \cap raised)
    BY <1>2, <1>3, FS_Union
  <2> QED
    BY <1>2, <1>3, <2>2, <2>3
<1> DEFINE T == Settled \ raised
<1>5. Counted \ T = Pending \cup raised
  BY <1>1
<1>6. CASE T = {}
  <2>1. Counted = Pending \cup raised
    BY <1>5, <1>6
  <2>2. Cardinality(Counted) = Cardinality(Pending) + Cardinality(raised)
    BY <1>4, <2>1
  <2>3. ClientsConnected <= Cardinality(Counted)
    BY DEF IInv
  <2> QED
    BY <1>1, <1>2, <1>3, <2>2, <2>3
<1>7. CASE T # {}
  <2>1. T \in SUBSET Loaded
    BY DEF Loaded
  <2>2. PICK c \in T : ClientsConnected <= seen[c] + Cardinality(Counted \ T)
    BY <1>7, <2>1 DEF IInv, LastCounted
  <2>3. seen[c] <= ClientsMax /\ seen[c] \in Int
    BY <1>1 DEF IInv, MaxCoversSeen, TypeOK
  <2>4. Cardinality(Counted \ T) = Cardinality(Pending) + Cardinality(raised)
    BY <1>4, <1>5
  <2> HIDE DEF T
  <2> QED
    BY <1>1, <1>2, <1>3, <2>2, <2>3, <2>4
<1> QED
  BY <1>1, <1>2, <1>6, <1>7

(***************************************************************************)
(* The counters keep their types (processor.go:266-271, 217).              *)
(***************************************************************************)
THEOREM TypeCorrect == Spec => []TypeOK
<1>1. Init => TypeOK
  BY InitIInv DEF IInv
<1> QED
  BY <1>1, NextTypeOK, PTL DEF Spec

(***************************************************************************)
(* However the loads of ProcessConnect (processor.go:266-271) interleave,  *)
(* ClientsMax is at least half of the clients connected when none is       *)
(* connecting, and less than twice the most there have been at a time.     *)
(***************************************************************************)
THEOREM MaxWithinTwo == Spec => [](MaxCoversHalf /\ MaxBelowTwicePeak)
<1>1. IInv => MaxCoversHalf /\ MaxBelowTwicePeak
  <2> SUFFICES ASSUME IInv PROVE MaxCoversHalf /\ MaxBelowTwicePeak
    OBVIOUS
  <2>1. MaxCoversHalf
    BY HalfCovered, FS_EmptySet DEF MaxCoversHalf
  <2>2. Cardinality(Raising) \in Nat /\ ClientsMax \in Nat /\ peak \in Nat
    BY Finite DEF Raising, At, IInv, TypeOK
  <2>3. MaxBelowTwicePeak
    BY <2>2 DEF MaxBelowTwicePeak, IInv, UpToPeak
  <2> QED
    BY <2>1, <2>3
<1> QED
  BY <1>1, InitIInv, NextIInv, PTL DEF Spec

-----------------------------------------------------------------------------
(* The state loop                                                          *)

Numbers == {"connected", "active", "maximum", "connecting"}

\* What is loaded is covered by the maximum as it is now, and once this has
\* been loaded as well, by what was loaded.
Covered ==
  /\ topics \in [Numbers -> Int]
  /\ at \in {-1, 0, 1, 2, 3}
  /\ at \in {1, 2} => topics.connected <= 2 * ClientsMax + topics.connecting
  /\ at = 2 => topics.active <= 2 * ClientsMax + topics.connecting
  /\ ReportCovers

LoopInv == IInv /\ Covered

LEMMA InitLoopInv == LoopInit => LoopInv
  BY InitIInv DEF LoopInit, LoopInv, Covered, Numbers, ReportCovers, NoTopics, Waiting

\* The maximum never goes down.
LEMMA MaximumGrows == TypeOK /\ Next => ClientsMax' \in Int /\ ClientsMax <= ClientsMax'
  BY DEF TypeOK, Next, Add, Load, Compare, Raise, Leave, LeaveUncounted, StayCounted

\* A step of a connection changes nothing the loop has loaded.
LEMMA ClientKeepsLoopInv == LoopInv /\ Next /\ UNCHANGED loopVars => LoopInv'
<1> SUFFICES ASSUME LoopInv, Next, UNCHANGED loopVars PROVE LoopInv'
  OBVIOUS
<1>1. IInv'
  BY NextIInv DEF LoopInv
<1>2. ClientsMax \in Int /\ ClientsMax' \in Int /\ ClientsMax <= ClientsMax'
  BY MaximumGrows DEF LoopInv, IInv, TypeOK
<1>3. \A f \in Numbers : topics[f] \in Int
  BY DEF LoopInv, Covered
<1>4. UNCHANGED <<at, topics>>
  BY DEF loopVars
<1>5. Covered'
  BY <1>2, <1>3, <1>4 DEF LoopInv, Covered, Numbers, ReportCovers
<1> QED
  BY <1>1, <1>5 DEF LoopInv

\* A step of the state loop changes nothing of the connections.
LEMMA LoopKeepsLoopInv == LoopInv /\ PublishStep => LoopInv'
<1> SUFFICES ASSUME LoopInv, PublishStep PROVE LoopInv'
  OBVIOUS
<1>1. UNCHANGED vars
  BY DEF PublishStep, TickerFires, ReadCounter, PublishState
<1>2. IInv'
  BY <1>1, NextIInv DEF LoopInv
<1>3. /\ ClientsConnected \in Int /\ ClientsMax \in Int /\ Cardinality(Pending) \in Nat
      /\ ClientsConnected <= 2 * ClientsMax + Cardinality(Pending)
  BY HalfCovered DEF LoopInv
<1>4. UNCHANGED <<ClientsConnected, ClientsMax>>
  BY <1>1 DEF vars
<1>5. CASE TickerFires \/ PublishState
  <2>1. Covered'
    BY <1>5 DEF LoopInv, Covered, Numbers, ReportCovers, TickerFires, PublishState, NoTopics, Waiting
  <2> QED
    BY <1>2, <2>1 DEF LoopInv
<1>6. CASE ReadCounter
  <2> DEFINE now == Cardinality(Pending)
             most == IF now > topics.connecting THEN now ELSE topics.connecting
  <2>1. /\ topics \in [Numbers -> Int]
        /\ most \in Int /\ now <= most /\ topics.connecting <= most
    BY <1>3 DEF LoopInv, Covered, Numbers
  <2>2. at \in {0, 1, 2} /\ at' = at + 1
    <3>1. at \in 0..2 /\ at' = at + 1
      BY <1>6 DEF ReadCounter
    <3> QED
      BY <3>1
  <2>3. topics' = [topics EXCEPT ![Order[at + 1]] = Counter(Order[at + 1]),
                                 !.connecting = IF now > @ THEN now ELSE @]
    BY <1>6 DEF ReadCounter
  <2>4. ASSUME NEW field \in {"connected", "active", "maximum"}, Order[at + 1] = field
        PROVE topics' = [topics EXCEPT ![field] = Counter(field), !.connecting = most]
    BY <2>1, <2>3, <2>4 DEF Numbers
  <2> HIDE DEF now, most
  <2>5. now = Cardinality(Pending)
    BY DEF now
  <2>6. Covered'
    <3>1. CASE at = 0
      <4>1. Order[at + 1] = "connected" /\ Counter("connected") = ClientsConnected
        BY <3>1 DEF Order, Counter
      <4>2. topics' = [topics EXCEPT !["connected"] = ClientsConnected, !.connecting = most]
        BY <2>4, <4>1
      <4>3. /\ topics' \in [Numbers -> Int]
            /\ topics'.connected = ClientsConnected /\ topics'.connecting = most
            /\ topics'.active = topics.active /\ topics'.maximum = topics.maximum
        BY <1>3, <2>1, <4>2 DEF Numbers
      <4>4. \A f \in Numbers : topics[f] \in Int
        BY <2>1 DEF Numbers
      <4> QED
        BY <1>3, <1>4, <2>1, <2>2, <2>5, <3>1, <4>3, <4>4
        DEF LoopInv, Covered, ReportCovers, Numbers
    <3>2. CASE at = 1
      <4>1. Order[at + 1] = "active" /\ Counter("active") = ClientsConnected
        BY <3>2 DEF Order, Counter
      <4>2. topics' = [topics EXCEPT !["active"] = ClientsConnected, !.connecting = most]
        BY <2>4, <4>1
      <4>3. /\ topics' \in [Numbers -> Int]
            /\ topics'.active = ClientsConnected /\ topics'.connecting = most
            /\ topics'.connected = topics.connected /\ topics'.maximum = topics.maximum
        BY <1>3, <2>1, <4>2 DEF Numbers
      <4>4. \A f \in Numbers : topics[f] \in Int
        BY <2>1 DEF Numbers
      <4> QED
        BY <1>3, <1>4, <2>1, <2>2, <2>5, <3>2, <4>3, <4>4
        DEF LoopInv, Covered, ReportCovers, Numbers
    <3>3. CASE at = 2
      <4>1. Order[at + 1] = "maximum" /\ Counter("maximum") = ClientsMax
        BY <3>3 DEF Order, Counter
      <4>2. topics' = [topics EXCEPT !["maximum"] = ClientsMax, !.connecting = most]
        BY <2>4, <4>1
      <4>3. /\ topics' \in [Numbers -> Int]
            /\ topics'.maximum = ClientsMax /\ topics'.connecting = most
            /\ topics'.connected = topics.connected /\ topics'.active = topics.active
        BY <1>3, <2>1, <4>2 DEF Numbers
      <4>4. \A f \in Numbers : topics[f] \in Int
        BY <2>1 DEF Numbers
      <4> QED
        BY <1>3, <1>4, <2>1, <2>2, <2>5, <3>3, <4>3, <4>4
        DEF LoopInv, Covered, ReportCovers, Numbers
    <3> QED
      BY <2>2, <3>1, <3>2, <3>3
  <2> QED
    BY <1>2, <2>6 DEF LoopInv
<1> QED
  BY <1>5, <1>6 DEF PublishStep

(***************************************************************************)
(* Whoever comes or leaves between the loads of publishState               *)
(* (broker.go:83-87), half of what it reports is covered by the maximum it *)
(* reports, but for the clients that were connecting meanwhile, and        *)
(* ClientsMax stays within the factor two for the counters themselves.     *)
(***************************************************************************)
THEOREM ReportsAreCovered ==
  LoopSpec => [](ReportCovers /\ MaxCoversHalf /\ MaxBelowTwicePeak)
<1>1. LoopInv => ReportCovers /\ MaxCoversHalf /\ MaxBelowTwicePeak
  <2> SUFFICES ASSUME LoopInv PROVE ReportCovers /\ MaxCoversHalf /\ MaxBelowTwicePeak
    OBVIOUS
  <2>1. IInv /\ ReportCovers
    BY DEF LoopInv, Covered
  <2>2. MaxCoversHalf
    BY <2>1, HalfCovered, FS_EmptySet DEF MaxCoversHalf
  <2>3. Cardinality(Raising) \in Nat /\ ClientsMax \in Nat /\ peak \in Nat
    BY <2>1, Finite DEF Raising, At, IInv, TypeOK
  <2>4. MaxBelowTwicePeak
    BY <2>1, <2>3 DEF MaxBelowTwicePeak, IInv, UpToPeak
  <2> QED
    BY <2>1, <2>2, <2>4
<1>2. LoopInv /\ [LoopNext]_allVars => LoopInv'
  <2> SUFFICES ASSUME LoopInv, [LoopNext]_allVars PROVE LoopInv'
    OBVIOUS
  <2>1. CASE Next /\ UNCHANGED loopVars
    BY <2>1, ClientKeepsLoopInv
  <2>2. CASE PublishStep
    BY <2>2, LoopKeepsLoopInv
  <2>3. CASE UNCHANGED allVars
    <3>1. IInv'
      BY <2>3, NextIInv DEF LoopInv, allVars
    <3>2. Covered'
      BY <2>3 DEF LoopInv, Covered, ReportCovers, allVars, vars, loopVars
    <3> QED
      BY <3>1, <3>2 DEF LoopInv
  <2> QED
    BY <2>1, <2>2, <2>3 DEF LoopNext
<1> QED
  BY <1>1, <1>2, InitLoopInv, PTL DEF LoopSpec

-----------------------------------------------------------------------------
(* The settings                                                            *)

Wired == Settings \ Miswired

\* A flag that is bound to a setting which is not miswired takes its default
\* from there, and is the one flag that is meant for it.
LEMMA Wiring ==
  /\ Len(Registrations) \in Nat /\ DOMAIN Registrations = 1 .. Len(Registrations)
  /\ \A r \in DOMAIN Registrations :
       /\ Registrations[r].sets \in Settings /\ Registrations[r].default \in Settings
       /\ Registrations[r].sets \in Wired => Registrations[r].default = Registrations[r].sets
  /\ \A name \in Names, s \in Wired :
       (\E r \in DOMAIN Registrations : Registrations[r].name = name /\ Registrations[r].sets = s)
         <=> Meant[name] = s
<1> DEFINE R == Registrations
<1>1. /\ Len(R) = 18 /\ DOMAIN R = 1 .. 18
      /\ R[1] = Plain("port", "TcpPort") /\ R[2] = Plain("host", "TcpHost")
      /\ R[3] = Flag("tls", "TcpTls", "ClusterTls") /\ R[4] = Plain("ca", "Ca")
      /\ R[5] = Plain("certfile", "CertFile") /\ R[6] = Plain("keyfile", "KeyFile")
      /\ R[7] = Plain("cp", "ClusterPort") /\ R[8] = Plain("ch", "ClusterHost")
      /\ R[9] = Plain("cluster-tls", "ClusterTls")
      /\ R[10] = Plain("client-certfile", "ClientCertFile")
      /\ R[11] = Plain("client-keyfile", "ClientKeyFile")
      /\ R[12] = Plain("cluster", "IsCluster") /\ R[13] = Plain("name", "ClusterName")
      /\ R[14] = Plain("ws", "Websocket") /\ R[15] = Flag("ws-tls", "Websocket", "WsTls")
      /\ R[16] = Plain("ws-path", "WsPath") /\ R[17] = Plain("ws-port", "WsPort")
      /\ R[18] = Plain("ws-host", "WsHost")
  BY DEF Registrations
<1> HIDE DEF R
<1> USE DEF Flag, Plain
<1>2. \A r \in 1 .. 18 : r \in {1, 2, 3, 4, 5, 6, 7, 8, 9, 10, 11, 12, 13, 14, 15, 16, 17, 18}
  OBVIOUS
<1>3. \A r \in 1 .. 18 :
        /\ R[r].sets # "none"
        /\ R[r].default \in {R[r].sets, "ClusterTls", "WsTls"}
        /\ R[r].default # R[r].sets => R[r].sets \in {"TcpTls", "Websocket"}
        /\ R[r].name \notin {"c", "clusters"}
        /\ R[r].name = "ws-tls" => R[r].sets = "Websocket"
  <2> SUFFICES ASSUME NEW r \in 1 .. 18
               PROVE  /\ R[r].sets # "none"
                      /\ R[r].default \in {R[r].sets, "ClusterTls", "WsTls"}
                      /\ R[r].default # R[r].sets => R[r].sets \in {"TcpTls", "Websocket"}
                      /\ R[r].name \notin {"c", "clusters"}
                      /\ R[r].name = "ws-tls" => R[r].sets = "Websocket"
    OBVIOUS
  <2>1. CASE r \in {3, 15}
    BY <1>1, <2>1
  <2>2. CASE r \notin {3, 15}
    <3>1. R[r].default = R[r].sets
      BY <1>1, <1>2, <2>2
    <3>2. R[r].sets # "none"
      BY <1>1, <1>2, <2>2
    <3>3. R[r].name \notin {"c", "clusters"} /\ R[r].name # "ws-tls"
      BY <1>1, <1>2, <2>2
    <3> QED
      BY <3>1, <3>2, <3>3
  <2> QED
    BY <2>1, <2>2
<1>4. \A q, r \in 1 .. 18 : R[q].name = R[r].name => q = r
  BY <1>1, <1>2
<1>5. /\ Bound = {R[k].sets : k \in 1 .. 18}
      /\ Settings = Bound \cup {"Debug", "WsTls", "Clusters"}
      /\ Names = {R[r].name : r \in 1 .. 18} \cup {"c", "clusters"}
  BY <1>1 DEF R, Bound, Settings, Names
<1>6. \A r \in 1 .. 18 : R[r].sets \in Settings /\ R[r].default \in Settings
  <2>1. R[9].sets = "ClusterTls"
    BY <1>1
  <2> QED
    BY <1>3, <1>5, <2>1
<1>7. \A r \in 1 .. 18 : R[r].sets \in Wired => R[r].default = R[r].sets
  BY <1>3 DEF Wired, Miswired
<1>8. Wired \cap {"none", "WsTls", "Clusters", "Websocket"} = {}
  BY <1>3, <1>5 DEF Wired, Miswired
<1>9. ASSUME NEW r \in 1 .. 18, R[r].name # "ws-tls"
      PROVE  Meant[R[r].name] = R[r].sets
  <2>1. R[r].name \in Names
    BY <1>5
  <2>2. Meant[R[r].name] = (CHOOSE q \in {R[k] : k \in DOMAIN R} : q.name = R[r].name).sets
    BY <1>3, <1>9, <2>1 DEF Meant, R
  <2> DEFINE q == CHOOSE q \in {R[k] : k \in DOMAIN R} : q.name = R[r].name
  <2>3. q \in {R[k] : k \in DOMAIN R} /\ q.name = R[r].name
    <3>1. R[r] \in {R[k] : k \in DOMAIN R}
      BY <1>1
    <3> QED
      BY <3>1
  <2>4. q = R[r]
    <3> HIDE DEF q
    <3>1. DOMAIN R = 1 .. 18
      BY <1>1
    <3> QED
      BY <1>4, <2>3, <3>1
  <2> QED
    BY <2>2, <2>4
<1>10. /\ Meant["ws-tls"] = "WsTls" /\ Meant["clusters"] = "Clusters" /\ Meant["c"] = "none"
  <2>1. R[15].name = "ws-tls"
    BY <1>1
  <2>2. "ws-tls" \in Names /\ "clusters" \in Names /\ "c" \in Names
    BY <1>5, <2>1
  <2> QED
    BY <2>2 DEF Meant
<1>11. ASSUME NEW name \in Names, NEW s \in Wired
       PROVE  (\E r \in 1 .. 18 : R[r].name = name /\ R[r].sets = s) <=> Meant[name] = s
  <2>1. ASSUME NEW r \in 1 .. 18, R[r].name = name, R[r].sets = s PROVE Meant[name] = s
    BY <1>3, <1>8, <1>9, <2>1
  <2>2. ASSUME Meant[name] = s PROVE \E r \in 1 .. 18 : R[r].name = name /\ R[r].sets = s
    <3>1. name \notin {"ws-tls", "clusters", "c"}
      BY <1>8, <1>10, <2>2
    <3>2. PICK r \in 1 .. 18 : R[r].name = name
      BY <1>5, <3>1
    <3> QED
      BY <1>9, <2>2, <3>1, <3>2
  <2> QED
    BY <2>1, <2>2
<1> QED
  BY <1>1, <1>6, <1>7, <1>11 DEF R

\* A setting that no file has: conf.toml's, or that of the last flag for it.
FromLastFlag(s) ==
  \/ Given(s) = {} /\ cfg[s] = From("conf.toml", s)
  \/ \E a \in Given(s) : (\A b \in Given(s) : b <= a) /\ cfg[s] = From("flag", args[a])

\* -clusters is read before it is there, the file is decoded over the flags,
\* and a flag assigns the setting it is meant for or a miswired one.
ConfigureInv ==
  /\ stage \in {"register", "parse", "decode", "clusters", "exit", "done"}
  /\ cfg = [s \in Settings |-> cfg[s]]
  /\ registered \in Nat
  /\ args \in Seq(Names)
  /\ stage = "register" => args = <<>> /\ flagged = Unset
  /\ stage \in {"register", "parse", "decode"} => file = {}
  /\ clusters = Unset
  /\ \A s \in Settings : s \in file => cfg[s] = From("file", s)
  /\ \A s \in Wired : s \notin file => FromLastFlag(s)

\* Who is given does not change with the flags.
LEMMA GivenStays ==
  ASSUME UNCHANGED args, NEW s
  PROVE  Given(s)' = Given(s)
BY DEF Given

LEMMA InitConfigureInv == ConfigureInit => ConfigureInv
<1> SUFFICES ASSUME ConfigureInit PROVE ConfigureInv
  OBVIOUS
<1>1. ASSUME NEW s \in Wired PROVE FromLastFlag(s)
  <2>1. Given(s) = {} /\ s \in Settings
    BY DEF Given, ConfigureInit, Wired
  <2> QED
    BY <2>1 DEF FromLastFlag, ConfigureInit
<1>2. args \in Seq(Names)
  BY DEF ConfigureInit
<1> QED
  BY <1>1, <1>2 DEF ConfigureInit, ConfigureInv

\* One more flag is the last one for the setting it is meant for.
LEMMA OneMoreGiven ==
  ASSUME args \in Seq(Names), NEW name \in Names, args' = Append(args, name), NEW s
  PROVE  /\ Given(s)' = IF Meant[name] = s THEN Given(s) \cup {Len(args) + 1} ELSE Given(s)
         /\ \A a \in Given(s) : a \in 1 .. Len(args) /\ args'[a] = args[a]
         /\ args'[Len(args) + 1] = name /\ Len(args) \in Nat
<1> DEFINE n == Len(args)
<1>1. /\ n \in Nat /\ DOMAIN args = 1 .. n /\ DOMAIN args' = 1 .. n + 1
      /\ args'[n + 1] = name /\ \A a \in 1 .. n : args'[a] = args[a]
  BY AppendProperties, LenProperties
<1> HIDE DEF n
<1>2. Given(s) = {a \in 1 .. n : Meant[args[a]] = s}
  BY <1>1 DEF Given
<1>3. Given(s)' = {a \in 1 .. n + 1 : Meant[args'[a]] = s}
  BY <1>1 DEF Given
<1>4. ASSUME NEW a
      PROVE  a \in Given(s)' <=> a \in Given(s) \/ (a = n + 1 /\ Meant[name] = s)
  <2>1. CASE a = n + 1
    BY <1>1, <1>2, <1>3, <2>1
  <2>2. CASE a # n + 1
    <3>1. a \in 1 .. n + 1 <=> a \in 1 .. n
      BY <1>1, <2>2
    <3> QED
      BY <1>1, <1>2, <1>3, <2>2, <3>1
  <2> QED
    BY <2>1, <2>2
<1>5. Given(s)' = IF Meant[name] = s THEN Given(s) \cup {n + 1} ELSE Given(s)
  BY <1>4
<1> QED
  BY <1>1, <1>2, <1>5 DEF n

LEMMA ParseKeepsConfigureInv ==
  ASSUME ConfigureInv, NEW name \in Names, Parse(name)
  PROVE  ConfigureInv'
<1>1. /\ stage = "parse" /\ file = {} /\ args \in Seq(Names) /\ args' = Append(args, name)
      /\ UNCHANGED <<stage, registered, clusters, file>>
  BY DEF ConfigureInv, Parse
<1>2. ASSUME NEW s \in Wired PROVE FromLastFlag(s)'
  <2>1. s \in Settings /\ FromLastFlag(s)
    BY <1>1 DEF Wired, ConfigureInv
  <2>2. cfg'[s] = IF Meant[name] = s THEN From("flag", name) ELSE cfg[s]
    <3>1. cfg'[s] = IF \E r \in DOMAIN Registrations :
                          Registrations[r].name = name /\ Registrations[r].sets = s
                    THEN From("flag", name) ELSE cfg[s]
      BY <2>1 DEF Parse
    <3> QED
      BY <3>1, Wiring
  <2>3. /\ Given(s)' = IF Meant[name] = s THEN Given(s) \cup {Len(args) + 1} ELSE Given(s)
        /\ \A a \in Given(s) : a \in 1 .. Len(args) /\ args'[a] = args[a]
        /\ args'[Len(args) + 1] = name /\ Len(args) \in Nat
    BY <1>1, OneMoreGiven
  <2>4. CASE Meant[name] = s
    <3>1. \A b \in Given(s)' : b <= Len(args) + 1
      BY <2>3, <2>4
    <3> QED
      BY <2>2, <2>3, <2>4, <3>1 DEF FromLastFlag
  <2>5. CASE Meant[name] # s
    BY <2>1, <2>2, <2>3, <2>5 DEF FromLastFlag
  <2> QED
    BY <2>4, <2>5
<1>3. cfg' = [s \in Settings |-> cfg'[s]]
  BY DEF Parse
<1>4. args' \in Seq(Names)
  BY <1>1, AppendProperties
<1> QED
  BY <1>1, <1>2, <1>3, <1>4 DEF ConfigureInv

LEMMA RegisterKeepsConfigureInv == ConfigureInv /\ Register => ConfigureInv'
<1> SUFFICES ASSUME ConfigureInv, Register PROVE ConfigureInv'
  OBVIOUS
<1>1. PICK r : r = registered + 1
  OBVIOUS
<1>2. r \in DOMAIN Registrations
  BY <1>1, Wiring DEF ConfigureInv, Register
<1>3. /\ cfg' = [cfg EXCEPT ![Registrations[r].sets] = cfg[Registrations[r].default]]
      /\ stage = "register" /\ file = {} /\ registered' = r
      /\ UNCHANGED <<stage, args, clusters, flagged, file>>
  BY <1>1 DEF ConfigureInv, Register
<1>4. ASSUME NEW s \in Wired PROVE cfg'[s] = cfg[s]
  <2>1. s \in Settings /\ DOMAIN cfg = Settings
    BY DEF Wired, ConfigureInv
  <2> QED
    <3>1. Registrations[r].sets = s => Registrations[r].default = s
      BY <1>2, Wiring
    <3> DEFINE set == Registrations[r].sets
               default == Registrations[r].default
    <3>2. cfg' = [cfg EXCEPT ![set] = cfg[default]]
      BY <1>3
    <3> HIDE DEF set, default
    <3>3. set = s => default = s
      BY <3>1 DEF set, default
    <3> QED
      BY <2>1, <3>2, <3>3
<1>5. ASSUME NEW s \in Wired PROVE FromLastFlag(s)'
  <2>1. FromLastFlag(s) /\ s \in Settings
    BY <1>3 DEF ConfigureInv, Wired
  <2>2. Given(s)' = Given(s)
    BY <1>3, GivenStays
  <2> QED
    BY <1>3, <1>4, <2>1, <2>2 DEF FromLastFlag
<1>6. cfg' = [s \in Settings |-> cfg'[s]]
  BY <1>3 DEF ConfigureInv
<1>7. registered' \in Nat
  BY <1>1, <1>3 DEF ConfigureInv
<1> QED
  BY <1>3, <1>5, <1>6, <1>7 DEF ConfigureInv

LEMMA DecodeKeepsConfigureInv ==
  ASSUME ConfigureInv, NEW contents \in Files, DecodeFile(contents)
  PROVE  ConfigureInv'
<1>1. /\ stage = "decode" /\ file = {} /\ stage' = "clusters" /\ file' = contents
      /\ cfg' = [s \in Settings |-> IF s \in contents THEN From("file", s) ELSE cfg[s]]
      /\ UNCHANGED <<registered, args, clusters, flagged>>
  BY DEF ConfigureInv, DecodeFile
<1>2. ASSUME NEW s \in Wired, s \notin file' PROVE FromLastFlag(s)'
  <2>1. cfg'[s] = cfg[s] /\ FromLastFlag(s)
    BY <1>1, <1>2 DEF Wired, ConfigureInv
  <2> QED
    BY <1>1, <2>1, GivenStays DEF FromLastFlag
<1> QED
  BY <1>1, <1>2 DEF ConfigureInv

LEMMA NextConfigureInv == ConfigureInv /\ [ConfigureNext]_configureVars => ConfigureInv'
<1> SUFFICES ASSUME ConfigureInv, [ConfigureNext]_configureVars PROVE ConfigureInv'
  OBVIOUS
<1>1. ASSUME UNCHANGED <<cfg, args, clusters, flagged, file, registered>>,
             stage' \in {"parse", "decode", "clusters", "exit", "done"},
             stage' \in {"parse", "decode"} => stage \in {"register", "parse"}
      PROVE  ConfigureInv'
  <2>1. ASSUME NEW s \in Wired, s \notin file' PROVE FromLastFlag(s)'
    BY <1>1, <2>1, GivenStays DEF FromLastFlag, ConfigureInv
  <2> QED
    BY <1>1, <2>1 DEF ConfigureInv
<1>2. CASE RegisterClusters
  BY <1>1, <1>2 DEF RegisterClusters, ConfigureInv
<1>3. CASE ParseEnds \/ Exit
  BY <1>1, <1>3 DEF ParseEnds, Exit
<1>4. CASE SetClusters
  <2>1. cfg' = cfg
    BY <1>4 DEF SetClusters, ConfigureInv
  <2> QED
    BY <1>1, <1>4, <2>1 DEF SetClusters
<1>5. CASE UNCHANGED configureVars
  <2>1. ASSUME NEW s \in Wired, s \notin file' PROVE FromLastFlag(s)'
    BY <1>5, <2>1, GivenStays DEF FromLastFlag, ConfigureInv, configureVars
  <2> QED
    BY <1>5, <2>1 DEF ConfigureInv, configureVars
<1> QED
  BY <1>2, <1>3, <1>4, <1>5, RegisterKeepsConfigureInv, ParseKeepsConfigureInv,
     DecodeKeepsConfigureInv DEF ConfigureNext

LEMMA ConfigureInvPrecedes == ConfigureInv => SettingsPrecede
<1> SUFFICES ASSUME ConfigureInv, NEW s \in Settings, s \in file \/ s \notin Miswired
             PROVE  cfg[s] = Expected(s)
  BY DEF SettingsPrecede, Setting
<1>1. CASE s \in file
  BY <1>1 DEF ConfigureInv, Expected
<1>2. CASE s \notin file
  <2>1. FromLastFlag(s)
    BY <1>2 DEF ConfigureInv, Wired
  <2>2. Given(s) \subseteq Nat
    BY DEF Given, ConfigureInv
  <2>3. CASE Given(s) = {}
    BY <1>2, <2>1, <2>3 DEF FromLastFlag, Expected
  <2>4. ASSUME NEW a \in Given(s), \A b \in Given(s) : b <= a, cfg[s] = From("flag", args[a])
        PROVE  cfg[s] = Expected(s)
    <3>1. (CHOOSE c \in Given(s) : \A b \in Given(s) : b <= c) = a
      BY <2>2, <2>4
    <3> QED
      BY <1>2, <2>4, <3>1 DEF Expected
  <2> QED
    BY <2>1, <2>3, <2>4 DEF FromLastFlag
<1> QED
  BY <1>1, <1>2

(***************************************************************************)
(* Configure (config.go:54-112): whatever flags are given, however often   *)
(* and in whatever order, and whatever the file of -c has, every setting   *)
(* of the file is the file's, and every other one with a flag of its own   *)
(* is the last flag's, or conf.toml's if there is none.                    *)
(***************************************************************************)
THEOREM LastFlagCounts == ConfigureSpec => []SettingsPrecede
  BY InitConfigureInv, NextConfigureInv, ConfigureInvPrecedes, PTL DEF ConfigureSpec
=============================================================================
