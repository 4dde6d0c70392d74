---------------------------- MODULE SpammerProofs ----------------------------
(***************************************************************************)
(* For any number of spammers and goroutines: the channel queryFree keeps  *)
(* the goroutines of a spammer apart, and so no sequence goes stale        *)
(* between signing and broadcasting.                                       *)
(***************************************************************************)
EXTENDS Spammer, TLAPS

Inv == TypeOK /\ OneSender /\ SignedCurrent

(* The loop always points at a spammer of the slice.                       *)
LEMMA SpammersAreNames ==
  /\ Len(Spammers) \in Nat
  /\ \A n \in 1..Len(Spammers) : Spammers[n] \in Names
  BY SpammerAssumption DEF Names

(* No spammer and no sequence is Nobody.                                    *)
LEMMA NobodyIsNone ==
  /\ \A s \in Names : s # Nobody
  /\ \A n \in Nat : n # Nobody
  BY SpammerAssumption

(* Initially every channel holds its value and no goroutine runs.          *)
LEMMA InvInit == Init => Inv
<1> SUFFICES ASSUME Init PROVE Inv
  OBVIOUS
<1>1. TypeOK
  BY SpammerAssumption, SpammersAreNames DEF Init, TypeOK, Labels
<1>2. OneSender
  BY DEF Init, OneSender, Holds
<1>3. SignedCurrent
  BY DEF Init, SignedCurrent
<1> QED
  BY <1>1, <1>2, <1>3 DEF Inv

(* Every step of send, of the loop and of the chain keeps the types.       *)
LEMMA TypesKept == Inv /\ [Next]_vars => TypeOK'
<1> SUFFICES ASSUME Inv, [Next]_vars PROVE TypeOK'
  OBVIOUS
<1> USE NobodyIsNone DEF Inv, TypeOK, Labels
<1>1. ASSUME NEW g \in Goroutines, start(g) PROVE TypeOK'
  <2>1. i' \in 1..Len(Spammers) /\ Spammers[i] \in Names
    BY <1>1, SpammersAreNames DEF start
  <2> QED
    BY <1>1, <2>1 DEF start, Go, spammer, node
<1>2. ASSUME NEW g \in Goroutines, take(g) PROVE TypeOK'
  <2>1. who[g] \in Names
    BY <1>2 DEF take
  <2>2. queryFree[who[g]] \in 0..1 /\ queryFree[who[g]] > 0
    BY <1>2, <2>1 DEF take
  <2>3. queryFree[who[g]] - 1 \in 0..1
    BY <2>2
  <2>4. queryFree' \in [Names -> 0..1]
    BY <1>2, <2>3 DEF take
  <2> QED
    BY <1>2, <2>4 DEF take, Go, spammer, node
<1>3. ASSUME NEW g \in Goroutines, makeMsg(g) PROVE TypeOK'
  <2>1. nextSequence[who[g]] \in Nat
    BY <1>3 DEF makeMsg
  <2>2. CASE UNCHANGED signed /\ Go(g, "account")
    BY <1>3, <2>2 DEF makeMsg, Go, spammer, node
  <2>3. CASE signed' = [signed EXCEPT ![g] = nextSequence[who[g]]] /\ Go(g, "broadcast")
    <3>1. signed' \in [Goroutines -> Nat \cup {Nobody}] /\ signed'[g] # Nobody
          /\ \A h \in Goroutines : h # g => signed'[h] = signed[h]
      BY <2>1, <2>3
    <3> QED
      BY <1>3, <2>3, <3>1 DEF makeMsg, Go, spammer, node
  <2> QED
    BY <1>3, <2>2, <2>3 DEF makeMsg
<1>4. ASSUME NEW g \in Goroutines, NEW err \in BOOLEAN, broadcast(g, err) PROVE TypeOK'
  <2>1. who[g] \in Names
    BY <1>4 DEF broadcast
  <2>2. mempool' \in [Names -> Nat]
    <3>1. mempool[who[g]] + 1 \in Nat
      BY <2>1
    <3> QED
      BY <1>4, <3>1 DEF broadcast, PrivBuildSignAndBroadcastMsg
  <2>3. nextSequence' \in [Names -> Nat]
    <3>1. nextSequence[who[g]] \in Nat /\ nextSequence[who[g]] + 1 \in Nat
      BY <2>1
    <3>2. Advance(nextSequence[who[g]]) \in Nat
      BY <3>1 DEF Advance
    <3> QED
      BY <1>4, <3>2 DEF broadcast
  <2>4. sequenceCheck' \in [Names -> Nat]
    <3>1. sequenceCheck[who[g]] \in Nat /\ sequenceCheck[who[g]] + 1 \in Nat
      BY <2>1
    <3> QED
      BY <1>4, <3>1 DEF broadcast
  <2>5. /\ at' \in [Goroutines -> Labels]
        /\ at'[g] \in {"account", "release"}
        /\ \A h \in Goroutines : h # g => at'[h] = at[h]
    BY <1>4 DEF broadcast, Go
  <2>6. /\ signed' \in [Goroutines -> Nat \cup {Nobody}]
        /\ signed'[g] = Nobody
        /\ \A h \in Goroutines : h # g => signed'[h] = signed[h]
    BY <1>4 DEF broadcast
  <2>7. UNCHANGED <<i, who, queryFree, chainSequence>>
    BY <1>4 DEF broadcast
  <2> QED
    BY <2>1, <2>2, <2>3, <2>4, <2>5, <2>6, <2>7
<1>5. ASSUME NEW g \in Goroutines, accountFound(g) PROVE TypeOK'
  BY <1>5 DEF accountFound, Go, spammer, node
<1>6. ASSUME NEW g \in Goroutines, accountNotFound(g) PROVE TypeOK'
  BY <1>6 DEF accountNotFound, Go, spammer, node
<1>7. ASSUME NEW g \in Goroutines, NEW sequence \in Nat, Refreshed(g, sequence)
      PROVE  TypeOK'
  BY <1>7 DEF Refreshed, Go, node
<1>8. ASSUME NEW g \in Goroutines, sequenceRead(g) PROVE TypeOK'
  <2>1. chainSequence[who[g]] \in Nat
    BY <1>8 DEF sequenceRead, Refreshed
  <2> QED
    BY <1>7, <1>8, <2>1 DEF sequenceRead
<1>9. ASSUME NEW g \in Goroutines, sequenceFailed(g) PROVE TypeOK'
  BY <1>7, <1>9 DEF sequenceFailed
<1>10. ASSUME NEW g \in Goroutines, release(g) PROVE TypeOK'
  <2>1. who[g] \in Names
    BY <1>10 DEF release
  <2>2. queryFree[who[g]] \in 0..1 /\ queryFree[who[g]] < 1
    BY <1>10, <2>1 DEF release
  <2>3. queryFree[who[g]] + 1 \in 0..1
    BY <2>2
  <2>4. queryFree' \in [Names -> 0..1]
    BY <1>10, <2>3 DEF release
  <2> QED
    BY <1>10, <2>4 DEF release, Go, spammer, node
<1>11. ASSUME NEW s \in Names, commit(s) PROVE TypeOK'
  <2>1. mempool[s] \in Nat /\ mempool[s] > 0 /\ chainSequence[s] \in Nat
    BY <1>11 DEF commit
  <2>2. mempool[s] - 1 \in Nat /\ chainSequence[s] + 1 \in Nat
    BY <2>1
  <2>3. mempool' \in [Names -> Nat] /\ chainSequence' \in [Names -> Nat]
    BY <1>11, <2>2 DEF commit
  <2> QED
    BY <1>11, <2>3 DEF commit, spammer
<1>12. CASE loseMempool
  BY <1>12 DEF loseMempool, spammer
<1>13. CASE UNCHANGED vars
  BY <1>13 DEF vars, spammer, node
<1> QED
  BY <1>1, <1>2, <1>3, <1>4, <1>5, <1>6, <1>8, <1>9, <1>10, <1>11, <1>12, <1>13
     DEF Next, step

(***************************************************************************)
(* Only take makes a goroutine a holder, and it empties a channel that was *)
(* full, so that there was no holder; only release ends a holder, and it   *)
(* fills the channel.  Every other step moves a goroutine between labels   *)
(* on the same side.                                                       *)
(***************************************************************************)
LEMMA OneSenderKept == Inv /\ [Next]_vars => OneSender'
<1> SUFFICES ASSUME Inv, [Next]_vars PROVE OneSender'
  OBVIOUS
<1> USE DEF Inv, TypeOK
<1>same. ASSUME UNCHANGED queryFree,
                \A h \in Goroutines, s \in Names : Holds(h, s)' <=> Holds(h, s)
         PROVE  OneSender'
  BY <1>same DEF OneSender
<1>1. ASSUME NEW g \in Goroutines, start(g) PROVE OneSender'
  <2>1. \A h \in Goroutines, s \in Names : Holds(h, s)' <=> Holds(h, s)
    BY <1>1 DEF start, Go, Holds
  <2> QED
    BY <1>1, <2>1, <1>same DEF start
<1>2. ASSUME NEW g \in Goroutines, take(g) PROVE OneSender'
  <2>1. who[g] \in Names
    BY <1>2, SpammerAssumption DEF take
  <2>0. queryFree[who[g]] = 1
    <3>1. queryFree[who[g]] \in 0..1 /\ queryFree[who[g]] > 0
      BY <1>2, <2>1 DEF take
    <3> QED
      BY <3>1
  <2>2. \A h \in Goroutines : ~Holds(h, who[g])
    BY <2>0, <2>1 DEF OneSender
  <2>3. /\ \A s \in Names : s = who[g] => Holds(g, s)'
        /\ \A h \in Goroutines, s \in Names :
             (h # g \/ s # who[g]) => (Holds(h, s)' <=> Holds(h, s))
    BY <1>2 DEF take, Go, Holds
  <2>4. /\ queryFree'[who[g]] = 0
        /\ \A s \in Names : s # who[g] => queryFree'[s] = queryFree[s]
    BY <1>2, <2>0, <2>1 DEF take
  <2>5. ASSUME NEW s \in Names
        PROVE  /\ \A g1, h \in Goroutines : Holds(g1, s)' /\ Holds(h, s)' => g1 = h
               /\ queryFree'[s] = 1 <=> \A h \in Goroutines : ~Holds(h, s)'
    <3>1. CASE s = who[g]
      <4>1. queryFree'[s] # 1 /\ Holds(g, s)'
        BY <3>1, <2>3, <2>4
      <4>2. \A h \in Goroutines : h # g => ~Holds(h, s)'
        BY <3>1, <2>2, <2>3
      <4> QED
        BY <4>1, <4>2
    <3>2. CASE s # who[g]
      <4>1. \A h \in Goroutines : Holds(h, s)' <=> Holds(h, s)
        BY <3>2, <2>3
      <4> QED
        BY <4>1, <3>2, <2>4 DEF OneSender
    <3> QED
      BY <3>1, <3>2
  <2> QED
    BY <2>5 DEF OneSender
<1>3. ASSUME NEW g \in Goroutines,
             at[g] \notin {"none", "wait"},
             NEW label \in {"broadcast", "account", "sequence", "release"},
             Go(g, label), UNCHANGED <<who, queryFree>>
      PROVE  OneSender'
  <2>1. \A h \in Goroutines, s \in Names : Holds(h, s)' <=> Holds(h, s)
    BY <1>3 DEF Go, Holds
  <2> QED
    BY <1>3, <2>1, <1>same
<1>4. ASSUME NEW g \in Goroutines, release(g) PROVE OneSender'
  <2>1. who[g] \in Names
    BY <1>4, SpammerAssumption DEF release
  <2>2. Holds(g, who[g])
    BY <1>4 DEF release, Holds
  <2>3. \A h \in Goroutines : h # g => ~Holds(h, who[g])
    BY <2>1, <2>2 DEF OneSender
  <2>4. /\ \A s \in Names : ~Holds(g, s)'
        /\ \A h \in Goroutines, s \in Names :
             h # g => (Holds(h, s)' <=> Holds(h, s))
    BY <1>4 DEF release, Go, Holds
  <2>5. \A s \in Names : s # who[g] => ~Holds(g, s)
    BY DEF Holds
  <2>6. /\ queryFree'[who[g]] = 1
        /\ \A s \in Names : s # who[g] => queryFree'[s] = queryFree[s]
    <3>1. queryFree[who[g]] \in 0..1 /\ queryFree[who[g]] < 1
      BY <1>4, <2>1 DEF release
    <3>2. queryFree[who[g]] = 0
      BY <3>1
    <3> QED
      BY <1>4, <2>1, <3>2 DEF release
  <2>7. ASSUME NEW s \in Names
        PROVE  /\ \A g1, h \in Goroutines : Holds(g1, s)' /\ Holds(h, s)' => g1 = h
               /\ queryFree'[s] = 1 <=> \A h \in Goroutines : ~Holds(h, s)'
    <3>1. CASE s = who[g]
      BY <3>1, <2>3, <2>4, <2>6
    <3>2. CASE s # who[g]
      <4>1. \A h \in Goroutines : Holds(h, s)' <=> Holds(h, s)
        BY <3>2, <2>4, <2>5
      <4> QED
        BY <4>1, <3>2, <2>6 DEF OneSender
    <3> QED
      BY <3>1, <3>2
  <2> QED
    BY <2>7 DEF OneSender
<1>5. ASSUME UNCHANGED <<at, who, queryFree>> PROVE OneSender'
  BY <1>5, <1>same DEF Holds
<1>6. ASSUME NEW g \in Goroutines, makeMsg(g) PROVE OneSender'
  BY <1>6, <1>3 DEF makeMsg
<1>7. ASSUME NEW g \in Goroutines, NEW err \in BOOLEAN, broadcast(g, err) PROVE OneSender'
  <2>1. Go(g, "account") \/ Go(g, "release")
    BY <1>7 DEF broadcast
  <2> QED
    BY <1>7, <1>3, <2>1 DEF broadcast
<1>8. ASSUME NEW g \in Goroutines, accountFound(g) \/ accountNotFound(g) PROVE OneSender'
  BY <1>8, <1>3 DEF accountFound, accountNotFound
<1>9. ASSUME NEW g \in Goroutines, sequenceRead(g) \/ sequenceFailed(g) PROVE OneSender'
  BY <1>9, <1>3 DEF sequenceRead, sequenceFailed, Refreshed
<1>10. ASSUME NEW s \in Names, commit(s) PROVE OneSender'
  BY <1>10, <1>5 DEF commit
<1>11. CASE loseMempool
  BY <1>11, <1>5 DEF loseMempool
<1>12. CASE UNCHANGED vars
  BY <1>12, <1>5 DEF vars
<1> QED
  BY <1>1, <1>2, <1>4, <1>6, <1>7, <1>8, <1>9, <1>10, <1>11, <1>12 DEF Next, step

(***************************************************************************)
(* The steps that change nextSequence belong to a holder of the spammer;   *)
(* by OneSender no other goroutine of it can be about to broadcast.        *)
(***************************************************************************)
LEMMA SignedCurrentKept == Inv /\ [Next]_vars => SignedCurrent'
<1> SUFFICES ASSUME Inv, [Next]_vars PROVE SignedCurrent'
  OBVIOUS
<1> USE DEF Inv, TypeOK
<1>same. ASSUME UNCHANGED <<nextSequence, signed>>,
                \A h \in Goroutines : at'[h] = "broadcast" =>
                   at[h] = "broadcast" /\ who'[h] = who[h]
         PROVE  SignedCurrent'
  BY <1>same DEF SignedCurrent
<1>1. ASSUME NEW g \in Goroutines, start(g) PROVE SignedCurrent'
  BY <1>1, <1>same DEF start, Go, spammer
<1>2. ASSUME NEW g \in Goroutines, take(g) PROVE SignedCurrent'
  BY <1>2, <1>same DEF take, Go, spammer
<1>3. ASSUME NEW g \in Goroutines, makeMsg(g) PROVE SignedCurrent'
  BY <1>3 DEF makeMsg, Go, spammer, SignedCurrent
<1>4. ASSUME NEW g \in Goroutines, at[g] \in {"broadcast", "sequence"},
             at' = [at EXCEPT ![g] = at'[g]], at'[g] # "broadcast",
             \A h \in Goroutines : h # g => signed'[h] = signed[h],
             \A s \in Names : s # who[g] => nextSequence'[s] = nextSequence[s],
             UNCHANGED who
      PROVE  SignedCurrent'
  <2>1. ASSUME NEW h \in Goroutines, at'[h] = "broadcast"
        PROVE  signed'[h] = nextSequence'[who'[h]]
    <3>1. h # g /\ at[h] = "broadcast" /\ who[h] \in Names /\ who[g] \in Names
      BY <1>4, <2>1, SpammerAssumption
    <3>2. Holds(g, who[g]) /\ Holds(h, who[h])
      BY <1>4, <3>1 DEF Holds
    <3>3. who[h] # who[g]
      BY <3>1, <3>2 DEF OneSender
    <3> QED
      BY <1>4, <3>1, <3>3 DEF SignedCurrent
  <2> QED
    BY <2>1 DEF SignedCurrent
<1>5. ASSUME NEW g \in Goroutines, NEW err \in BOOLEAN, broadcast(g, err)
      PROVE  SignedCurrent'
  <2>1. /\ at' = [at EXCEPT ![g] = at'[g]] /\ at'[g] # "broadcast"
        /\ at[g] = "broadcast" /\ UNCHANGED who
    BY <1>5 DEF broadcast, Go
  <2>2. /\ \A h \in Goroutines : h # g => signed'[h] = signed[h]
        /\ \A s \in Names : s # who[g] => nextSequence'[s] = nextSequence[s]
    BY <1>5 DEF broadcast
  <2> QED
    BY <1>4, <2>1, <2>2
<1>6. ASSUME NEW g \in Goroutines, sequenceRead(g) \/ sequenceFailed(g)
      PROVE  SignedCurrent'
  <2>1. /\ at' = [at EXCEPT ![g] = at'[g]] /\ at'[g] # "broadcast"
        /\ at[g] = "sequence" /\ UNCHANGED <<who, signed>>
        /\ \A s \in Names : s # who[g] => nextSequence'[s] = nextSequence[s]
    BY <1>6 DEF sequenceRead, sequenceFailed, Refreshed, Go
  <2> QED
    BY <1>4, <2>1
<1>7. ASSUME NEW g \in Goroutines, accountFound(g) \/ accountNotFound(g)
      PROVE  SignedCurrent'
  BY <1>7, <1>same DEF accountFound, accountNotFound, Go, spammer
<1>8. ASSUME NEW g \in Goroutines, release(g) PROVE SignedCurrent'
  BY <1>8, <1>same DEF release, Go, spammer
<1>9. ASSUME NEW s \in Names, commit(s) PROVE SignedCurrent'
  BY <1>9, <1>same DEF commit, spammer
<1>10. CASE loseMempool
  BY <1>10, <1>same DEF loseMempool, spammer
<1>11. CASE UNCHANGED vars
  BY <1>11, <1>same DEF vars, spammer
<1> QED
  BY <1>1, <1>2, <1>3, <1>5, <1>6, <1>7, <1>8, <1>9, <1>10, <1>11 DEF Next, step

(* The three parts are inductive together.                                 *)
THEOREM InvAlways == Spec => []Inv
<1>1. Inv /\ [Next]_vars => Inv'
  BY TypesKept, OneSenderKept, SignedCurrentKept DEF Inv
<1> QED
  BY InvInit, <1>1, PTL DEF Spec

(* TypeOK holds for every number of spammers and goroutines.               *)
THEOREM SpammerTypeCorrect == Spec => []TypeOK
<1>1. Inv => TypeOK
  BY DEF Inv
<1> QED
  BY InvAlways, <1>1, PTL

(* send works on a spammer one goroutine at a time and never loses the     *)
(* value of queryFree.                                                     *)
THEOREM AlwaysOneSender == Spec => []OneSender
<1>1. Inv => OneSender
  BY DEF Inv
<1> QED
  BY InvAlways, <1>1, PTL

(* The sequence that send signed is current when it is broadcast.          *)
THEOREM AlwaysSignedCurrent == Spec => []SignedCurrent
<1>1. Inv => SignedCurrent
  BY DEF Inv
<1> QED
  BY InvAlways, <1>1, PTL
=============================================================================
