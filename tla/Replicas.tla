------------------------------ MODULE Replicas ------------------------------
(***************************************************************************)
(* The exchange on several nodes that execute the same blocks, each by its *)
(* own wall clock.  A block holds one message and the application state    *)
(* its proposers hold (the app hash); a node whose own state differs from  *)
(* it stops.  A node that crashes inside a block loads its last committed  *)
(* version and executes the block again, at a later clock reading.  What a *)
(* message and an expiry do is taken from Trade, which Exchange implements.*)
(* Agreement on blocks, their delivery and the versioned store are those   *)
(* of Tendermint and the cosmos-sdk (external).                            *)
(***************************************************************************)
EXTENDS Trade, Sequences

CONSTANTS
  Nodes,
  Quorums,          \* sets of nodes that can decide a block together
  InitCoins,        \* the balances at genesis
  StartingOrderID,  \* the first order ID
  Offers,           \* the messages of the blocks (bound)
  MaxHeight,        \* the number of blocks (bound)
  MaxTime,          \* the last clock reading (bound)
  MaxCrashes,       \* the number of crashes (bound)
  NoState           \* no block is being executed

ASSUME ReplicasAssumption ==
  /\ IsFiniteSet(Accounts)
  /\ Quorums \subseteq SUBSET Nodes
  /\ \A q, r \in Quorums : q \cap r # {}
  /\ InitCoins \in [Accounts -> [Denoms -> Nat]]
  /\ StartingOrderID \in Nat
  /\ Offers \subseteq [sender : Accounts, kind : {"buy", "sell"},
                      amountDenom : Denoms, priceDenom : Denoms,
                      amount : Int, price : Int, expiresAt : Int]

VARIABLES
  blocks,    \* the decided blocks
  clock,     \* the wall clock of each node
  versions,  \* the committed states of each node, genesis first
  working,   \* the state of the block a node executes
  phase,     \* how far a node is with the block
  readings,  \* the clock readings of each node for the blocks it executed
  crashes    \* crashes so far

vars == <<blocks, clock, versions, working, phase, readings, crashes>>

Height(n) == Len(versions[n]) - 1
Latest(n) == versions[n][Len(versions[n])]

(* initChainer: every node starts from the genesis file.                   *)
Genesis == [coins |-> InitCoins, orders |-> {}, nextOrderID |-> StartingOrderID]

Init ==
  /\ blocks = <<>>
  /\ clock = [n \in Nodes |-> 0]
  /\ versions = [n \in Nodes |-> <<Genesis>>]
  /\ working = [n \in Nodes |-> NoState]
  /\ phase = [n \in Nodes |-> "idle"]
  /\ readings = [n \in Nodes |-> <<>>]
  /\ crashes = 0

(* A quorum in the same state decides the next block.                      *)
Decide(m) ==
  /\ Len(blocks) < MaxHeight
  /\ \E q \in Quorums : \E n \in q :
       /\ \A p \in q : Height(p) = Len(blocks) /\ Latest(p) = Latest(n)
       /\ blocks' = Append(blocks, [msg |-> m, appState |-> Latest(n)])
  /\ UNCHANGED <<clock, versions, working, phase, readings, crashes>>

Halted(n) ==
  /\ Height(n) < Len(blocks)
  /\ Latest(n) # blocks[Height(n) + 1].appState

(* The readings of the block a node is executing come last.                *)
Read(n, name) ==
  IF name = "begin"
  THEN readings' = [readings EXCEPT ![n] =
                      Append(@, [begin |-> clock[n], deliver |-> clock[n]])]
  ELSE readings' = [readings EXCEPT ![n][Len(readings[n])].deliver = clock[n]]

(* Faulty variant: orders are refunded in the committed version.           *)
BeginBlock_Committed(n) ==
  LET state  == Latest(n)
      lapsed == Lapsed(state.orders, clock[n])
      paid   == [state EXCEPT !.coins = Refunded(@, lapsed)]
  IN  /\ phase[n] = "idle"
      /\ Height(n) < Len(blocks)
      /\ ~Halted(n)
      /\ versions' = [versions EXCEPT ![n][Len(versions[n])] = paid]
      /\ working' = [working EXCEPT ![n] = [paid EXCEPT !.orders = @ \ lapsed]]
      /\ phase' = [phase EXCEPT ![n] = "begun"]
      /\ Read(n, "begin")
      /\ UNCHANGED <<blocks, clock, crashes>>

(* The begin blocker refunds the orders that lapsed by the node's clock.   *)
BeginBlock(n) ==
  LET state  == Latest(n)
      lapsed == Lapsed(state.orders, clock[n])
  IN  /\ phase[n] = "idle"
      /\ Height(n) < Len(blocks)
      /\ ~Halted(n)
      /\ working' = [working EXCEPT ![n] =
                       [state EXCEPT !.orders = @ \ lapsed,
                                     !.coins = Refunded(@, lapsed)]]
      /\ phase' = [phase EXCEPT ![n] = "begun"]
      /\ Read(n, "begin")
      /\ UNCHANGED <<blocks, clock, versions, crashes>>

(* A message that lapsed by the node's clock, or that its sender cannot    *)
(* pay, changes nothing.  ValidateBasic reads the clock, then              *)
(* processLimitOrder does: the later reading decides.                      *)
DeliverTx(n) ==
  LET m     == blocks[Height(n) + 1].msg
      state == working[n]
  IN  /\ phase[n] = "begun"
      /\ working' = [working EXCEPT ![n] =
           IF m.expiresAt < clock[n] \/ ~Affordable(state.coins, m)
           THEN state
           ELSE [coins       |-> CoinsAfter(state.coins, state.orders, m),
                 orders      |-> OrdersAfter(state.orders, m, state.nextOrderID),
                 nextOrderID |-> state.nextOrderID + 1]]
      /\ phase' = [phase EXCEPT ![n] = "delivered"]
      /\ Read(n, "deliver")
      /\ UNCHANGED <<blocks, clock, versions, crashes>>

Commit(n) ==
  /\ phase[n] = "delivered"
  /\ versions' = [versions EXCEPT ![n] = Append(@, working[n])]
  /\ working' = [working EXCEPT ![n] = NoState]
  /\ phase' = [phase EXCEPT ![n] = "idle"]
  /\ UNCHANGED <<blocks, clock, readings, crashes>>

(* Faulty variant: the node comes back with what it had not committed.     *)
Restart_KeepsWork(n) ==
  /\ phase[n] # "idle"
  /\ crashes < MaxCrashes
  /\ crashes' = crashes + 1
  /\ versions' = [versions EXCEPT ![n][Len(versions[n])] = working[n]]
  /\ working' = [working EXCEPT ![n] = NoState]
  /\ phase' = [phase EXCEPT ![n] = "idle"]
  /\ readings' = [readings EXCEPT ![n] = SubSeq(@, 1, Len(@) - 1)]
  /\ UNCHANGED <<blocks, clock>>

(* Faulty variant: the latest version cannot be loaded.                    *)
Restart_NotLoaded(n) ==
  /\ phase[n] # "idle"
  /\ crashes < MaxCrashes
  /\ crashes' = crashes + 1
  /\ working' = [working EXCEPT ![n] = NoState]
  /\ phase' = [phase EXCEPT ![n] = "down"]
  /\ readings' = [readings EXCEPT ![n] = SubSeq(@, 1, Len(@) - 1)]
  /\ UNCHANGED <<blocks, clock, versions>>

(* A crash inside a block; NewThorchainApp loads the latest version and    *)
(* the block is delivered again.                                           *)
Restart(n) ==
  /\ phase[n] # "idle"
  /\ crashes < MaxCrashes
  /\ crashes' = crashes + 1
  /\ working' = [working EXCEPT ![n] = NoState]
  /\ phase' = [phase EXCEPT ![n] = "idle"]
  /\ readings' = [readings EXCEPT ![n] = SubSeq(@, 1, Len(@) - 1)]
  /\ UNCHANGED <<blocks, clock, versions>>

Tick(n) ==
  /\ clock[n] < MaxTime
  /\ clock' = [clock EXCEPT ![n] = @ + 1]
  /\ UNCHANGED <<blocks, versions, working, phase, readings, crashes>>

Execute(n) == BeginBlock(n) \/ DeliverTx(n) \/ Commit(n)

Next ==
  \/ \E m \in Offers : Decide(m)
  \/ \E n \in Nodes : Execute(n) \/ Restart(n) \/ Tick(n)

Spec == Init /\ [][Next]_vars

(* A node that is up executes the blocks it is given.                      *)
LiveSpec == Spec /\ \A n \in Nodes : WF_vars(Execute(n))

-----------------------------------------------------------------------------
(* Properties.                                                             *)

(* The readings t and u fall on different sides of the expiry time e.      *)
Splits(e, t, u) == (e < t) # (e < u)

(* time.Now() in the handler and in the begin blocker is the only way for  *)
(* two nodes to come to different states from the same blocks: at the      *)
(* height where their versions first differ, an order of the block or of   *)
(* the books expires between the two nodes' readings of their clocks.      *)
(* Crashes and replays add no other way.                                   *)
SplitOnlyByExpiry ==
  \A n, p \in Nodes : \A h \in 1..Height(n) :
    LET r == readings[n][h]
        s == readings[p][h]
    IN  h <= Height(p)
        /\ versions[n][h] = versions[p][h]
        /\ versions[n][h + 1] # versions[p][h + 1]
        => \/ Splits(blocks[h].msg.expiresAt, r.deliver, s.deliver)
           \/ \E o \in versions[n][h].orders : Splits(o.expiresAt, r.begin, s.begin)

TotalCoins(coins, d) ==
  SumFunctionOnSet([a \in Accounts |-> coins[a][d]], Accounts)

(* The coins of denom d that the orders keep locked.                       *)
LockedBy(orders, d) ==
  SumFunctionOnSet([o \in orders |->
    IF EscrowDenom(o) = d THEN Escrow(o, o.amount) ELSE 0], orders)

Worth(state, d) == TotalCoins(state.coins, d) + LockedBy(state.orders, d)

(* In every version of every node the balances and the escrow of the open  *)
(* orders add up to the coins of genesis: a block that is executed again   *)
(* after a crash neither refunds nor trades twice, on whichever side of an *)
(* expiry the two executions fall.                                         *)
VersionsSolvent ==
  \A n \in Nodes : \A h \in 1..Len(versions[n]) : \A d \in Denoms :
    Worth(versions[n][h], d) = TotalCoins(InitCoins, d)

(* Every decided block is committed by every node that does not stop over  *)
(* a different state, however often it crashed inside the block: again and *)
(* again it has caught up.                                                 *)
KeepsUp ==
  \A n \in Nodes : []<>(Height(n) >= Len(blocks) \/ Halted(n))
=============================================================================
