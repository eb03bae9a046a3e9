----------------------------- MODULE BlockStore -----------------------------
(***************************************************************************)
(* What the block indexer promises its readers, with the queue, the        *)
(* workers and their failures left out: rows of the blocks table appear    *)
(* one by one, only for heights the chain has produced, and never          *)
(* disappear; the transactions of a height appear all together, after the  *)
(* row they reference.  An operator may empty the transactions table.      *)
(***************************************************************************)
EXTENDS Integers

CONSTANTS StartHeight, MaxHeight,  \* the heights considered
          InitTip,                 \* the chain's height at the start
          TxHeights                \* the heights whose block holds transactions

Heights == StartHeight..MaxHeight

VARIABLES tip, blocks, txs

vars == <<tip, blocks, txs>>

Init == /\ tip = InitTip
        /\ blocks = {}
        /\ txs = {}

Produce == /\ tip < MaxHeight
           /\ tip' = tip + 1
           /\ UNCHANGED <<blocks, txs>>

StoreBlock(h) == /\ h <= tip
                 /\ h \notin blocks
                 /\ blocks' = blocks \cup {h}
                 /\ UNCHANGED <<tip, txs>>

StoreTxs(h) == /\ h \in blocks \cap TxHeights
               /\ h \notin txs
               /\ txs' = txs \cup {h}
               /\ UNCHANGED <<tip, blocks>>

ForgetTxs == /\ txs # {}
             /\ txs' = {}
             /\ UNCHANGED <<tip, blocks>>

Next == \/ Produce
        \/ \E h \in Heights : StoreBlock(h) \/ StoreTxs(h)
        \/ ForgetTxs

Spec == Init /\ [][Next]_vars
=============================================================================
