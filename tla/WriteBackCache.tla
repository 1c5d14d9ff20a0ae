--------------------------- MODULE WriteBackCache ---------------------------
(***************************************************************************)
(* What the Writer promises its user (spec.md sections 1 and 3), with no   *)
(* cache, counter or executor in sight: while open it accepts writes of a  *)
(* whole row or of single columns, each taking effect at once in the       *)
(* written view; the backend store catches up asynchronously, one key row  *)
(* at a time, in any way; and the Writer closes only when the store holds  *)
(* exactly the written view, after which nothing changes.                  *)
(***************************************************************************)
CONSTANTS Keys, Cols, Vals, Nil

VARIABLES
    view,   \* the last value written to each (key, column)
    store,  \* what the backend holds for each (key, column)
    open    \* the Writer has not been destroyed

absVars == <<view, store, open>>

Cells == [Keys -> [Cols -> Vals \cup {Nil}]]

Init ==
    /\ view = [k \in Keys |-> [c \in Cols |-> Nil]]
    /\ store = view
    /\ open = TRUE

(* The view after a write of the columns in DOMAIN row of key k.         *)
Written(k, row) ==
    [view EXCEPT ![k] = [c \in Cols |-> IF c \in DOMAIN row THEN row[c] ELSE @[c]]]

Rows == UNION {[D -> Vals] : D \in SUBSET Cols \ {{}}}

(* Next names the next view and store once, as TLC evaluates a LET       *)
(* definition once per step.  Its three disjuncts are:                    *)
(*   Put     - a write of the columns in DOMAIN row of one key;           *)
(*   Persist - the backend applies something to one key row;             *)
(*   Close   - destruction, allowed only once everything written is       *)
(*             stored.                                                    *)
Next ==
    LET nv == view'
        ns == store'
    IN \/ /\ open                                                 \* Put
          /\ \E k \in Keys, row \in Rows : nv = Written(k, row)
          /\ ns = store /\ open' = open
       \/ /\ open                                                 \* Persist
          /\ \E k \in Keys, r \in [Cols -> Vals \cup {Nil}] :
                ns = [store EXCEPT ![k] = r]
          /\ nv = view /\ open' = open
       \/ /\ open /\ store = view                                 \* Close
          /\ open' = FALSE
          /\ nv = view /\ ns = store

Spec == Init /\ [][Next]_absVars

TypeOK == view \in Cells /\ store \in Cells /\ open \in BOOLEAN

====
