------------------------------- MODULE MbpBook -------------------------------
(***************************************************************************)
(* The market-by-price book of one instrument, as both ends of the feed    *)
(* see it: a resting quantity at every (side, price), changed by the two   *)
(* delta records of the wire.                                              *)
(*                                                                         *)
(* Source: go/marketbyprice-bot/instrument.go.  A Go map from price to     *)
(* *LevelState becomes a total function whose value 0 means that the map   *)
(* has no such key: ApplyLevelUpdate deletes the key on a zero quantity,   *)
(* so no stored level has quantity 0.  Order count and flags are payload   *)
(* that nothing branches on; they are left out.                            *)
(***************************************************************************)
EXTENDS Integers

CONSTANTS
    Inst,       \* the instruments: of one shard, and of one mktdata channel
    Price,      \* the prices that occur, a finite set of integers
    Qty,        \* the non-zero quantities that occur
    Ops         \* the delta payloads that occur

ASSUME BookAssumption ==
    /\ Price \subseteq Int
    /\ Qty \subseteq Nat \ {0}

Side == {"bid", "ask"}

Book == [Side \X Price -> Qty \cup {0}]

EmptyBook == [l \in Side \X Price |-> 0]

(* The two wire deltas.  "both" and "reserved" are values of Clear Side    *)
(* that a level_update cannot carry.                                       *)
LevelUpdateOp ==
    [type : {"level_update"}, side : Side, price : Price, qty : Qty \cup {0}]

BookClearOp ==
    [type : {"book_clear"}, side : Side \cup {"both", "reserved"},
     scope : {"all", "from", "reserved"}, price : Price]

Op == LevelUpdateOp \cup BookClearOp

(* bookClearMalformed, reached only for a book_clear (malformedRecord).    *)
Malformed(op) ==
    /\ op.type = "book_clear"
    /\ \/ op.side = "reserved"
       \/ op.scope = "reserved"
       \/ op.scope = "from" /\ op.side = "both"

(* Absolute replacement at one price: the action byte never gates it.      *)
ApplyLevelUpdate(book, op) == [book EXCEPT ![<<op.side, op.price>>] = op.qty]

(* Does a well-formed book_clear remove level l?  Scope "from" removes the *)
(* named price and everything away from the touch.                         *)
ClearCovers(op, l) ==
    /\ op.side \in {l[1], "both"}
    /\ \/ op.scope = "all"
       \/ l[1] = "bid" /\ l[2] <= op.price
       \/ l[1] = "ask" /\ l[2] >= op.price

ApplyBookClear(book, op) ==
    [l \in Side \X Price |-> IF ClearCovers(op, l) THEN 0 ELSE book[l]]

(* The mutation half of Shard.applyOne, for a record that is not malformed. *)
ApplyOp(book, op) ==
    IF op.type = "level_update" THEN ApplyLevelUpdate(book, op)
                                ELSE ApplyBookClear(book, op)

Levels(book) == {l \in Side \X Price : book[l] # 0}

(* Instrument.Crossed: some bid above some ask; equal prices do not cross. *)
Crossed(book) ==
    \E b, a \in Price : book["bid", b] # 0 /\ book["ask", a] # 0 /\ b > a
=============================================================================
