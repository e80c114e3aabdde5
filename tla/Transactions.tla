---------------------------- MODULE Transactions ----------------------------
(***************************************************************************)
(* The transactions table of models/transaction.go: what a db.Create must  *)
(* satisfy before its row is stored.  Every handler that books money uses  *)
(* it, so the modules of the handlers EXTEND this one.                     *)
(*                                                                         *)
(* A row is described to CanInsert by a record with the fields             *)
(*   reference, idempotency_key   the two indexed strings,                 *)
(*   columns                      the account id columns that are set,     *)
(*   amount                       AmountCents.                             *)
(***************************************************************************)
EXTENDS Integers, FiniteSets

CONSTANTS
    UniqueColumns,   \* columns with a unique index; the struct tags declare both
    BookieIsSports   \* TRUE when the bookie account id is the sports account id
                     \* (models/customer.go:18); FALSE: the hook does not see it

ASSUME TransactionsAssumption ==
    /\ UniqueColumns \subseteq {"reference", "idempotency_key"}
    /\ BookieIsSports \in BOOLEAN

AccountColumns == {"sharp", "sports", "stock", "forex", "crypto"}

(* The account columns the BeforeCreate hook counts.                        *)
CountedColumns ==
    AccountColumns \cup (IF BookieIsSports THEN {"bookie"} ELSE {})

(* Variant of HookAccepts: the amount is not looked at.                    *)
HookIgnoresAmount(new) == Cardinality(new.columns \cap CountedColumns) = 1

(* Transaction.BeforeCreate: exactly one account id, and a positive amount. *)
HookAccepts(new) ==
    /\ Cardinality(new.columns \cap CountedColumns) = 1
    /\ new.amount > 0

(* The unique indexes: no stored row has the new row's value in an indexed  *)
(* column.  An unset string is stored as '' and is indexed like any other.  *)
IndexAccepts(rows, new) ==
    \A col \in UniqueColumns : \A old \in rows : old[col] # new[col]

CanInsert(rows, new) == HookAccepts(new) /\ IndexAccepts(rows, new)
=============================================================================
