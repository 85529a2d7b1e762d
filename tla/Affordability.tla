--------------------------- MODULE Affordability ---------------------------
(***************************************************************************)
(* What a new transfer may cost while earlier ones are unresolved:         *)
(* evaluate_affordability over the fresh balances, the outstanding         *)
(* reservations and the overlap a duplicate-risk grant frees, and          *)
(* select_affordable_fee_ceiling, which looks for the largest fee ceiling  *)
(* the balances still carry by halving an interval.                        *)
(* cc-wallet-domain: affordability.rs, digest.rs (Reservation), journal.rs *)
(* (max_native_spendable); cc-wallet-chain: wallet_service.rs.             *)
(*                                                                         *)
(* Amounts are small numbers; Cap stands for the amount domain (2^120 - 1  *)
(* nanos, 248 bits of an extra currency).                                  *)
(***************************************************************************)
EXTENDS Integers, Sequences, FiniteSets, SequencesExt

CONSTANTS
    Native,       \* the native asset
    Extra,        \* the extra currencies
    Records,      \* records that hold reservations
    Cap,          \* largest amount of an asset
    MaxRows,      \* bound: outstanding reservation rows
    Amounts,      \* amounts of a row and of the new transfer
    Fees,         \* exact fees the emulation may report
    Headroom      \* LOCAL_SEND_FEE_HEADROOM_NANOS

ASSUME AffordAssumptions ==
    /\ {Cap, MaxRows, Headroom} \subseteq Nat
    /\ Amounts \subseteq Nat /\ Fees \subseteq Nat

Assets == {Native} \cup Extra

\* Reservation::new: a fee is native.
Rows == {r \in [record : Records, asset : Assets, kind : {"Transfer", "NativeFee"}, amount : Amounts] :
            r.kind = "NativeFee" => r.asset = Native}
RowLists == UNION {[1..n -> Rows] : n \in 0..MaxRows}

Inputs == [balance : [Assets -> 0..Cap], rows : RowLists, overlap : UNION {[1..n -> Rows] : n \in 0..1},
           asset : Assets, amount : Amounts, exact : Fees]

-----------------------------------------------------------------------------
(* evaluate_affordability                                                  *)

Duplicated(rows) == \E i, j \in 1..Len(rows) : i < j /\ rows[i] = rows[j]
WellFormed(in) ==
    /\ ~Duplicated(in.rows) /\ ~Duplicated(in.overlap)
    /\ ToSet(in.overlap) \subseteq ToSet(in.rows)

\* The sum of the rows of an asset that the overlap does not free.
Counts(in, a, r) == r.asset = a /\ r \notin ToSet(in.overlap)
Reserved(in, a) ==
    LET sum[n \in 0..Len(in.rows)] ==
            IF n = 0 THEN 0
            ELSE sum[n - 1] + IF Counts(in, a, in.rows[n]) THEN in.rows[n].amount ELSE 0
    IN  sum[Len(in.rows)]

\* -1: nothing is available, not even nothing.
Available(in, a) ==
    IF Reserved(in, a) <= Cap /\ Reserved(in, a) <= in.balance[a]
    THEN in.balance[a] - Reserved(in, a) ELSE -1

\* reservations_for_ticket: what the new transfer asks of an asset.
Requested(in, fee, a) ==
    CASE a = Native /\ in.asset = Native -> in.amount + fee
      [] a = Native /\ in.asset # Native -> fee
      [] a # Native /\ a = in.asset      -> in.amount
      [] OTHER                           -> 0
InDomain(in, fee) == Requested(in, fee, Native) <= Cap

Relevant(in) == {in.rows[i].asset : i \in 1..Len(in.rows)} \cup {in.asset, Native}

Sufficient(in, a, n) ==
    Available(in, a) >= 0 /\ n <= in.balance[a] /\ n <= Available(in, a)
Fits(in, fee) == \A a \in Relevant(in) : Sufficient(in, a, Requested(in, fee, a))

-----------------------------------------------------------------------------
(* select_affordable_fee_ceiling                                           *)

VARIABLES
    input,    \* what the chain reported and what is asked
    stage,       \* where the search is
    lo,       \* a ceiling that fits
    hi        \* a ceiling that does not

affordVars == <<input, stage, lo, hi>>

Desired(in) == in.exact + Headroom

\* affordable_ticket_reservations fails, rather than answers, outside the
\* amount domain and on inconsistent rows; the preparation ends there.
Answers(fee) == WellFormed(input) /\ InDomain(input, fee)
Fail(fee) == ~Answers(fee) /\ stage' = "error" /\ UNCHANGED <<input, lo, hi>>

\* ensure_ticket_affordable at the exact fee.
CheckExact ==
    /\ stage = "exact"
    /\ \/ Fail(input.exact)
       \/ /\ Answers(input.exact)
          /\ stage' = (IF ~Fits(input, input.exact) THEN "refused"
                    ELSE IF Headroom = 0 THEN "done" ELSE "desired")
          /\ lo' = input.exact /\ UNCHANGED <<input, hi>>

CheckDesired ==
    /\ stage = "desired"
    /\ \/ Fail(Desired(input))
       \/ /\ Answers(Desired(input)) /\ Fits(input, Desired(input))
          /\ stage' = "done" /\ lo' = Desired(input) /\ UNCHANGED <<input, hi>>
       \/ /\ Answers(Desired(input)) /\ ~Fits(input, Desired(input))
          /\ stage' = "search" /\ hi' = Desired(input) /\ UNCHANGED <<input, lo>>

\* A plausible bug: the search ends one step early.
MutStopsEarly(l, h) == l + 2 < h
Apart(l, h) == l + 1 < h

Halve ==
    /\ stage = "search" /\ Apart(lo, hi)
    /\ LET mid == lo + (hi - lo) \div 2 IN
       IF Fits(input, mid) THEN lo' = mid /\ UNCHANGED hi ELSE hi' = mid /\ UNCHANGED lo
    /\ UNCHANGED <<input, stage>>
Settle ==
    /\ stage = "search" /\ ~Apart(lo, hi)
    /\ stage' = "done" /\ UNCHANGED <<input, lo, hi>>

AffordInit ==
    /\ input \in Inputs /\ stage = "exact" /\ lo = 0 /\ hi = 0

AffordNext == CheckExact \/ CheckDesired \/ Halve \/ Settle

AffordSpec == AffordInit /\ [][AffordNext]_affordVars

AffordTypeOK ==
    /\ input \in Inputs
    /\ stage \in {"exact", "desired", "search", "done", "refused", "error"}
    /\ lo \in 0..Desired(input) /\ hi \in 0..Desired(input)

-----------------------------------------------------------------------------
(* Properties.                                                             *)

\* The ceiling chosen is the largest one, from the exact fee up to the
\* desired one, that the balances carry.
CeilingIsLargest ==
    stage = "done" =>
        /\ lo \in input.exact..Desired(input) /\ Fits(input, lo)
        /\ \A fee \in (lo + 1)..Desired(input) : ~Fits(input, fee)

\* What stays reserved (every row the grant did not name) and the new
\* transfer at its ceiling together never exceed a balance, counted row by
\* row and asset by asset.
NeverOverdraws ==
    stage = "done" =>
        \A a \in Assets :
            LET kept == {i \in 1..Len(input.rows) : /\ input.rows[i].asset = a
                                                   /\ \A j \in 1..Len(input.overlap) : input.overlap[j] # input.rows[i]}
                sum[S \in SUBSET (1..Len(input.rows))] ==
                    IF S = {} THEN 0 ELSE LET i == CHOOSE x \in S : TRUE
                                          IN  input.rows[i].amount + sum[S \ {i}]
            IN  sum[kept] + Requested(input, lo, a) <= input.balance[a]

\* The fee ceiling of a transfer is the largest the balances carry, and with it
\* nothing that is reserved is spent twice (affordability.rs).
AmountsFit == AffordTypeOK /\ CeilingIsLargest /\ NeverOverdraws
=============================================================================
