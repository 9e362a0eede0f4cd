------------------------------- MODULE Rates -------------------------------
(***************************************************************************)
(* The exchange rate of one pair of currencies: an administrator sets it,  *)
(* and a fetch stores what a public service tells.  Both look for the row  *)
(* without a lock, and no constraint keeps a second row out.               *)
(***************************************************************************)
EXTENDS Requests

CONSTANTS RateRows, Values, NoRow, NoValue

ASSUME RatesAssumption == NoRow \notin RateRows /\ NoValue \notin Values

VARIABLES
  rate,     \* the rows of exchange_rates: value and source
  setter,   \* what the workers do
  told,     \* who has told the value of a row
  crossed   \* two changes have run at the same time

rateVars == <<rate, setter, told, crossed>>

Sources == {"manual", "auto"}
Rate == [value : Values \cup {NoValue}, source : Sources]
Absent == [value |-> NoValue, source |-> "manual"]

\* row, copy: the row that was found and what was read of it; set: the change to it.
Setter == [busy : BOOLEAN, row : RateRows \cup {NoRow}, copy : Rate, set : Rate]
Unset == [busy |-> FALSE, row |-> NoRow, copy |-> Absent, set |-> Absent]

RatesTypeOK ==
  /\ rate \in [RateRows -> Rate] /\ setter \in [Workers -> Setter]
  /\ told \in [RateRows -> Sources] /\ crossed \in BOOLEAN

RatesInit ==
  /\ rate = [r \in RateRows |-> Absent]
  /\ setter = [w \in Workers |-> Unset]
  /\ told = [r \in RateRows |-> "manual"]
  /\ crossed = FALSE

Rows == {r \in RateRows : rate[r].value # NoValue}

-----------------------------------------------------------------------------
\* first() takes any row of the pair.
ReadRate(w, r, set) ==
  /\ ~setter[w].busy
  /\ \/ r \in Rows
     \/ r = NoRow /\ Rows = {}
  /\ setter' = [setter EXCEPT ![w] = [busy |-> TRUE, row |-> r, set |-> set,
       copy |-> IF r = NoRow THEN Absent ELSE rate[r]]]
  /\ crossed' = (crossed \/ \E v \in Workers : setter[v].busy)
  /\ UNCHANGED <<rate, told>>

SetRate(w, r, v) == ReadRate(w, r, [value |-> v, source |-> "manual"])

\* The service is asked before the transaction begins; without an answer, or with a
\* rate out of range, nothing is stored.
AutoFetchRates(w, r, v) == ReadRate(w, r, [value |-> v, source |-> "auto"])

InsertRate(w, r) ==
  /\ setter[w].busy /\ setter[w].row = NoRow /\ r \notin Rows
  /\ rate' = [rate EXCEPT ![r] = setter[w].set]
  /\ told' = [told EXCEPT ![r] = setter[w].set.source]
  /\ setter' = [setter EXCEPT ![w] = Unset]
  /\ UNCHANGED crossed

Store(w, new) ==
  LET r == setter[w].row IN
  /\ setter[w].busy /\ r # NoRow
  /\ rate' = [rate EXCEPT ![r] = new]
  /\ told' = IF new.value = setter[w].set.value
             THEN [told EXCEPT ![r] = setter[w].set.source] ELSE told
  /\ setter' = [setter EXCEPT ![w] = Unset]
  /\ UNCHANGED crossed

\* What the commit leaves of the value and of the source.
Value(w) == Written(rate[setter[w].row].value, setter[w].copy.value, setter[w].set.value)
Source(w) == Written(rate[setter[w].row].source, setter[w].copy.source, setter[w].set.source)

\* Variant: the source is kept as it was.
KeepSource(w) == Store(w, [rate[setter[w].row] EXCEPT !.value = Value(w)])

UpdateRate(w) == Store(w, [value |-> Value(w), source |-> Source(w)])

RateUnchanged(w) ==
  /\ setter[w].busy
  /\ setter' = [setter EXCEPT ![w] = Unset]
  /\ UNCHANGED <<rate, told, crossed>>

RatesNext ==
  \E w \in Workers :
    \/ UpdateRate(w) \/ RateUnchanged(w)
    \/ \E r \in RateRows : InsertRate(w, r)
    \/ \E r \in RateRows \cup {NoRow}, v \in Values : SetRate(w, r, v) \/ AutoFetchRates(w, r, v)

RatesSpec == RatesInit /\ [][RatesNext]_rateVars

-----------------------------------------------------------------------------
\* A pair has one rate, and its source is who told it, unless two changes of the pair
\* have run at the same time.
RateAsTold ==
  ~crossed => \A r, s \in Rows : r = s /\ rate[r].source = told[r]
=============================================================================
