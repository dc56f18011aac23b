-------------------------- MODULE MetricsTheorems ---------------------------
(***************************************************************************)
(* Lemmas about record(): what the aggregation of a call's measurements   *)
(* does to the data of one view.  The Updater proofs use them for the     *)
(* declared_resources gauge and the metrics proofs for the apply views.    *)
(***************************************************************************)
EXTENDS Metrics, TLAPS

(* record() keeps a view's data a function from its rows to counts when  *)
(* every measurement value is a count.                                     *)
LEMMA RecordType ==
    ASSUME NEW D, NEW data \in [D -> Nat], NEW view, NEW ms,
           \A m \in ms : m.value \in Nat
    PROVE  Record(data, view, ms) \in [D -> Nat]
<1>1. \A r \in D : Record(data, view, ms)[r] \in Nat
  <2> TAKE r \in D
  <2>1. CASE \E m \in ms : m.measure = Views[view].measure /\ RowOf(view, m.tags) = r
    <3> DEFINE mm == CHOOSE m \in ms : m.measure = Views[view].measure
                                      /\ RowOf(view, m.tags) = r
    <3>1. mm \in ms
      BY <2>1
    <3>2. Aggregated(view, data[r], mm.value) \in Nat
      BY <3>1 DEF Aggregated
    <3>3. QED
      BY <2>1, <3>2 DEF Record
  <2>2. CASE ~\E m \in ms : m.measure = Views[view].measure /\ RowOf(view, m.tags) = r
    BY <2>2 DEF Record
  <2>3. QED
    BY <2>1, <2>2
<1>2. QED
  BY <1>1 DEF Record

(* A view ignores a call none of whose measurements is of its measure.    *)
LEMMA RecordOtherMeasure ==
    ASSUME NEW D, NEW data \in [D -> Nat], NEW view, NEW ms,
           \A m \in ms : m.measure # Views[view].measure
    PROVE  Record(data, view, ms) = data
BY DEF Record

(* A LastValue view that records one measurement of its measure sets the *)
(* measurement's row to its value and keeps every other row: the gauge    *)
(* semantics of RecordDeclaredResources and RecordLastSync.               *)
LEMMA RecordLastValue ==
    ASSUME NEW D, NEW data \in [D -> Nat], NEW view, NEW m,
           Views[view].aggregation = "LastValue",
           m.measure = Views[view].measure,
           RowOf(view, m.tags) \in D
    PROVE  /\ Record(data, view, {m})[RowOf(view, m.tags)] = m.value
           /\ \A r \in D \ {RowOf(view, m.tags)} : Record(data, view, {m})[r] = data[r]
<1> DEFINE row == RowOf(view, m.tags)
<1>1. (CHOOSE x \in {m} : x.measure = Views[view].measure /\ RowOf(view, x.tags) = row) = m
  OBVIOUS
<1>2. Record(data, view, {m})[row] = m.value
  BY <1>1 DEF Record, Aggregated
<1>3. \A r \in D \ {row} : Record(data, view, {m})[r] = data[r]
  BY DEF Record
<1>4. QED
  BY <1>2, <1>3

(* The collector's max over the rows that agree on the kept labels is    *)
(* the value of a row that bounds every other row of its series.          *)
LEMMA AggregateMax ==
    ASSUME NEW data, NEW labelSet, NEW r0 \in DOMAIN data, data[r0] \in Nat,
           \A r \in DOMAIN data :
               [k \in labelSet |-> r[k]] = [k \in labelSet |-> r0[k]]
                   => data[r] \in Nat /\ data[r] <= data[r0]
    PROVE  AggregateLabelsMax(data, labelSet)[[k \in labelSet |-> r0[k]]] = data[r0]
<1> DEFINE Kept(r) == [k \in labelSet |-> r[k]]
           Vals == {data[r] : r \in {q \in DOMAIN data : Kept(q) = Kept(r0)}}
           top == CHOOSE v \in Vals : \A w \in Vals : w <= v
<1>1. data[r0] \in Vals /\ \A w \in Vals : w \in Nat /\ w <= data[r0]
  OBVIOUS
<1>2. top \in Vals /\ \A w \in Vals : w <= top
  BY <1>1
<1>3. top = data[r0]
  BY <1>1, <1>2
<1>4. AggregateLabelsMax(data, labelSet)[Kept(r0)] = top
  BY DEF AggregateLabelsMax
<1>5. QED
  BY <1>3, <1>4

=============================================================================
