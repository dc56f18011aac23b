---------------------------- MODULE MetricsProofs ----------------------------
(***************************************************************************)
(* Proof that the two views RecordApplyDuration writes stay in step, for  *)
(* every tag domain and bound.                                             *)
(*                                                                         *)
(* ApplyViewsAgree is inductive once the two views are known to be        *)
(* functions from the same rows to counts and the clock to be positive:   *)
(* a call of another recorder leaves both views alone (no measurement of  *)
(* their measures), and RecordApplyDuration puts its two measurements,     *)
(* with one tag map, in the same row of each view, a count of at least 1  *)
(* in one and a timestamp of at least 1 in the other.                      *)
(***************************************************************************)
EXTENDS MetricsRecorders, MetricsTheorems, TLAPS

AD == "ApplyDurationView"
LA == "LastApplyTimestampView"

LS == "LastSyncTimestampView"
RE == "ReconcilerErrorsView"

(* The last_sync_timestamp rows of a status hold times no later than the  *)
(* status's last sync, one of them holds that time, and the clock has     *)
(* moved past every sync.                                                  *)
SyncInv ==
    /\ \A r \in Rows(LS) :
           r[KeyStatus] \in Values(KeyStatus) => views[LS][r] <= lastSyncAt[r[KeyStatus]]
    /\ \A s \in Values(KeyStatus) :
           \E r \in Rows(LS) : r[KeyStatus] = s /\ views[LS][r] = lastSyncAt[s]
    /\ \A s \in Values(KeyStatus) : lastSyncAt[s] < now

(* The row of a component and a supported class in last_reconciler_errors *)
(* holds the count the component last reported for the class, or 0.      *)
ErrInv ==
    \A c \in Values(KeyComponent), k \in SupportedErrorClasses :
        views[RE][[component |-> c, errorclass |-> k]]
            = IF k \in DOMAIN lastErrs[c] THEN lastErrs[c][k] ELSE 0

AInv ==
    /\ now \in Nat \ {0}
    /\ views[AD] \in [Rows(AD) -> Nat]
    /\ views[LA] \in [Rows(AD) -> Nat]
    /\ ApplyViewsAgree

(* The two views have the same tag keys, hence the same rows.             *)
LEMMA SameRows == Rows(LA) = Rows(AD)
BY DEF Rows, ViewRows, Views, AD, LA

LEMMA ViewFacts ==
    /\ AD \in DOMAIN Views /\ LA \in DOMAIN Views
    /\ Views[AD].measure = "ApplyDuration" /\ Views[AD].aggregation = "Distribution"
    /\ Views[LA].measure = "LastApply" /\ Views[LA].aggregation = "LastValue"
BY DEF Views, AD, LA

(* A call of a recorder other than RecordApplyDuration keeps AInv.       *)
LEMMA OtherCall ==
    ASSUME AInv, NEW ms, Recorded(ms),
           \A m \in ms : m.measure \notin {"ApplyDuration", "LastApply"}
    PROVE  AInv'
<1>1. views'[AD] = views[AD]
  BY ViewFacts, RecordOtherMeasure DEF Recorded, AInv
<1>2. views'[LA] = views[LA]
  BY ViewFacts, RecordOtherMeasure, SameRows DEF Recorded, AInv
<1>3. now' \in Nat \ {0}
  BY DEF Recorded, AInv
<1>4. QED
  BY <1>1, <1>2, <1>3 DEF AInv, ApplyViewsAgree, AD, LA

THEOREM InitAInv == MetricsInit => AInv
BY ViewFacts, SameRows DEF MetricsInit, AInv, ApplyViewsAgree, AD, LA

(* The step of RecordApplyDuration.                                       *)
LEMMA ApplyCall ==
    ASSUME AInv, CallApplyDuration
    PROVE  AInv'
<1>1. PICK st \in Values(KeyStatus), c \in Values(KeyCommit) :
              Recorded(RecordApplyDuration(st, c, now))
  BY DEF CallApplyDuration
<1> DEFINE tags == [status |-> st, commit |-> IF c = EmptyTag THEN CommitNone ELSE c]
           dm == Measurement("ApplyDuration", tags, 0)
           lm == Measurement("LastApply", tags, now)
           row == RowOf(AD, tags)
<1>2. RecordApplyDuration(st, c, now) = {dm, lm}
  BY DEF RecordApplyDuration
<1>3. RowOf(LA, tags) = row
  BY DEF RowOf, Views, AD, LA
<1>4. /\ views'[AD] = Record(views[AD], AD, {dm, lm})
      /\ views'[LA] = Record(views[LA], LA, {dm, lm})
  BY <1>1, <1>2, ViewFacts DEF Recorded
<1>5. \A r \in Rows(AD) : views'[AD][r] = IF row = r THEN views[AD][r] + 1 ELSE views[AD][r]
  <2>1. \A r \in Rows(AD) : Record(views[AD], AD, {dm, lm})[r]
            = IF RowOf(AD, dm.tags) = r THEN Aggregated(AD, views[AD][r], dm.value)
                                        ELSE views[AD][r]
    <3>1. dm.measure = Views[AD].measure /\ lm.measure # Views[AD].measure
      BY ViewFacts DEF Measurement
    <3>3. views[AD] \in [Rows(AD) -> Nat]
      BY DEF AInv
    <3> TAKE r \in Rows(AD)
    <3>4. CASE RowOf(AD, dm.tags) = r
      <4>1. (CHOOSE m \in {dm, lm} : m.measure = Views[AD].measure /\ RowOf(AD, m.tags) = r)
              = dm
        BY <3>1, <3>4
      <4>2. QED
        BY <3>1, <3>3, <3>4, <4>1 DEF Record
    <3>5. CASE RowOf(AD, dm.tags) # r
      BY <3>1, <3>3, <3>5 DEF Record
    <3>6. QED
      BY <3>4, <3>5
  <2>2. \A x : Aggregated(AD, x, 0) = x + 1
    BY ViewFacts DEF Aggregated
  <2>3. QED
    BY <1>4, <2>1, <2>2 DEF Measurement
<1>6. \A r \in Rows(AD) : views'[LA][r] = IF row = r THEN now ELSE views[LA][r]
  <2>1. \A r \in Rows(AD) : Record(views[LA], LA, {dm, lm})[r]
            = IF RowOf(LA, lm.tags) = r THEN Aggregated(LA, views[LA][r], lm.value)
                                        ELSE views[LA][r]
    <3>1. lm.measure = Views[LA].measure /\ dm.measure # Views[LA].measure
      BY ViewFacts DEF Measurement
    <3>3. views[LA] \in [Rows(AD) -> Nat]
      BY DEF AInv
    <3> TAKE r \in Rows(AD)
    <3>4. CASE RowOf(LA, lm.tags) = r
      <4>1. (CHOOSE m \in {dm, lm} : m.measure = Views[LA].measure /\ RowOf(LA, m.tags) = r)
              = lm
        BY <3>1, <3>4
      <4>2. QED
        BY <3>1, <3>3, <3>4, <4>1 DEF Record
    <3>5. CASE RowOf(LA, lm.tags) # r
      BY <3>1, <3>3, <3>5 DEF Record
    <3>6. QED
      BY <3>4, <3>5
  <2>2. \A x, y : Aggregated(LA, x, y) = y
    BY ViewFacts DEF Aggregated
  <2>3. QED
    BY <1>3, <1>4, <2>1, <2>2 DEF Measurement
<1>7. views'[AD] \in [Rows(AD) -> Nat] /\ views'[LA] \in [Rows(AD) -> Nat]
  <2>1. \A m \in {dm, lm} : m.value \in Nat
    BY DEF AInv, Measurement
  <2>2. QED
    BY <1>4, <2>1, RecordType DEF AInv
<1>8. now' \in Nat \ {0}
  BY <1>1 DEF Recorded, AInv
<1>9. ApplyViewsAgree'
  BY <1>5, <1>6, <1>7, <1>8 DEF AInv, ApplyViewsAgree, AD, LA
<1>10. QED
  BY <1>7, <1>8, <1>9 DEF AInv

THEOREM NextAInv == AInv /\ [MetricsNext]_metricsVars => AInv'
<1> SUFFICES ASSUME AInv, [MetricsNext]_metricsVars PROVE AInv'
  OBVIOUS
<1>1. CASE CallAPICallDuration
  <2> PICK op, st : Recorded(RecordAPICallDuration(op, st))
    BY <1>1 DEF CallAPICallDuration
  <2> QED
    BY OtherCall DEF RecordAPICallDuration, Measurement
<1>2. CASE CallReconcilerErrors
  <2> PICK c, m : Recorded(RecordReconcilerErrors(c, m))
    BY <1>2 DEF CallReconcilerErrors
  <2> QED
    BY OtherCall DEF RecordReconcilerErrors, Measurement
<1>3. CASE CallPipelineError
  <2> PICK t, c, n : Recorded(RecordPipelineError(t, c, n))
    BY <1>3 DEF CallPipelineError
  <2> QED
    BY OtherCall DEF RecordPipelineError, Measurement
<1>4. CASE CallReconcileDuration
  <2> PICK st : Recorded(RecordReconcileDuration(st))
    BY <1>4 DEF CallReconcileDuration
  <2> QED
    BY OtherCall DEF RecordReconcileDuration, Measurement
<1>5. CASE CallParserDuration
  <2> PICK t, src, st : Recorded(RecordParserDuration(t, src, st))
    BY <1>5 DEF CallParserDuration
  <2> QED
    BY OtherCall DEF RecordParserDuration, Measurement
<1>6. CASE CallLastSync
  <2> PICK st, c : Recorded(RecordLastSync(st, c, now))
    BY <1>6 DEF CallLastSync
  <2> QED
    BY OtherCall DEF RecordLastSync, Measurement
<1>7. CASE CallDeclaredResources
  <2> PICK c, n : Recorded(RecordDeclaredResources(c, n))
    BY <1>7 DEF CallDeclaredResources
  <2> QED
    BY OtherCall DEF RecordDeclaredResources, Measurement
<1>8. CASE CallApplyOperation
  <2> PICK ctl, op, st : Recorded(RecordApplyOperation(ctl, op, st))
    BY <1>8 DEF CallApplyOperation
  <2> QED
    BY OtherCall DEF RecordApplyOperation, Measurement
<1>9. CASE CallApplyDuration
  BY <1>9, ApplyCall
<1>10. CASE CallResourceFight
  BY <1>10, OtherCall DEF CallResourceFight, RecordResourceFight, Measurement
<1>11. CASE CallRemediateDuration
  <2> PICK st : Recorded(RecordRemediateDuration(st))
    BY <1>11 DEF CallRemediateDuration
  <2> QED
    BY OtherCall DEF RecordRemediateDuration, Measurement
<1>12. CASE CallResourceConflict
  <2> PICK c : Recorded(RecordResourceConflict(c))
    BY <1>12 DEF CallResourceConflict
  <2> QED
    BY OtherCall DEF RecordResourceConflict, Measurement
<1>13. CASE CallInternalError
  <2> PICK src : Recorded(RecordInternalError(src))
    BY <1>13 DEF CallInternalError
  <2> QED
    BY OtherCall DEF RecordInternalError, Measurement
<1>14. CASE UNCHANGED metricsVars
  BY <1>14 DEF metricsVars, AInv, ApplyViewsAgree
<1>15. QED
  BY <1>1, <1>2, <1>3, <1>4, <1>5, <1>6, <1>7, <1>8, <1>9, <1>10, <1>11,
     <1>12, <1>13, <1>14 DEF MetricsNext

(* Whatever the callers record, a (commit, status) row of                 *)
(* apply_duration_seconds has counted an apply exactly when the same row  *)
(* of last_apply_timestamp holds a time (RecordApplyDuration's single     *)
(* record call with shared tags).                                          *)
THEOREM ApplyViewsInStep == MetricsSpec => []ApplyViewsAgree
<1>1. AInv => ApplyViewsAgree
  BY DEF AInv
<1>2. QED
  BY <1>1, InitAInv, NextAInv, PTL DEF MetricsSpec

-----------------------------------------------------------------------------
(* Type correctness: every recorder records counts, times and error       *)
(* counts, which keep every view a function from its rows to naturals.    *)

LEMMA RecordedType ==
    ASSUME MetricsTypeOK, NEW ms, Recorded(ms), \A m \in ms : m.value \in Nat
    PROVE  /\ \A v \in DOMAIN Views : views'[v] \in [Rows(v) -> Nat]
           /\ now' \in 1..MaxTime + 1
<1>1. ASSUME NEW v \in DOMAIN Views PROVE views'[v] \in [Rows(v) -> Nat]
  <2>1. views[v] \in [Rows(v) -> Nat]
    BY DEF MetricsTypeOK
  <2>2. views'[v] = Record(views[v], v, ms)
    BY DEF Recorded
  <2>3. QED
    BY <2>1, <2>2, RecordType
<1>2. now' \in 1..MaxTime + 1
  BY MetricsAssumption DEF Recorded, MetricsTypeOK
<1>3. QED
  BY <1>1, <1>2

(* The recorded values of every call are naturals.                        *)
LEMMA CallValues ==
    ASSUME MetricsTypeOK
    PROVE  /\ \A op, st : \A m \in RecordAPICallDuration(op, st) : m.value \in Nat
           /\ \A c : \A e \in ErrorCounts : \A m \in RecordReconcilerErrors(c, e) : m.value \in Nat
           /\ \A t, c, n : \A m \in RecordPipelineError(t, c, n) : m.value \in Nat
           /\ \A st : \A m \in RecordReconcileDuration(st) : m.value \in Nat
           /\ \A t, src, st : \A m \in RecordParserDuration(t, src, st) : m.value \in Nat
           /\ \A st, c : \A m \in RecordLastSync(st, c, now) : m.value \in Nat
           /\ \A c : \A n \in 0..1 : \A m \in RecordDeclaredResources(c, n) : m.value \in Nat
           /\ \A ctl, op, st : \A m \in RecordApplyOperation(ctl, op, st) : m.value \in Nat
           /\ \A st, c : \A m \in RecordApplyDuration(st, c, now) : m.value \in Nat
           /\ \A m \in RecordResourceFight : m.value \in Nat
           /\ \A st : \A m \in RecordRemediateDuration(st) : m.value \in Nat
           /\ \A c : \A m \in RecordResourceConflict(c) : m.value \in Nat
           /\ \A src : \A m \in RecordInternalError(src) : m.value \in Nat
<1>1. \A e \in ErrorCounts : \A k \in DOMAIN e : e[k] \in Nat
  BY MetricsAssumption DEF ErrorCounts
<1>2. now \in Nat
  BY DEF MetricsTypeOK
<1>3. QED
  BY <1>1, <1>2 DEF RecordAPICallDuration, RecordReconcilerErrors, RecordPipelineError,
     RecordReconcileDuration, RecordParserDuration, RecordLastSync,
     RecordDeclaredResources, RecordApplyOperation, RecordApplyDuration,
     RecordResourceFight, RecordRemediateDuration, RecordResourceConflict,
     RecordInternalError, Measurement

THEOREM MetricsTypeStep == MetricsTypeOK /\ [MetricsNext]_metricsVars => MetricsTypeOK'
<1> SUFFICES ASSUME MetricsTypeOK, [MetricsNext]_metricsVars PROVE MetricsTypeOK'
  OBVIOUS
<1>1. CASE UNCHANGED metricsVars
  BY <1>1 DEF metricsVars, MetricsTypeOK
<1>2. CASE MetricsNext
  <2>1. PICK ms : /\ Recorded(ms)
                  /\ \A m \in ms : m.value \in Nat
                  /\ lastErrs' \in [Values(KeyComponent) -> ErrorCounts]
                  /\ lastSyncAt' \in [Values(KeyStatus) -> Nat]
    <3> USE CallValues DEF MetricsTypeOK
    <3>1. CASE CallAPICallDuration
      BY <3>1 DEF CallAPICallDuration
    <3>2. CASE CallReconcilerErrors
      BY <3>2 DEF CallReconcilerErrors
    <3>3. CASE CallPipelineError
      BY <3>3 DEF CallPipelineError
    <3>4. CASE CallReconcileDuration
      BY <3>4 DEF CallReconcileDuration
    <3>5. CASE CallParserDuration
      BY <3>5 DEF CallParserDuration
    <3>6. CASE CallLastSync
      <4>1. PICK st \in Values(KeyStatus), c \in Values(KeyCommit) :
                  /\ Recorded(RecordLastSync(st, c, now))
                  /\ lastSyncAt' = [lastSyncAt EXCEPT ![st] = now]
                  /\ UNCHANGED lastErrs
        BY <3>6 DEF CallLastSync
      <4>2. QED
        BY <4>1
    <3>7. CASE CallDeclaredResources
      BY <3>7 DEF CallDeclaredResources
    <3>8. CASE CallApplyOperation
      BY <3>8 DEF CallApplyOperation
    <3>9. CASE CallApplyDuration
      BY <3>9 DEF CallApplyDuration
    <3>10. CASE CallResourceFight
      BY <3>10 DEF CallResourceFight
    <3>11. CASE CallRemediateDuration
      BY <3>11 DEF CallRemediateDuration
    <3>12. CASE CallResourceConflict
      BY <3>12 DEF CallResourceConflict
    <3>13. CASE CallInternalError
      BY <3>13 DEF CallInternalError
    <3>14. QED
      BY <1>2, <3>1, <3>2, <3>3, <3>4, <3>5, <3>6, <3>7, <3>8, <3>9, <3>10,
         <3>11, <3>12, <3>13 DEF MetricsNext
  <2>2. QED
    BY <2>1, RecordedType DEF MetricsTypeOK
<1>3. QED
  BY <1>1, <1>2

THEOREM InitMetricsType == MetricsInit => MetricsTypeOK
<1> SUFFICES ASSUME MetricsInit PROVE MetricsTypeOK
  OBVIOUS
<1>1. <<>> \in ErrorCounts
  <2>1. <<>> \in [{} -> 1..MaxErrors]
    OBVIOUS
  <2>2. {} \in SUBSET SupportedErrorClasses
    OBVIOUS
  <2>3. QED
    BY <2>1, <2>2 DEF ErrorCounts
<1>2. QED
  BY <1>1, MetricsAssumption DEF MetricsInit, MetricsTypeOK

(* Whatever the callers record, in any order, every view of views.go maps *)
(* its rows to naturals and the clock stays within the calls' bound: a    *)
(* Count or Distribution row is only ever counted up, and a LastValue row *)
(* only takes a count, a time or an error count.                          *)
THEOREM MetricsTypeCorrect == MetricsSpec => []MetricsTypeOK
BY InitMetricsType, MetricsTypeStep, PTL DEF MetricsSpec

-----------------------------------------------------------------------------
(* last_sync_timestamp.  The collector exports, per status, the largest   *)
(* of the status's rows, one per commit.  SyncInv says that largest value *)
(* is the time of the status's last sync: a sync writes the clock into    *)
(* its row, and the clock has moved past every earlier sync.              *)

(* The row a sync with a status and a commit falls in is a row of the     *)
(* view, of that status.                                                   *)
LEMMA SyncRow ==
    ASSUME NEW st \in Values(KeyStatus), NEW c \in Values(KeyCommit)
    PROVE  /\ RowOf(LS, [status |-> st, commit |-> c]) \in Rows(LS)
           /\ RowOf(LS, [status |-> st, commit |-> c])[KeyStatus] = st
<1> DEFINE row == RowOf(LS, [status |-> st, commit |-> c])
<1>1. Views[LS].keys = {KeyCommit, KeyStatus} /\ LS \in DOMAIN Views
  BY DEF Views, LS
<1>2. KeyCommit \in DOMAIN TagDomain /\ KeyStatus \in DOMAIN TagDomain
  BY <1>1, MetricsAssumption
<1>3. row = [k \in {KeyCommit, KeyStatus} |-> IF k = KeyCommit THEN c ELSE st]
  BY <1>1 DEF RowOf, KeyCommit, KeyStatus
<1>4. row[KeyCommit] \in RowValues(KeyCommit) /\ row[KeyStatus] \in RowValues(KeyStatus)
  BY <1>3 DEF RowValues, KeyCommit, KeyStatus
<1>5. row \in [Views[LS].keys -> TagUniverse]
  BY <1>1, <1>2, <1>3, <1>4 DEF TagUniverse
<1>6. QED
  BY <1>1, <1>3, <1>4, <1>5 DEF Rows, ViewRows, KeyCommit, KeyStatus

LEMMA SyncFacts ==
    /\ LS \in DOMAIN Views
    /\ Views[LS].measure = "LastSync" /\ Views[LS].aggregation = "LastValue"
BY DEF Views, LS

THEOREM InitSync == MetricsInit => SyncInv
<1> SUFFICES ASSUME MetricsInit PROVE SyncInv
  OBVIOUS
<1>1. views[LS] = [r \in Rows(LS) |-> 0] /\ now = 1
  BY SyncFacts DEF MetricsInit
<1>2. ASSUME NEW s \in Values(KeyStatus)
      PROVE  \E r \in Rows(LS) : r[KeyStatus] = s /\ views[LS][r] = lastSyncAt[s]
  <2>1. EmptyTag \in Values(KeyCommit)
    BY DEF Values
  <2>2. /\ RowOf(LS, [status |-> s, commit |-> EmptyTag]) \in Rows(LS)
        /\ RowOf(LS, [status |-> s, commit |-> EmptyTag])[KeyStatus] = s
    BY <2>1, SyncRow
  <2>3. QED
    BY <1>1, <2>2 DEF MetricsInit
<1>3. \A r \in Rows(LS) :
          r[KeyStatus] \in Values(KeyStatus) => views[LS][r] <= lastSyncAt[r[KeyStatus]]
  BY <1>1 DEF MetricsInit
<1>4. \A s \in Values(KeyStatus) : lastSyncAt[s] < now
  BY <1>1 DEF MetricsInit
<1>5. QED
  BY <1>2, <1>3, <1>4 DEF SyncInv

(* A call of a recorder other than RecordLastSync keeps SyncInv.          *)
LEMMA SyncOther ==
    ASSUME MetricsTypeOK, SyncInv, NEW ms, Recorded(ms),
           \A m \in ms : m.measure # "LastSync", UNCHANGED lastSyncAt
    PROVE  SyncInv'
<1>1. views'[LS] = views[LS]
  BY SyncFacts, RecordOtherMeasure DEF Recorded, MetricsTypeOK
<1>2. now' = now + 1 /\ now \in Nat
  BY DEF Recorded, MetricsTypeOK
<1>3. QED
  BY <1>1, <1>2 DEF SyncInv, MetricsTypeOK

(* The step of RecordLastSync.                                            *)
LEMMA SyncCall ==
    ASSUME MetricsTypeOK, SyncInv, CallLastSync
    PROVE  SyncInv'
<1>1. PICK st \in Values(KeyStatus), c \in Values(KeyCommit) :
              /\ Recorded(RecordLastSync(st, c, now))
              /\ lastSyncAt' = [lastSyncAt EXCEPT ![st] = now]
  BY DEF CallLastSync
<1> DEFINE sm == Measurement("LastSync", [status |-> st, commit |-> c], now)
           row0 == RowOf(LS, sm.tags)
<1>2. row0 \in Rows(LS) /\ row0[KeyStatus] = st
  BY SyncRow DEF Measurement
<1>3. /\ views'[LS] = Record(views[LS], LS, {sm})
      /\ now' = now + 1
  BY <1>1, SyncFacts DEF Recorded, RecordLastSync
<1>4. /\ views'[LS][row0] = now
      /\ \A r \in Rows(LS) \ {row0} : views'[LS][r] = views[LS][r]
  <2>1. views[LS] \in [Rows(LS) -> Nat] /\ sm.measure = Views[LS].measure
    BY SyncFacts DEF MetricsTypeOK, Measurement
  <2>2. /\ Record(views[LS], LS, {sm})[row0] = sm.value
        /\ \A r \in Rows(LS) \ {row0} : Record(views[LS], LS, {sm})[r] = views[LS][r]
    BY <1>2, <2>1, SyncFacts, RecordLastValue
  <2>3. QED
    BY <1>3, <2>2 DEF Measurement
<1>5. now \in Nat /\ lastSyncAt \in [Values(KeyStatus) -> Nat]
  BY DEF MetricsTypeOK
<1>6. ASSUME NEW r \in Rows(LS), r[KeyStatus] \in Values(KeyStatus)
      PROVE  views'[LS][r] <= lastSyncAt'[r[KeyStatus]]
  <2>1. CASE r = row0
    BY <1>1, <1>2, <1>4, <1>5, <2>1
  <2>2. CASE r # row0
    <3>1. views[LS][r] <= lastSyncAt[r[KeyStatus]]
      BY <1>6 DEF SyncInv
    <3>2. lastSyncAt[st] < now
      BY DEF SyncInv
    <3>3. views[LS][r] \in Nat
      BY SyncFacts DEF MetricsTypeOK
    <3>4. QED
      BY <1>1, <1>4, <1>5, <1>6, <2>2, <3>1, <3>2, <3>3
  <2>3. QED
    BY <2>1, <2>2
<1>7. ASSUME NEW s \in Values(KeyStatus)
      PROVE  \E r \in Rows(LS) : r[KeyStatus] = s /\ views'[LS][r] = lastSyncAt'[s]
  <2>1. CASE s = st
    BY <1>1, <1>2, <1>4, <1>5, <2>1
  <2>2. CASE s # st
    <3>1. PICK r \in Rows(LS) : r[KeyStatus] = s /\ views[LS][r] = lastSyncAt[s]
      BY DEF SyncInv
    <3>2. r # row0
      BY <1>2, <2>2, <3>1
    <3>3. QED
      BY <1>1, <1>4, <1>5, <2>2, <3>1, <3>2
  <2>3. QED
    BY <2>1, <2>2
<1>8. \A s \in Values(KeyStatus) : lastSyncAt'[s] < now'
  BY <1>1, <1>3, <1>5 DEF SyncInv
<1>9. QED
  BY <1>6, <1>7, <1>8 DEF SyncInv

LEMMA SyncStep ==
    MetricsTypeOK /\ SyncInv /\ [MetricsNext]_metricsVars => SyncInv'
<1> SUFFICES ASSUME MetricsTypeOK, SyncInv, [MetricsNext]_metricsVars PROVE SyncInv'
  OBVIOUS
<1>1. CASE CallAPICallDuration
  <2> PICK op, st : Recorded(RecordAPICallDuration(op, st))
    BY <1>1 DEF CallAPICallDuration
  <2> QED
    BY <1>1, SyncOther DEF CallAPICallDuration, RecordAPICallDuration, Measurement
<1>2. CASE CallReconcilerErrors
  <2> PICK c, m : Recorded(RecordReconcilerErrors(c, m)) /\ UNCHANGED lastSyncAt
    BY <1>2 DEF CallReconcilerErrors
  <2> QED
    BY SyncOther DEF RecordReconcilerErrors, Measurement
<1>3. CASE CallPipelineError
  <2> PICK t, c, n : Recorded(RecordPipelineError(t, c, n))
    BY <1>3 DEF CallPipelineError
  <2> QED
    BY <1>3, SyncOther DEF CallPipelineError, RecordPipelineError, Measurement
<1>4. CASE CallReconcileDuration
  <2> PICK st : Recorded(RecordReconcileDuration(st))
    BY <1>4 DEF CallReconcileDuration
  <2> QED
    BY <1>4, SyncOther DEF CallReconcileDuration, RecordReconcileDuration, Measurement
<1>5. CASE CallParserDuration
  <2> PICK t, src, st : Recorded(RecordParserDuration(t, src, st))
    BY <1>5 DEF CallParserDuration
  <2> QED
    BY <1>5, SyncOther DEF CallParserDuration, RecordParserDuration, Measurement
<1>6. CASE CallLastSync
  BY <1>6, SyncCall
<1>7. CASE CallDeclaredResources
  <2> PICK c, n : Recorded(RecordDeclaredResources(c, n))
    BY <1>7 DEF CallDeclaredResources
  <2> QED
    BY <1>7, SyncOther DEF CallDeclaredResources, RecordDeclaredResources, Measurement
<1>8. CASE CallApplyOperation
  <2> PICK ctl, op, st : Recorded(RecordApplyOperation(ctl, op, st))
    BY <1>8 DEF CallApplyOperation
  <2> QED
    BY <1>8, SyncOther DEF CallApplyOperation, RecordApplyOperation, Measurement
<1>9. CASE CallApplyDuration
  <2> PICK st, c : Recorded(RecordApplyDuration(st, c, now))
    BY <1>9 DEF CallApplyDuration
  <2> QED
    BY <1>9, SyncOther DEF CallApplyDuration, RecordApplyDuration, Measurement
<1>10. CASE CallResourceFight
  BY <1>10, SyncOther DEF CallResourceFight, RecordResourceFight, Measurement
<1>11. CASE CallRemediateDuration
  <2> PICK st : Recorded(RecordRemediateDuration(st))
    BY <1>11 DEF CallRemediateDuration
  <2> QED
    BY <1>11, SyncOther DEF CallRemediateDuration, RecordRemediateDuration, Measurement
<1>12. CASE CallResourceConflict
  <2> PICK c : Recorded(RecordResourceConflict(c)) /\ UNCHANGED lastSyncAt
    BY <1>12 DEF CallResourceConflict
  <2> QED
    BY SyncOther DEF RecordResourceConflict, Measurement
<1>13. CASE CallInternalError
  <2> PICK src : Recorded(RecordInternalError(src))
    BY <1>13 DEF CallInternalError
  <2> QED
    BY <1>13, SyncOther DEF CallInternalError, RecordInternalError, Measurement
<1>14. CASE UNCHANGED metricsVars
  BY <1>14 DEF metricsVars, SyncInv
<1>15. QED
  BY <1>1, <1>2, <1>3, <1>4, <1>5, <1>6, <1>7, <1>8, <1>9, <1>10, <1>11,
     <1>12, <1>13, <1>14 DEF MetricsNext

(* SyncInv fixes what the collector exports for a status.                 *)
LEMMA SyncExported ==
    MetricsTypeOK /\ SyncInv => LastSyncExportedIsLatest
<1> SUFFICES ASSUME MetricsTypeOK, SyncInv, NEW s \in Values(KeyStatus)
             PROVE  Exported(LS, {KeyStatus})[[status |-> s]] = lastSyncAt[s]
  BY DEF LastSyncExportedIsLatest, LS
<1>1. views[LS] \in [Rows(LS) -> Nat]
  BY SyncFacts DEF MetricsTypeOK
<1>2. PICK r0 \in Rows(LS) : r0[KeyStatus] = s /\ views[LS][r0] = lastSyncAt[s]
  BY DEF SyncInv
<1>3. \A r \in Rows(LS) :
          [k \in {KeyStatus} |-> r[k]] = [k \in {KeyStatus} |-> r0[k]]
              => views[LS][r] \in Nat /\ views[LS][r] <= views[LS][r0]
  <2> TAKE r \in Rows(LS)
  <2> HAVE [k \in {KeyStatus} |-> r[k]] = [k \in {KeyStatus} |-> r0[k]]
  <2>1. r[KeyStatus] = s
    BY <1>2
  <2>2. QED
    BY <1>1, <1>2, <2>1 DEF SyncInv
<1>4. AggregateLabelsMax(views[LS], {KeyStatus})[[k \in {KeyStatus} |-> r0[k]]]
        = views[LS][r0]
  BY <1>1, <1>2, <1>3, AggregateMax
<1>5. [k \in {KeyStatus} |-> r0[k]] = [status |-> s]
  BY <1>2 DEF KeyStatus
<1>6. QED
  BY <1>2, <1>4, <1>5 DEF Exported

(* last_sync_timestamp with the commit label aggregated away reads, for   *)
(* each status, the time of the last RecordLastSync with that status,     *)
(* whatever commits the syncs were at and in whatever order the callers   *)
(* record: a stale commit's stream never holds a later time.              *)
THEOREM LastSyncSafety == MetricsSpec => []LastSyncExportedIsLatest
BY InitMetricsType, InitSync, MetricsTypeStep, SyncStep, SyncExported, PTL
   DEF MetricsSpec

-----------------------------------------------------------------------------
(* last_reconciler_errors.  Its rows are keyed by every label the         *)
(* collector keeps, so each exported series is one row, and ErrInv says   *)
(* that row holds what the component last reported: RecordReconcilerErrors *)
(* records every supported class, absent ones as 0, into the component's  *)
(* rows and no other.                                                      *)

ErrRowOf(c, k) == [component |-> c, errorclass |-> k]

LEMMA ErrFacts ==
    /\ RE \in DOMAIN Views
    /\ Views[RE].measure = "ReconcilerErrors" /\ Views[RE].aggregation = "LastValue"
    /\ Views[RE].keys = {KeyComponent, KeyErrorClass}
BY DEF Views, RE

(* The row of a component and a supported class is a row of the view.     *)
LEMMA ErrRow ==
    ASSUME NEW c \in Values(KeyComponent), NEW k \in SupportedErrorClasses
    PROVE  /\ ErrRowOf(c, k) \in Rows(RE)
           /\ RowOf(RE, ErrRowOf(c, k)) = ErrRowOf(c, k)
<1>1. KeyComponent \in DOMAIN TagDomain /\ KeyErrorClass \in DOMAIN TagDomain
  BY ErrFacts, MetricsAssumption
<1>2. ErrRowOf(c, k) = [x \in {KeyComponent, KeyErrorClass} |->
                           IF x = KeyComponent THEN c ELSE k]
  BY DEF ErrRowOf, KeyComponent, KeyErrorClass
<1>3. c \in RowValues(KeyComponent) /\ k \in RowValues(KeyErrorClass)
  BY MetricsAssumption DEF RowValues, Values, KeyComponent, KeyErrorClass
<1>4. ErrRowOf(c, k) \in [Views[RE].keys -> TagUniverse]
  BY <1>1, <1>2, <1>3, ErrFacts DEF TagUniverse
<1>5. ErrRowOf(c, k) \in Rows(RE)
  BY <1>2, <1>3, <1>4, ErrFacts DEF Rows, ViewRows
<1>6. RowOf(RE, ErrRowOf(c, k)) = ErrRowOf(c, k)
  BY <1>2, ErrFacts DEF RowOf, ErrRowOf, KeyComponent, KeyErrorClass
<1>7. QED
  BY <1>5, <1>6

THEOREM InitErr == MetricsInit => ErrInv
<1> SUFFICES ASSUME MetricsInit,
                    NEW c \in Values(KeyComponent), NEW k \in SupportedErrorClasses
             PROVE  views[RE][ErrRowOf(c, k)] = 0 /\ k \notin DOMAIN lastErrs[c]
  BY DEF ErrInv, ErrRowOf
<1>1. views[RE] = [r \in Rows(RE) |-> 0]
  BY ErrFacts DEF MetricsInit
<1>2. QED
  BY <1>1, ErrRow DEF MetricsInit

(* The step of RecordReconcilerErrors.                                    *)
LEMMA ErrCall ==
    ASSUME MetricsTypeOK, ErrInv, CallReconcilerErrors
    PROVE  ErrInv'
<1>1. PICK c0 \in Values(KeyComponent), e \in ErrorCounts :
              /\ Recorded(RecordReconcilerErrors(c0, e))
              /\ lastErrs' = [lastErrs EXCEPT ![c0] = e]
  BY DEF CallReconcilerErrors
<1> DEFINE Val(k) == IF k \in DOMAIN e THEN e[k] ELSE 0
           M(k) == Measurement("ReconcilerErrors", ErrRowOf(c0, k), Val(k))
           ms == RecordReconcilerErrors(c0, e)
<1>2. ms = {M(k) : k \in SupportedErrorClasses}
  BY DEF RecordReconcilerErrors, ErrRowOf
<1>3. views'[RE] = Record(views[RE], RE, ms)
  BY <1>1, ErrFacts DEF Recorded
<1>4. views[RE] \in [Rows(RE) -> Nat]
  BY ErrFacts DEF MetricsTypeOK
<1>5. ASSUME NEW c \in Values(KeyComponent), NEW k \in SupportedErrorClasses
      PROVE  views'[RE][ErrRowOf(c, k)]
                 = IF k \in DOMAIN lastErrs'[c] THEN lastErrs'[c][k] ELSE 0
  <2>1. ErrRowOf(c, k) \in Rows(RE)
    BY ErrRow
  <2>2. \A j \in SupportedErrorClasses :
            M(j).measure = Views[RE].measure /\ RowOf(RE, M(j).tags) = ErrRowOf(c0, j)
    BY ErrRow, ErrFacts DEF Measurement
  <2>3. CASE c = c0
    <3>1. (CHOOSE m \in ms : m.measure = Views[RE].measure
                             /\ RowOf(RE, m.tags) = ErrRowOf(c, k)) = M(k)
      BY <1>2, <2>2, <2>3 DEF ErrRowOf
    <3>2. \E m \in ms : m.measure = Views[RE].measure /\ RowOf(RE, m.tags) = ErrRowOf(c, k)
      BY <1>2, <2>2, <2>3
    <3>3. views'[RE][ErrRowOf(c, k)] = Val(k)
      BY <1>3, <1>4, <2>1, <3>1, <3>2, ErrFacts DEF Record, Aggregated, Measurement
    <3>4. QED
      BY <1>1, <2>3, <3>3 DEF MetricsTypeOK
  <2>4. CASE c # c0
    <3>1. ~\E m \in ms : m.measure = Views[RE].measure /\ RowOf(RE, m.tags) = ErrRowOf(c, k)
      <4>1. \A j \in SupportedErrorClasses : ErrRowOf(c0, j) # ErrRowOf(c, k)
        BY <2>4 DEF ErrRowOf
      <4>2. QED
        BY <1>2, <2>2, <4>1
    <3>2. views'[RE][ErrRowOf(c, k)] = views[RE][ErrRowOf(c, k)]
      BY <1>3, <1>4, <2>1, <3>1 DEF Record
    <3>3. QED
      BY <1>1, <2>4, <3>2 DEF ErrInv, ErrRowOf, MetricsTypeOK
  <2>5. QED
    BY <2>3, <2>4
<1>6. QED
  BY <1>5 DEF ErrInv, ErrRowOf

(* A call of another recorder keeps ErrInv.                               *)
LEMMA ErrOther ==
    ASSUME MetricsTypeOK, ErrInv, NEW ms, Recorded(ms),
           \A m \in ms : m.measure # "ReconcilerErrors", UNCHANGED lastErrs
    PROVE  ErrInv'
<1>1. views'[RE] = views[RE]
  BY ErrFacts, RecordOtherMeasure DEF Recorded, MetricsTypeOK
<1>2. QED
  BY <1>1 DEF ErrInv

LEMMA ErrStep ==
    MetricsTypeOK /\ ErrInv /\ [MetricsNext]_metricsVars => ErrInv'
<1> SUFFICES ASSUME MetricsTypeOK, ErrInv, [MetricsNext]_metricsVars PROVE ErrInv'
  OBVIOUS
<1>1. CASE CallAPICallDuration
  <2> PICK op, st : Recorded(RecordAPICallDuration(op, st))
    BY <1>1 DEF CallAPICallDuration
  <2> QED
    BY <1>1, ErrOther DEF CallAPICallDuration, RecordAPICallDuration, Measurement
<1>2. CASE CallReconcilerErrors
  BY <1>2, ErrCall
<1>3. CASE CallPipelineError
  <2> PICK t, c, n : Recorded(RecordPipelineError(t, c, n))
    BY <1>3 DEF CallPipelineError
  <2> QED
    BY <1>3, ErrOther DEF CallPipelineError, RecordPipelineError, Measurement
<1>4. CASE CallReconcileDuration
  <2> PICK st : Recorded(RecordReconcileDuration(st))
    BY <1>4 DEF CallReconcileDuration
  <2> QED
    BY <1>4, ErrOther DEF CallReconcileDuration, RecordReconcileDuration, Measurement
<1>5. CASE CallParserDuration
  <2> PICK t, src, st : Recorded(RecordParserDuration(t, src, st))
    BY <1>5 DEF CallParserDuration
  <2> QED
    BY <1>5, ErrOther DEF CallParserDuration, RecordParserDuration, Measurement
<1>6. CASE CallLastSync
  <2> PICK st, c : Recorded(RecordLastSync(st, c, now)) /\ UNCHANGED lastErrs
    BY <1>6 DEF CallLastSync
  <2> QED
    BY ErrOther DEF RecordLastSync, Measurement
<1>7. CASE CallDeclaredResources
  <2> PICK c, n : Recorded(RecordDeclaredResources(c, n))
    BY <1>7 DEF CallDeclaredResources
  <2> QED
    BY <1>7, ErrOther DEF CallDeclaredResources, RecordDeclaredResources, Measurement
<1>8. CASE CallApplyOperation
  <2> PICK ctl, op, st : Recorded(RecordApplyOperation(ctl, op, st))
    BY <1>8 DEF CallApplyOperation
  <2> QED
    BY <1>8, ErrOther DEF CallApplyOperation, RecordApplyOperation, Measurement
<1>9. CASE CallApplyDuration
  <2> PICK st, c : Recorded(RecordApplyDuration(st, c, now))
    BY <1>9 DEF CallApplyDuration
  <2> QED
    BY <1>9, ErrOther DEF CallApplyDuration, RecordApplyDuration, Measurement
<1>10. CASE CallResourceFight
  BY <1>10, ErrOther DEF CallResourceFight, RecordResourceFight, Measurement
<1>11. CASE CallRemediateDuration
  <2> PICK st : Recorded(RecordRemediateDuration(st))
    BY <1>11 DEF CallRemediateDuration
  <2> QED
    BY <1>11, ErrOther DEF CallRemediateDuration, RecordRemediateDuration, Measurement
<1>12. CASE CallResourceConflict
  <2> PICK c : Recorded(RecordResourceConflict(c)) /\ UNCHANGED lastErrs
    BY <1>12 DEF CallResourceConflict
  <2> QED
    BY ErrOther DEF RecordResourceConflict, Measurement
<1>13. CASE CallInternalError
  <2> PICK src : Recorded(RecordInternalError(src))
    BY <1>13 DEF CallInternalError
  <2> QED
    BY <1>13, ErrOther DEF CallInternalError, RecordInternalError, Measurement
<1>14. CASE UNCHANGED metricsVars
  BY <1>14 DEF metricsVars, ErrInv
<1>15. QED
  BY <1>1, <1>2, <1>3, <1>4, <1>5, <1>6, <1>7, <1>8, <1>9, <1>10, <1>11,
     <1>12, <1>13, <1>14 DEF MetricsNext

(* With every label kept, the collector's max is over one row.            *)
LEMMA ErrExported ==
    MetricsTypeOK /\ ErrInv => ReconcilerErrorsCurrent
<1> SUFFICES ASSUME MetricsTypeOK, ErrInv,
                    NEW c \in Values(KeyComponent), NEW k \in SupportedErrorClasses
             PROVE  Exported(RE, {KeyComponent, KeyErrorClass})[ErrRowOf(c, k)]
                        = IF k \in DOMAIN lastErrs[c] THEN lastErrs[c][k] ELSE 0
  BY DEF ReconcilerErrorsCurrent, RE, ErrRowOf
<1> DEFINE r0 == ErrRowOf(c, k)
<1>1. views[RE] \in [Rows(RE) -> Nat]
  BY ErrFacts DEF MetricsTypeOK
<1>2. r0 \in Rows(RE)
  BY ErrRow
<1>3. \A r \in Rows(RE) : r = [x \in {KeyComponent, KeyErrorClass} |-> r[x]]
  BY ErrFacts DEF Rows, ViewRows
<1>4. r0 = [x \in {KeyComponent, KeyErrorClass} |-> r0[x]]
  BY <1>2, <1>3
<1>5. \A r \in DOMAIN views[RE] :
          [x \in {KeyComponent, KeyErrorClass} |-> r[x]] = [x \in {KeyComponent, KeyErrorClass} |-> r0[x]]
              => views[RE][r] \in Nat /\ views[RE][r] <= views[RE][r0]
  BY <1>1, <1>2, <1>3
<1>6. r0 \in DOMAIN views[RE] /\ views[RE][r0] \in Nat
  BY <1>1, <1>2
<1>7. AggregateLabelsMax(views[RE], {KeyComponent, KeyErrorClass})[[x \in {KeyComponent, KeyErrorClass} |-> r0[x]]] = views[RE][r0]
  BY <1>5, <1>6, AggregateMax
<1>8. Exported(RE, {KeyComponent, KeyErrorClass})[r0] = views[RE][r0]
  BY <1>4, <1>7 DEF Exported
<1>9. QED
  BY <1>8 DEF ErrInv, r0, ErrRowOf

(* last_reconciler_errors reads, for every component and supported error  *)
(* class, the count the component last reported, and 0 once the class's   *)
(* errors are gone: RecordReconcilerErrors records the absent classes as  *)
(* 0, whatever the order of reports of the components.                    *)
THEOREM ReconcilerErrorsSafety == MetricsSpec => []ReconcilerErrorsCurrent
BY InitMetricsType, InitErr, MetricsTypeStep, ErrStep, ErrExported, PTL
   DEF MetricsSpec

=============================================================================
