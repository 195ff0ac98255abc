------------------------ MODULE SnmpRequest_proofs -------------------------
(***************************************************************************)
(* Proofs about SnmpRequest, for every MIB, every set of requests and      *)
(* every capacity of the response.                                         *)
(***************************************************************************)
EXTENDS SnmpRequest, SequenceTheorems, WellFoundedInduction, TLAPS

-----------------------------------------------------------------------------
(* Lemmas about the operators.                                             *)

\* A set of instances that is not empty has a first one.
LEMMA MinIsMember ==
  ASSUME NEW S \in SUBSET Nat, S # {}
  PROVE  Min(S) \in S /\ \A x \in S : Min(S) <= x
<1> DEFINE Less == OpToRel(<, Nat)
<1>1. \A a, b \in Nat : a < b => <<a, b>> \in Less
  BY DEF OpToRel
<1>2. IsWellFoundedOn(Less, Nat)
  BY NatLessThanWellFounded
<1> HIDE DEF Less
<1>3. PICK x \in S : \A y \in S : ~ (<<y, x>> \in Less)
  BY <1>2, WFMin
<1>4. ASSUME NEW y \in S
      PROVE  x =< y
  <2>1. x \in Nat /\ y \in Nat
    OBVIOUS
  <2>2. ~ (y < x)
    BY <1>1, <1>3, <2>1, Zenon
  <2>3. QED
    BY <2>1, <2>2
<1>5. QED
  BY <1>4 DEF Min

\* The status of a v1 response is one of the protocol; it is noError and tooBig
\* only as the table says.
LEMMA V1StatusFacts ==
  ASSUME NEW status \in Statuses
  PROVE  /\ V1Status(status) \in Statuses
         /\ V1Status(status) = "noError" <=> status = "noError"
         /\ V1Status(status) # "tooBig"
         /\ status = "undoFailed" => V1Status(status) = "genErr"
         /\ status = "noSuchInstance" => V1Status(status) = "noSuchName"
BY DEF V1Status, Statuses, V1Statuses, Exceptions, NameErrors, ValueErrors

\* A request is well-formed.
LEMMA RequestType ==
  ASSUME req \in Requests
  PROVE  /\ req.type \in {"get", "getNext", "getBulk", "set", "getResp"}
         /\ req.varbinds \in Seq(InboundVarbinds)
         /\ Len(req.varbinds) \in Nat
         /\ req.errorIndex \in Int /\ req.nonRepeaters \in Nat /\ req.maxRepetitions \in Nat
<1>1. /\ req.type \in {"get", "getNext", "getBulk", "set", "getResp"}
      /\ req.varbinds \in Seq(InboundVarbinds)
      /\ req.errorIndex \in Int /\ req.nonRepeaters \in Nat /\ req.maxRepetitions \in Nat
  BY ConstantsAssumption, Zenon DEF ConstantsAssumption
<1>2. Len(req.varbinds) \in Nat
  BY <1>1
<1>3. QED
  BY <1>1, <1>2, Zenon

\* The names of a request.
LEMMA NamesType ==
  ASSUME req \in Requests
  PROVE  /\ Names \in Seq(Nat) /\ Len(Names) = Len(req.varbinds) /\ Len(Names) \in Nat
         /\ DOMAIN Names = 1 .. Len(req.varbinds)
         /\ \A i \in 1 .. Len(req.varbinds) : Names[i] = req.varbinds[i].name
<1>1. req.varbinds \in Seq(InboundVarbinds) /\ Len(req.varbinds) \in Nat
  BY RequestType
<1>2. \A i \in 1 .. Len(req.varbinds) : req.varbinds[i] \in InboundVarbinds
  BY <1>1
<1>3. \A i \in 1 .. Len(req.varbinds) : req.varbinds[i].name \in Nat
  BY <1>2 DEF InboundVarbinds
<1>4. DOMAIN req.varbinds = 1 .. Len(req.varbinds)
  BY <1>1
<1>5. QED
  BY <1>1, <1>3, <1>4 DEF Names

\* An inbound varbind that is left to enumerate.
LEMMA InboundType ==
  ASSUME req \in Requests, varbind_count \in 0 .. Len(req.varbinds), ~EndOfVarbinds
  PROVE  /\ varbind_count + 1 \in 1 .. Len(req.varbinds)
         /\ InboundVarbind \in InboundVarbinds /\ InboundVarbind.name \in Nat
<1>1. req.varbinds \in Seq(InboundVarbinds) /\ Len(req.varbinds) \in Nat
  BY RequestType
<1>2. varbind_count + 1 \in 1 .. Len(req.varbinds)
  BY <1>1 DEF EndOfVarbinds
<1>3. InboundVarbind \in InboundVarbinds
  BY <1>1, <1>2, ElementOfSeq DEF InboundVarbind
<1>4. QED
  BY <1>2, <1>3 DEF InboundVarbinds

\* Appending changes error_status and the varbinds within their types and never
\* shortens the response.
LEMMA AppendType ==
  ASSUME out \in Seq(Varbinds), NEW vb \in Varbinds, AppendVarbind(vb)
  PROVE  /\ error_status' \in {"tooBig", "noError"}
         /\ out' \in Seq(Varbinds)
         /\ Len(out) <= Len(out')
BY DEF AppendVarbind

\* A varbind without an instance sets the status, or is answered with an exception.
LEMMA NoVarbindType ==
  ASSUME error_status \in Statuses, out \in Seq(Varbinds),
         NEW name \in Nat, NEW result \in Statuses, NoVarbind(name, result)
  PROVE  /\ error_status' \in Statuses
         /\ out' \in Seq(Varbinds)
         /\ Len(out) <= Len(out')
<1>0. Len(out) \in Nat /\ {"tooBig", "noError", "genErr"} \subseteq Statuses
  BY DEF Statuses, V1Statuses
<1>1. CASE result \notin Exceptions
  BY <1>0, <1>1 DEF NoVarbind
<1>2. CASE result \in Exceptions /\ req.version = "v1"
  BY <1>0, <1>2 DEF NoVarbind
<1>3. CASE result \in Exceptions /\ req.version # "v1"
  <2>1. [name |-> name, val |-> result, size |-> 1] \in Varbinds
    BY <1>3 DEF Varbinds
  <2>2. AppendVarbind([name |-> name, val |-> result, size |-> 1])
    BY <1>3 DEF NoVarbind
  <2>3. QED
    BY <1>0, <2>1, <2>2, AppendType
<1>4. QED
  BY <1>1, <1>2, <1>3

\* The instances a lookup may deliver.
LEMMA NextInstancesType ==
  ASSUME present \subseteq DOMAIN Mib, NEW name \in Nat
  PROVE  /\ NextInstances(name) \in SUBSET Nat
         /\ NextResult(name) = "noError" =>
              /\ Min(NextInstances(name)) \in NextInstances(name)
              /\ Min(NextInstances(name)) \in DOMAIN Mib
<1>1. NextInstances(name) \subseteq DOMAIN Mib /\ NextInstances(name) \in SUBSET Nat
  BY ConstantsAssumption DEF ConstantsAssumption, NextInstances
<1>2. NextResult(name) = "noError" => NextInstances(name) # {}
  BY DEF NextResult
<1>3. QED
  BY <1>1, <1>2, MinIsMember, Zenon

\* How a lookup ends.
LEMMA LookupResultType ==
  ASSUME present \subseteq DOMAIN Mib, NEW name \in Nat
  PROVE  /\ LookupResult(name) \in {"noError", "genErr", "noSuchInstance"}
         /\ LookupResult(name) # "noSuchInstance" =>
              name \in present /\ name \in DOMAIN Mib /\ Mib[name].lookup = LookupResult(name)
         /\ LookupResult(name) = "noSuchInstance" => name \notin present
         /\ NextResult(name) \in {"noError", "endOfMibView"}
<1>1. \A o \in DOMAIN Mib : Mib[o].lookup \in {"noError", "genErr"}
  BY ConstantsAssumption DEF ConstantsAssumption
<1>2. QED
  BY <1>1 DEF LookupResult, NextResult, ExactInstances

\* A lookup ends with an instance held, and the phase to go on with, or without
\* one and in that phase.
LEMMA LookupType ==
  ASSUME TypeOK, NEW name \in Nat, NEW getNext \in BOOLEAN, NEW phase,
         LookupVarbind(name, getNext, phase)
  PROVE  /\ error_status' \in Statuses
         /\ out' \in Seq(Varbinds)
         /\ Len(out) <= Len(out')
         /\ cur' \in DOMAIN Mib \cup {0}
         /\ \/ /\ pc' = IF getNext THEN "value" ELSE "validate"
               /\ ret' = phase /\ held' = held + 1 /\ cur' \in DOMAIN Mib
            \/ pc' = phase /\ ret' = ret /\ held' = held
<1> DEFINE result == IF getNext THEN NextResult(name) ELSE LookupResult(name)
<1>0. /\ error_status \in Statuses /\ out \in Seq(Varbinds)
      /\ cur \in DOMAIN Mib \cup {0} /\ present \subseteq DOMAIN Mib
  BY DEF TypeOK
<1>1. Len(out) \in Nat
  BY <1>0
<1>2. result \in {"noError", "genErr", "noSuchInstance", "endOfMibView"}
  BY <1>0, LookupResultType
<1>3. CASE /\ result = "noError" /\ held' = held + 1
           /\ cur' = IF getNext THEN Min(NextInstances(name)) ELSE name
           /\ pc' = IF getNext THEN "value" ELSE "validate"
           /\ ret' = phase /\ UNCHANGED <<error_status, out>>
  <2>1. cur' \in DOMAIN Mib
    BY <1>0, <1>3, NextInstancesType, LookupResultType
  <2>2. QED
    BY <1>0, <1>1, <1>3, <2>1
<1>4. CASE NoVarbind(name, result) /\ pc' = phase /\ UNCHANGED <<cur, held, ret>>
  <2>1. result \in Statuses
    BY <1>2 DEF Statuses, Exceptions, V1Statuses
  <2> HIDE DEF result
  <2>2. error_status' \in Statuses /\ out' \in Seq(Varbinds) /\ Len(out) <= Len(out')
    BY <1>0, <1>4, <2>1, NoVarbindType
  <2>3. QED
    BY <1>0, <1>4, <2>2
<1>5. QED
  BY <1>3, <1>4 DEF LookupVarbind

\* The fields of bulk, and the ways it is assigned to.
LEMMA BulkFields ==
  ASSUME bulk \in Bulks
  PROVE  /\ bulk.nonrep \in Int /\ bulk.reps \in Nat /\ bulk.off \in Nat
         /\ bulk.first \in Nat /\ bulk.next \in Nat /\ bulk.last \in Nat
         /\ bulk.allEnd \in BOOLEAN
BY DEF Bulks

\* An update of a repetition's record leaves it one.
LEMMA BulkUpdate ==
  ASSUME NEW b \in Bulks, NEW i \in Int, NEW m \in Nat, NEW n \in Nat
  PROVE  /\ [b EXCEPT !.nonrep = i] \in Bulks
         /\ [b EXCEPT !.nonrep = i, !.reps = m] \in Bulks
         /\ [b EXCEPT !.reps = m] \in Bulks
         /\ [b EXCEPT !.off = n] \in Bulks
         /\ [b EXCEPT !.off = n, !.reps = m] \in Bulks
         /\ [b EXCEPT !.next = n] \in Bulks
BY Zenon DEF Bulks

\* At the first repeater bulk.reps is not 0.
LEMMA EnterRepeatersType ==
  ASSUME bulk \in Bulks, out \in Seq(Varbinds), ~NoRepetitions
  PROVE  EnterRepeaters \in Bulks
<1>1. OutOffset \in Nat
  BY DEF OutOffset
<1>2. CASE AtRepeaters
  <2>1. bulk.reps - 1 \in Nat
    BY <1>2, BulkFields DEF AtRepeaters, NoRepetitions
  <2>2. [bulk EXCEPT !.off = OutOffset, !.reps = bulk.reps - 1] \in Bulks
    BY <1>1, <2>1, 0 \in Int, BulkUpdate, Zenon
  <2>3. QED
    BY <1>2, <2>2 DEF EnterRepeaters
<1>3. CASE ~AtRepeaters
  BY <1>3 DEF EnterRepeaters
<1>4. QED
  BY <1>2, <1>3

\* What the next turn of a repetition reads is in the response.
LEMMA BulkInnerIndex ==
  ASSUME TypeOK, BulkInv, BulkInnerVarbind
  PROVE  bulk.next \in 1 .. Len(out)
<1>1. bulk \in Bulks /\ out \in Seq(Varbinds)
  BY DEF TypeOK
<1>2. /\ bulk.first \in Nat /\ bulk.next \in Nat /\ bulk.last \in Nat
      /\ Len(out) \in Nat
  BY <1>1 DEF Bulks
<1>3. QED
  BY <1>2 DEF BulkInnerVarbind, BulkInv, HeaderOffset

\* The inbound varbinds in the response.
LEMMA EchoType ==
  ASSUME req \in Requests
  PROVE  [i \in DOMAIN req.varbinds |->
            [name |-> req.varbinds[i].name, val |-> "echo", size |-> 0]] \in Seq(Varbinds)
<1>1. req.varbinds \in Seq(InboundVarbinds)
  BY RequestType
<1>2. \A i \in DOMAIN req.varbinds : req.varbinds[i].name \in Nat
  <2>1. \A i \in DOMAIN req.varbinds : req.varbinds[i] \in InboundVarbinds
    BY <1>1
  <2>2. QED
    BY <2>1 DEF InboundVarbinds
<1>3. \A i \in DOMAIN req.varbinds :
        [name |-> req.varbinds[i].name, val |-> "echo", size |-> 0] \in Varbinds
  BY <1>2 DEF Varbinds
<1>4. DOMAIN req.varbinds = 1 .. Len(req.varbinds) /\ Len(req.varbinds) \in Nat
  BY <1>1
<1>5. QED
  BY <1>3, <1>4

-----------------------------------------------------------------------------
(* Type correctness.                                                       *)

\* Every step keeps the types.
LEMMA TypeOKStep ==
  ASSUME TypeOK, BulkInv, HeldInv, AuthInv, CommitInv, req \in Requests, [Next]_vars
  PROVE  TypeOK'
<1> USE DEF TypeOK, loopVars, outerVars, given
<1>0. /\ {"parse", "inform", "prepare", "get", "bulkFirst", "bulkLoop", "bulkInner",
          "bulkAfter", "setTest", "test", "setCommit", "commit", "validate", "value",
          "complete", "send",
          "callbacks", "free", "done"} \subseteq Phases
      /\ {"noError", "tooBig", "genErr", "notWritable", "wrongLength", "wrongType",
          "noSuchInstance", "commitFailed", "undoFailed"} \subseteq Statuses
  BY DEF Phases, Statuses, V1Statuses, Exceptions, NameErrors, ValueErrors
<1>1. CASE ParseBadCommunity
  BY <1>0, <1>1 DEF ParseBadCommunity
<1>2. CASE ParseV1Bulk
  BY <1>0, <1>2 DEF ParseV1Bulk
<1>3. CASE ParseAccept
  <2>1. bulk' \in Bulks
    <3>1. req.nonRepeaters \in Int /\ req.maxRepetitions \in Nat
      BY RequestType
    <3>2. [bulk EXCEPT !.nonrep = req.nonRepeaters, !.reps = req.maxRepetitions] \in Bulks
      BY <3>1, BulkUpdate
    <3>3. QED
      BY <1>3, <3>2 DEF ParseAccept
  <2>2. error_status' \in Statuses /\ error_index' \in Int /\ pc' \in Phases
    BY <1>0, <1>3, RequestType DEF ParseAccept, ParsedStatus
  <2>3. QED
    BY <1>3, <2>1, <2>2 DEF ParseAccept
<1>4. CASE InformVarbind
  BY <1>0, <1>4, RequestType DEF InformVarbind
<1>5. CASE Prepare
  <2>1. PhaseOf(req.type) \in Phases
    BY <1>0, <1>5, RequestType DEF Prepare, AuthInv, PhaseOf
  <2>2. QED
    BY <1>0, <1>5, <2>1 DEF Prepare
<1>6. CASE VarbindValue
  <2>1. error_status' \in Statuses /\ out' \in Seq(Varbinds)
    <3>1. CASE Mib[cur].get
      <4>1. [name |-> cur, val |-> "value", size |-> Mib[cur].size] \in Varbinds
        BY <1>6, ConstantsAssumption
           DEF VarbindValue, BulkInv, Holding, ConstantsAssumption, Varbinds
      <4>2. QED
        BY <1>0, <1>6, <3>1, <4>1, AppendType DEF VarbindValue
    <3>2. CASE ~Mib[cur].get
      BY <1>0, <1>6, <3>2 DEF VarbindValue
    <3>3. QED
      BY <3>1, <3>2
  <2>2. held' \in Nat
    BY <1>6 DEF VarbindValue, Release, HeldInv, Holding
  <2>3. QED
    BY <1>6, <2>1, <2>2 DEF VarbindValue
<1>v. CASE ValidateVarbind
  <2>1. cur \in Nat /\ held' \in Nat /\ pc' \in Phases
    BY <1>0, <1>v, ConstantsAssumption
       DEF ValidateVarbind, BulkInv, Holding, HeldInv, Release, ConstantsAssumption
  <2>2. CASE NoVarbind(cur, "noSuchInstance")
    <3>1. error_status' \in Statuses /\ out' \in Seq(Varbinds)
      BY <1>0, <2>1, <2>2, NoVarbindType
    <3>2. QED
      BY <1>v, <2>1, <3>1 DEF ValidateVarbind
  <2>3. CASE UNCHANGED <<error_status, out>>
    BY <1>v, <2>1, <2>3 DEF ValidateVarbind
  <2>4. QED
    BY <1>v, <2>2, <2>3 DEF ValidateVarbind
<1>7. CASE MalformedVarbind
  <2>1. ~EndOfVarbinds
    BY <1>7 DEF MalformedVarbind, Decodes
  <2>2. varbind_count' \in 0 .. Len(req.varbinds)
    BY <1>7, <2>1, InboundType DEF MalformedVarbind, NextInbound
  <2>3. QED
    BY <1>0, <1>7, <2>2 DEF MalformedVarbind
<1>8. CASE GetVarbind
  <2>1. ~EndOfVarbinds /\ InboundVarbind.name \in Nat
    BY <1>8, InboundType DEF GetVarbind, Decodes
  <2>2. varbind_count' \in 0 .. Len(req.varbinds)
    BY <1>8, <2>1, InboundType DEF GetVarbind, NextInbound
  <2>3. /\ error_status' \in Statuses /\ out' \in Seq(Varbinds)
        /\ cur' \in DOMAIN Mib \cup {0}
        /\ pc' \in {"value", "validate", "get"} /\ ret' \in {"get", ret} /\ held' \in Nat
    <3> DEFINE getNext == req.type = "getNext"
    <3>1. LookupVarbind(InboundVarbind.name, getNext, "get")
      BY <1>8 DEF GetVarbind
    <3>2. getNext \in BOOLEAN /\ held + 1 \in Nat
      OBVIOUS
    <3> HIDE DEF getNext
    <3>3. QED
      BY <2>1, <3>1, <3>2, LookupType
  <2>4. QED
    BY <1>0, <1>8, <2>2, <2>3 DEF GetVarbind
<1>9. CASE GetBadVarbind
  <2>1. ~EndOfVarbinds
    BY <1>9 DEF GetBadVarbind, Decodes
  <2>2. varbind_count' \in 0 .. Len(req.varbinds)
    BY <1>9, <2>1, InboundType DEF GetBadVarbind, NextInbound
  <2>3. QED
    BY <1>0, <1>9, <2>2 DEF GetBadVarbind
<1>10. CASE GetLoopEnd
  BY <1>0, <1>10 DEF GetLoopEnd
<1>11. CASE BulkFirstVarbind
  <2>1. ~EndOfVarbinds /\ InboundVarbind.name \in Nat
    BY <1>11, InboundType DEF BulkFirstVarbind, Decodes
  <2>2. varbind_count' \in 0 .. Len(req.varbinds)
    BY <1>11, <2>1, InboundType DEF BulkFirstVarbind, NextInbound
  <2>3. /\ error_status' \in Statuses /\ out' \in Seq(Varbinds)
        /\ cur' \in DOMAIN Mib \cup {0}
        /\ pc' \in {"value", "bulkFirst"} /\ ret' \in {"bulkFirst", ret} /\ held' \in Nat
    <3>1. LookupVarbind(InboundVarbind.name, TRUE, "bulkFirst")
      BY <1>11 DEF BulkFirstVarbind
    <3>2. held + 1 \in Nat
      OBVIOUS
    <3>3. QED
      BY <2>1, <3>1, <3>2, LookupType
  <2>4. bulk' \in Bulks
    <3>1. EnterRepeaters \in Bulks
      BY <1>11, EnterRepeatersType DEF BulkFirstVarbind
    <3>2. EnterRepeaters.nonrep - 1 \in Int
      BY <3>1 DEF Bulks
    <3>3. [EnterRepeaters EXCEPT !.nonrep = EnterRepeaters.nonrep - 1] \in Bulks
      BY <3>1, <3>2, BulkUpdate
    <3>4. QED
      BY <1>11, <3>3 DEF BulkFirstVarbind
  <2>5. QED
    BY <1>0, <1>11, <2>2, <2>3, <2>4 DEF BulkFirstVarbind
<1>12. CASE BulkFirstBadVarbind
  <2>1. ~EndOfVarbinds
    BY <1>12 DEF BulkFirstBadVarbind, Decodes
  <2>2. varbind_count' \in 0 .. Len(req.varbinds)
    BY <1>12, <2>1, InboundType DEF BulkFirstBadVarbind, NextInbound
  <2>3. bulk' \in Bulks
    BY <1>12, EnterRepeatersType DEF BulkFirstBadVarbind
  <2>4. QED
    BY <1>0, <1>12, <2>2, <2>3 DEF BulkFirstBadVarbind
<1>13. CASE BulkFirstEnd
  <2>1. bulk' \in Bulks
    <3>1. OutOffset \in Nat
      BY DEF OutOffset
    <3>2. [bulk EXCEPT !.off = OutOffset] \in Bulks
      BY <3>1, BulkUpdate
    <3>3. QED
      BY <1>13, <3>2, EnterRepeatersType DEF BulkFirstEnd
  <2>2. QED
    BY <1>0, <1>13, <2>1 DEF BulkFirstEnd
<1>14. CASE BulkLoop
  <2>1. bulk' \in Bulks
    <3>1. OutOffset \in Nat /\ Len(out) \in Nat
      BY DEF OutOffset
    <3>2. [bulk EXCEPT !.first = bulk.off, !.next = bulk.off, !.last = Len(out),
                       !.off = OutOffset, !.allEnd = TRUE] \in Bulks
      BY <3>1, Zenon DEF Bulks
    <3>3. QED
      BY <1>14, <3>2 DEF BulkLoop
  <2>2. QED
    BY <1>0, <1>14, <2>1 DEF BulkLoop
<1>15. CASE BulkInnerVarbind
  <2>1. out[bulk.next] \in Varbinds
    BY <1>15, BulkInnerIndex, ElementOfSeq DEF BulkInnerVarbind
  <2>2. out[bulk.next].name \in Nat
    BY <2>1 DEF Varbinds
  <2>3. /\ error_status' \in Statuses /\ out' \in Seq(Varbinds)
        /\ cur' \in DOMAIN Mib \cup {0}
        /\ pc' \in {"value", "bulkAfter"} /\ ret' \in {"bulkAfter", ret} /\ held' \in Nat
    <3>1. LookupVarbind(out[bulk.next].name, TRUE, "bulkAfter")
      BY <1>15 DEF BulkInnerVarbind
    <3>2. held + 1 \in Nat
      OBVIOUS
    <3>3. QED
      BY <2>2, <3>1, <3>2, LookupType
  <2>4. bulk' \in Bulks
    <3>1. bulk.next + 1 \in Nat
      BY BulkFields
    <3>2. [bulk EXCEPT !.next = bulk.next + 1] \in Bulks
      BY <3>1, BulkUpdate
    <3>3. QED
      BY <1>15, <3>2 DEF BulkInnerVarbind
  <2>5. QED
    BY <1>0, <1>15, <2>3, <2>4 DEF BulkInnerVarbind
<1>16. CASE BulkInnerHeader
  BY <1>0, <1>16, RequestType DEF BulkInnerHeader
<1>17. CASE BulkAfter
  <2>1. bulk' \in Bulks
    BY <1>17 DEF BulkAfter, Bulks
  <2>2. error_index' \in Int
    <3>1. bulk.next \in Nat /\ bulk.first \in Nat /\ req.nonRepeaters \in Nat
      BY BulkFields, RequestType, Zenon
    <3>2. error_index' \in {error_index, req.nonRepeaters + RepetitionCount}
      BY <1>17 DEF BulkAfter
    <3>3. error_index \in Int
      BY Zenon
    <3> HIDE DEF TypeOK
    <3> QED
      BY <3>1, <3>2, <3>3 DEF RepetitionCount
  <2>3. QED
    BY <1>0, <1>17, <2>1, <2>2 DEF BulkAfter
<1>18. CASE BulkInnerEnd
  <2>1. bulk' \in Bulks
    <3>1. bulk.reps - 1 \in Nat
      <4>1. bulk.reps \in Nat /\ bulk.reps > 0
        <5> HIDE DEF TypeOK
        <5>1. bulk.reps \in Nat
          BY BulkFields, Zenon DEF TypeOK
        <5> QED
          BY <1>18, <5>1 DEF BulkInnerEnd, BulkInv
      <4> HIDE DEF TypeOK
      <4> QED
        BY <4>1
    <3>2. [bulk EXCEPT !.reps = bulk.reps - 1] \in Bulks
      BY <3>1, BulkUpdate
    <3>3. QED
      BY <1>18, <3>2 DEF BulkInnerEnd
  <2>2. QED
    BY <1>0, <1>18, <2>1 DEF BulkInnerEnd
<1>19. CASE SetTestVarbind
  <2>1. ~EndOfVarbinds /\ InboundVarbind.name \in Nat
    BY <1>19, InboundType DEF SetTestVarbind, Decodes
  <2>2. varbind_count' \in 0 .. Len(req.varbinds)
    BY <1>19, <2>1, InboundType DEF SetTestVarbind, NextInbound
  <2>3. /\ error_status' \in Statuses /\ cur' \in DOMAIN Mib \cup {0}
        /\ pc' \in {"test", pc} /\ held' \in Nat
    BY <1>0, <1>19, <2>1, LookupResultType DEF SetTestVarbind, SetLookup
  <2>4. QED
    BY <1>0, <1>19, <2>2, <2>3 DEF SetTestVarbind
<1>t. CASE SetTest
  <2>1. cur \in DOMAIN Mib /\ req.varbinds[varbind_count].name = cur /\ held' \in Nat
    BY <1>t, NamesType DEF SetTest, BulkInv, CommitInv, Holding, HeldInv, Release
  <2>2. TestResult(req.varbinds[varbind_count]) \in Statuses
    BY <1>0, <2>1, ConstantsAssumption DEF TestResult, ConstantsAssumption
  <2>3. QED
    BY <1>0, <1>t, <2>1, <2>2 DEF SetTest
<1>20. CASE SetTestTooLong
  <2>1. ~EndOfVarbinds
    BY <1>20 DEF SetTestTooLong, Decodes
  <2>2. varbind_count' \in 0 .. Len(req.varbinds)
    BY <1>20, <2>1, InboundType DEF SetTestTooLong, NextInbound
  <2>3. QED
    BY <1>0, <1>20, <2>2 DEF SetTestTooLong
<1>21. CASE SetTestEnd
  BY <1>0, <1>21 DEF SetTestEnd
<1>22. CASE SetCommitVarbind
  <2>1. ~EndOfVarbinds /\ InboundVarbind.name \in Nat
    BY <1>22, InboundType DEF SetCommitVarbind, LoopEnds
  <2>2. varbind_count' \in 0 .. Len(req.varbinds)
    BY <1>22, <2>1, InboundType DEF SetCommitVarbind, NextInbound
  <2>3. /\ error_status' \in Statuses /\ cur' \in DOMAIN Mib \cup {0}
        /\ pc' \in {"commit", pc} /\ held' \in Nat
    BY <1>0, <1>22, <2>1, LookupResultType DEF SetCommitVarbind, SetLookup
  <2>4. QED
    BY <1>0, <1>22, <2>2, <2>3 DEF SetCommitVarbind
<1>k. CASE SetCommit
  <2>1. cur \in DOMAIN Mib /\ held' \in Nat
    BY <1>k DEF SetCommit, BulkInv, Holding, HeldInv, Release
  <2>2. error_status' \in {error_status, "commitFailed", "undoFailed"}
    BY <1>k DEF SetCommit, CommitFailure
  <2>3. written' \in {written, Append(written, cur)}
    BY <1>k DEF SetCommit
  <2>4. written' \in Seq(DOMAIN Mib)
    <3>1. written \in Seq(DOMAIN Mib)
      BY Zenon
    <3> HIDE DEF TypeOK
    <3> QED
      BY <2>1, <2>3, <3>1
  <2>5. QED
    BY <1>0, <1>k, <2>1, <2>2, <2>4 DEF SetCommit
<1>23. CASE SetCommitEnd
  BY <1>0, <1>23 DEF SetCommitEnd
<1>24. CASE Complete
  <2>1. error_status' \in Statuses
    BY <1>0, <1>24, V1StatusFacts DEF Complete, FinalStatus
  <2>2. error_index' \in Int
    BY <1>24, RequestType DEF Complete, FinalIndex
  <2>3. out' \in Seq(Varbinds)
    BY <1>24, EchoType DEF Complete
  <2>4. QED
    BY <1>0, <1>24, <2>1, <2>2, <2>3 DEF Complete
<1>25. CASE Send
  <2>1. Len(reply') <= 1
    <3>1. reply = <<>>
      BY <1>25 DEF Send, AuthInv
    <3> DEFINE answer == [status |-> error_status, index |-> error_index, varbinds |-> out]
    <3>2. reply' = reply \/ reply' = Append(reply, answer)
      BY <1>25, Zenon DEF Send, Sent
    <3> HIDE DEF answer, TypeOK
    <3>3. CASE reply' = <<>>
      BY <3>3
    <3>4. CASE reply' = <<answer>>
      BY <3>4
    <3>5. QED
      BY <3>1, <3>2, <3>3, <3>4
  <2>2. QED
    BY <1>0, <1>25, <2>1 DEF Send
<1>26. CASE WriteCallbacks
  BY <1>0, <1>26 DEF WriteCallbacks
<1>27. CASE Free
  BY <1>0, <1>27 DEF Free
<1>28. CASE Vanish
  BY <1>0, <1>28 DEF Vanish
<1>29. CASE UNCHANGED vars
  BY <1>29 DEF vars
<1>30. QED
  BY <1>1, <1>2, <1>3, <1>4, <1>5, <1>6, <1>7, <1>8, <1>9, <1>10, <1>11, <1>12, <1>13, <1>14, <1>15, <1>16, <1>17, <1>18, <1>19, <1>20, <1>21, <1>22, <1>23, <1>24, <1>25, <1>26, <1>27, <1>28, <1>29,
     <1>v, <1>t, <1>k DEF Next, Receive

-----------------------------------------------------------------------------
(* What is held, and the way through the phases.                           *)

\* A lookup either holds one more instance until its value is taken, or none.
LEMMA LookupControl ==
  ASSUME NEW name, NEW getNext, NEW phase, LookupVarbind(name, getNext, phase)
  PROVE  \/ /\ pc' = IF getNext THEN "value" ELSE "validate"
            /\ ret' = phase /\ held' = held + 1
         \/ pc' = phase /\ ret' = ret /\ held' = held
BY DEF LookupVarbind

\* So does that of a varbind of SET, from and to its loop.
LEMMA SetLookupControl ==
  ASSUME NEW phase, SetLookup(phase)
  PROVE  \/ /\ pc' = phase /\ held' = held + 1 /\ cur' = InboundVarbind.name
            /\ error_status' = error_status /\ LookupResult(InboundVarbind.name) = "noError"
         \/ /\ pc' = pc /\ held' = held /\ cur' = cur
            /\ error_status' = LookupResult(InboundVarbind.name)
            /\ LookupResult(InboundVarbind.name) # "noError"
BY DEF SetLookup

\* Every step keeps the count of held instances and the response buffer right.
LEMMA HeldInvStep ==
  ASSUME HeldInv, AuthInv, req \in Requests, [Next]_vars
  PROVE  HeldInv'
<1> USE DEF HeldInv, Holding, loopVars, outerVars, given
<1>1. CASE ParseBadCommunity
  BY <1>1 DEF ParseBadCommunity
<1>2. CASE ParseV1Bulk
  BY <1>2 DEF ParseV1Bulk
<1>3. CASE ParseAccept
  BY <1>3 DEF ParseAccept
<1>4. CASE InformVarbind
  BY <1>4 DEF InformVarbind
<1>5. CASE Prepare
  <2>1. PhaseOf(req.type) \in {"get", "bulkFirst", "setTest"}
    BY <1>5, RequestType DEF Prepare, AuthInv, PhaseOf
  <2>2. QED
    BY <1>5, <2>1 DEF Prepare
<1>6. CASE VarbindValue
  BY <1>6 DEF VarbindValue, Release
<1>v. CASE ValidateVarbind
  BY <1>v DEF ValidateVarbind, Release
<1>t. CASE SetTest
  BY <1>t DEF SetTest, Release
<1>k. CASE SetCommit
  BY <1>k DEF SetCommit, Release
<1>7. CASE MalformedVarbind
  BY <1>7 DEF MalformedVarbind
<1>8. CASE GetVarbind
  <2> DEFINE getNext == req.type = "getNext"
  <2>1. LookupVarbind(InboundVarbind.name, getNext, "get")
    BY <1>8 DEF GetVarbind
  <2> HIDE DEF getNext
  <2>2. \/ pc' \in {"value", "validate"} /\ ret' = "get" /\ held' = held + 1
        \/ pc' = "get" /\ ret' = ret /\ held' = held
    BY <2>1, LookupControl
  <2>3. QED
    BY <1>8, <2>2 DEF GetVarbind
<1>9. CASE GetBadVarbind
  BY <1>9 DEF GetBadVarbind
<1>10. CASE GetLoopEnd
  BY <1>10 DEF GetLoopEnd
<1>11. CASE BulkFirstVarbind
  <2>1. LookupVarbind(InboundVarbind.name, TRUE, "bulkFirst")
    BY <1>11 DEF BulkFirstVarbind
  <2>2. \/ pc' = "value" /\ ret' = "bulkFirst" /\ held' = held + 1
        \/ pc' = "bulkFirst" /\ ret' = ret /\ held' = held
    BY <2>1, LookupControl, Zenon
  <2>3. QED
    BY <1>11, <2>2 DEF BulkFirstVarbind
<1>12. CASE BulkFirstBadVarbind
  BY <1>12 DEF BulkFirstBadVarbind
<1>13. CASE BulkFirstEnd
  BY <1>13 DEF BulkFirstEnd
<1>14. CASE BulkLoop
  BY <1>14 DEF BulkLoop
<1>15. CASE BulkInnerVarbind
  <2>1. LookupVarbind(out[bulk.next].name, TRUE, "bulkAfter")
    BY <1>15 DEF BulkInnerVarbind
  <2>2. \/ pc' = "value" /\ ret' = "bulkAfter" /\ held' = held + 1
        \/ pc' = "bulkAfter" /\ ret' = ret /\ held' = held
    BY <2>1, LookupControl, Zenon
  <2>3. QED
    BY <1>15, <2>2 DEF BulkInnerVarbind
<1>16. CASE BulkInnerHeader
  BY <1>16 DEF BulkInnerHeader
<1>17. CASE BulkAfter
  BY <1>17 DEF BulkAfter
<1>18. CASE BulkInnerEnd
  BY <1>18 DEF BulkInnerEnd
<1>19. CASE SetTestVarbind
  BY <1>19, SetLookupControl DEF SetTestVarbind
<1>20. CASE SetTestTooLong
  BY <1>20 DEF SetTestTooLong
<1>21. CASE SetTestEnd
  BY <1>21 DEF SetTestEnd
<1>22. CASE SetCommitVarbind
  BY <1>22, SetLookupControl DEF SetCommitVarbind
<1>23. CASE SetCommitEnd
  BY <1>23 DEF SetCommitEnd
<1>24. CASE Complete
  BY <1>24 DEF Complete
<1>25. CASE Send
  BY <1>25 DEF Send
<1>26. CASE WriteCallbacks
  BY <1>26 DEF WriteCallbacks
<1>27. CASE Free
  BY <1>27 DEF Free
<1>28. CASE Vanish
  BY <1>28 DEF Vanish
<1>29. CASE UNCHANGED vars
  BY <1>29 DEF vars
<1>30. QED
  BY <1>1, <1>2, <1>3, <1>4, <1>5, <1>6, <1>7, <1>8, <1>9, <1>10, <1>11, <1>12, <1>13, <1>14, <1>15, <1>16, <1>17, <1>18, <1>19, <1>20, <1>21, <1>22, <1>23, <1>24, <1>25, <1>26, <1>27, <1>28, <1>29,
     <1>v, <1>t, <1>k DEF Next, Receive

\* Every step leads a SET through its phases and lets nobody else into them.
LEMMA AuthInvStep ==
  ASSUME AuthInv, HeldInv, req \in Requests, [Next]_vars
  PROVE  AuthInv'
<1> USE DEF AuthInv, SetPhases, loopVars, outerVars, given
<1>1. CASE ParseBadCommunity
  BY <1>1 DEF ParseBadCommunity
<1>2. CASE ParseV1Bulk
  BY <1>2 DEF ParseV1Bulk
<1>3. CASE ParseAccept
  BY <1>3, RequestType DEF ParseAccept, CommunityAccepted, ParsedStatus, AllReadOnly
<1>4. CASE InformVarbind
  BY <1>4 DEF InformVarbind
<1>5. CASE Prepare
  <2>1. /\ req.type = "set" => PhaseOf(req.type) = "setTest"
        /\ req.type # "set" => PhaseOf(req.type) \in {"get", "bulkFirst"}
    BY <1>5, RequestType DEF Prepare, PhaseOf
  <2>2. QED
    BY <1>5, <2>1 DEF Prepare
<1>6. CASE VarbindValue
  BY <1>6 DEF VarbindValue, HeldInv
<1>v. CASE ValidateVarbind
  BY <1>v DEF ValidateVarbind, HeldInv
<1>t. CASE SetTest
  BY <1>t DEF SetTest
<1>k. CASE SetCommit
  BY <1>k DEF SetCommit
<1>7. CASE MalformedVarbind
  BY <1>7 DEF MalformedVarbind
<1>8. CASE GetVarbind
  <2> DEFINE getNext == req.type = "getNext"
  <2>1. LookupVarbind(InboundVarbind.name, getNext, "get")
    BY <1>8 DEF GetVarbind
  <2> HIDE DEF getNext
  <2>2. pc' \in {"value", "validate", "get"}
    BY <2>1, LookupControl
  <2>3. QED
    BY <1>8, <2>2 DEF GetVarbind
<1>9. CASE GetBadVarbind
  BY <1>9 DEF GetBadVarbind
<1>10. CASE GetLoopEnd
  BY <1>10 DEF GetLoopEnd
<1>11. CASE BulkFirstVarbind
  <2>1. LookupVarbind(InboundVarbind.name, TRUE, "bulkFirst")
    BY <1>11 DEF BulkFirstVarbind
  <2>2. \/ pc' = "value" /\ ret' = "bulkFirst" /\ held' = held + 1
        \/ pc' = "bulkFirst" /\ ret' = ret /\ held' = held
    BY <2>1, LookupControl, Zenon
  <2>3. QED
    BY <1>11, <2>2 DEF BulkFirstVarbind
<1>12. CASE BulkFirstBadVarbind
  BY <1>12 DEF BulkFirstBadVarbind
<1>13. CASE BulkFirstEnd
  BY <1>13 DEF BulkFirstEnd
<1>14. CASE BulkLoop
  BY <1>14 DEF BulkLoop
<1>15. CASE BulkInnerVarbind
  <2>1. LookupVarbind(out[bulk.next].name, TRUE, "bulkAfter")
    BY <1>15 DEF BulkInnerVarbind
  <2>2. \/ pc' = "value" /\ ret' = "bulkAfter" /\ held' = held + 1
        \/ pc' = "bulkAfter" /\ ret' = ret /\ held' = held
    BY <2>1, LookupControl, Zenon
  <2>3. QED
    BY <1>15, <2>2 DEF BulkInnerVarbind
<1>16. CASE BulkInnerHeader
  BY <1>16 DEF BulkInnerHeader
<1>17. CASE BulkAfter
  BY <1>17 DEF BulkAfter
<1>18. CASE BulkInnerEnd
  BY <1>18 DEF BulkInnerEnd
<1>19. CASE SetTestVarbind
  BY <1>19, SetLookupControl DEF SetTestVarbind
<1>20. CASE SetTestTooLong
  BY <1>20 DEF SetTestTooLong
<1>21. CASE SetTestEnd
  BY <1>21 DEF SetTestEnd
<1>22. CASE SetCommitVarbind
  BY <1>22, SetLookupControl DEF SetCommitVarbind
<1>23. CASE SetCommitEnd
  BY <1>23 DEF SetCommitEnd
<1>24. CASE Complete
  BY <1>24 DEF Complete
<1>25. CASE Send
  BY <1>25 DEF Send, WriteCallbacksFollow
<1>26. CASE WriteCallbacks
  BY <1>26 DEF WriteCallbacks
<1>27. CASE Free
  BY <1>27 DEF Free
<1>28. CASE Vanish
  BY <1>28 DEF Vanish
<1>29. CASE UNCHANGED vars
  BY <1>29 DEF vars
<1>30. QED
  BY <1>1, <1>2, <1>3, <1>4, <1>5, <1>6, <1>7, <1>8, <1>9, <1>10, <1>11, <1>12, <1>13, <1>14, <1>15, <1>16, <1>17, <1>18, <1>19, <1>20, <1>21, <1>22, <1>23, <1>24, <1>25, <1>26, <1>27, <1>28, <1>29,
     <1>v, <1>t, <1>k DEF Next, Receive

\* Every step keeps the positions of GETBULK within the response.
LEMMA BulkInvStep ==
  ASSUME BulkInv, HeldInv, AuthInv, TypeOK, req \in Requests, [Next]_vars
  PROVE  BulkInv'
<1> USE DEF BulkInv, Holding, loopVars, outerVars, given
<1>a. bulk \in Bulks /\ out \in Seq(Varbinds)
  BY DEF TypeOK
<1>b. /\ bulk.reps \in Nat /\ bulk.off \in Nat /\ bulk.first \in Nat
      /\ bulk.next \in Nat /\ bulk.last \in Nat /\ Len(out) \in Nat
  BY <1>a, BulkFields
<1>1. CASE ParseBadCommunity
  BY <1>1 DEF ParseBadCommunity
<1>2. CASE ParseV1Bulk
  BY <1>2 DEF ParseV1Bulk
<1>3. CASE ParseAccept
  BY <1>3 DEF ParseAccept
<1>4. CASE InformVarbind
  BY <1>4 DEF InformVarbind
<1>5. CASE Prepare
  <2>1. PhaseOf(req.type) \in {"get", "bulkFirst", "setTest"}
    BY <1>5, RequestType DEF Prepare, AuthInv, PhaseOf
  <2>2. QED
    BY <1>5, <2>1 DEF Prepare
<1>6. CASE VarbindValue
  <2>1. Len(out) <= Len(out') /\ Len(out') \in Nat
    <3>1. CASE Mib[cur].get
      BY <1>a, <1>b, <1>6, <3>1 DEF VarbindValue, AppendVarbind
    <3>2. CASE ~Mib[cur].get
      BY <1>a, <1>b, <1>6, <3>2 DEF VarbindValue
    <3>3. QED
      BY <3>1, <3>2
  <2>2. pc' = ret /\ ret' = ret /\ bulk' = bulk /\ ret \in {"get", "bulkFirst", "bulkAfter"}
    BY <1>6 DEF VarbindValue, HeldInv
  <2>3. QED
    BY <1>b, <1>6, <2>1, <2>2 DEF VarbindValue
<1>7. CASE MalformedVarbind
  BY <1>7 DEF MalformedVarbind
<1>8. CASE GetVarbind
  <2>1. ~EndOfVarbinds /\ InboundVarbind.name \in Nat
    BY <1>8, InboundType DEF TypeOK, GetVarbind, Decodes
  <2> DEFINE getNext == req.type = "getNext"
  <2>2. LookupVarbind(InboundVarbind.name, getNext, "get") /\ getNext \in BOOLEAN
    BY <1>8 DEF GetVarbind
  <2> HIDE DEF getNext
  <2>3. \/ pc' \in {"value", "validate"} /\ ret' = "get" /\ cur' \in DOMAIN Mib
        \/ pc' = "get"
    BY <2>1, <2>2, LookupType
  <2>4. QED
    BY <2>3
<1>v. CASE ValidateVarbind
  BY <1>v DEF ValidateVarbind, HeldInv
<1>t. CASE SetTest
  BY <1>t DEF SetTest
<1>k. CASE SetCommit
  BY <1>k DEF SetCommit
<1>9. CASE GetBadVarbind
  BY <1>9 DEF GetBadVarbind
<1>10. CASE GetLoopEnd
  BY <1>10 DEF GetLoopEnd
<1>11. CASE BulkFirstVarbind
  <2>1. ~EndOfVarbinds /\ InboundVarbind.name \in Nat
    BY <1>11, InboundType DEF TypeOK, BulkFirstVarbind, Decodes
  <2>2. LookupVarbind(InboundVarbind.name, TRUE, "bulkFirst")
    BY <1>11 DEF BulkFirstVarbind
  <2>3. \/ pc' = "value" /\ ret' = "bulkFirst" /\ cur' \in DOMAIN Mib
        \/ pc' = "bulkFirst"
    BY <2>1, <2>2, LookupType
  <2>4. QED
    BY <2>3
<1>12. CASE BulkFirstBadVarbind
  BY <1>12 DEF BulkFirstBadVarbind
<1>13. CASE BulkFirstEnd
  BY <1>13 DEF BulkFirstEnd
<1>14. CASE BulkLoop
  <2>1. CASE /\ bulk.reps > 0 /\ pc' = "bulkInner"
             /\ bulk' = [bulk EXCEPT !.first = bulk.off, !.next = bulk.off, !.last = Len(out),
                                     !.off = OutOffset, !.allEnd = TRUE]
    <3>1. bulk'.reps = bulk.reps /\ bulk'.first = bulk'.next /\ bulk'.last = Len(out)
          /\ bulk'.first = bulk.off
      BY <1>a, <2>1, Zenon DEF Bulks
    <3>2. QED
      BY <1>b, <1>14, <2>1, <3>1 DEF BulkLoop
  <2>2. CASE pc' = "complete"
    BY <2>2
  <2>3. QED
    BY <1>14, <2>1, <2>2 DEF BulkLoop
<1>15. CASE BulkInnerVarbind
  <2>1. out[bulk.next] \in Varbinds
    BY <1>a, <1>15, BulkInnerIndex, ElementOfSeq
  <2>2. out[bulk.next].name \in Nat
    BY <2>1 DEF Varbinds
  <2>3. LookupVarbind(out[bulk.next].name, TRUE, "bulkAfter")
    BY <1>15 DEF BulkInnerVarbind
  <2>4. /\ Len(out) <= Len(out') /\ out' \in Seq(Varbinds)
        /\ pc' \in {"value", "bulkAfter"} /\ (pc' = "value" => cur' \in DOMAIN Mib)
    <3>1. \/ pc' = "value" /\ cur' \in DOMAIN Mib
          \/ pc' = "bulkAfter"
      BY <2>2, <2>3, LookupType
    <3>2. Len(out) <= Len(out') /\ out' \in Seq(Varbinds)
      BY <2>2, <2>3, LookupType
    <3>3. QED
      BY <3>1, <3>2
  <2>5. /\ bulk'.reps = bulk.reps /\ bulk'.first = bulk.first
        /\ bulk'.next = bulk.next + 1 /\ bulk'.last = bulk.last
    BY <1>a, <1>15 DEF BulkInnerVarbind, Bulks
  <2>6. bulk.reps > 0 /\ bulk.first <= bulk.next /\ bulk.last <= Len(out)
    BY <1>15 DEF BulkInnerVarbind
  <2>7. Len(out') \in Nat
    BY <2>4
  <2>8. QED
    BY <1>b, <2>4, <2>5, <2>6, <2>7
<1>16. CASE BulkInnerHeader
  BY <1>16 DEF BulkInnerHeader
<1>17. CASE BulkAfter
  <2>1. /\ bulk'.reps = bulk.reps /\ bulk'.first = bulk.first
        /\ bulk'.next = bulk.next /\ bulk'.last = bulk.last
    BY <1>a, <1>17 DEF BulkAfter, Bulks
  <2>2. QED
    BY <1>17, <2>1 DEF BulkAfter
<1>18. CASE BulkInnerEnd
  BY <1>18 DEF BulkInnerEnd
<1>19. CASE SetTestVarbind
  <2>1. ~EndOfVarbinds /\ InboundVarbind.name \in Nat
    BY <1>19, InboundType DEF TypeOK, SetTestVarbind, Decodes
  <2>2. present \subseteq DOMAIN Mib
    BY DEF TypeOK
  <2>3. \/ pc' = "test" /\ cur' \in DOMAIN Mib
        \/ pc' = "setTest"
    BY <1>19, <2>1, <2>2, SetLookupControl, LookupResultType DEF SetTestVarbind
  <2>4. QED
    BY <2>3
<1>20. CASE SetTestTooLong
  BY <1>20 DEF SetTestTooLong
<1>21. CASE SetTestEnd
  BY <1>21 DEF SetTestEnd
<1>22. CASE SetCommitVarbind
  <2>1. ~EndOfVarbinds /\ InboundVarbind.name \in Nat
    BY <1>22, InboundType DEF TypeOK, SetCommitVarbind, LoopEnds
  <2>2. present \subseteq DOMAIN Mib
    BY DEF TypeOK
  <2>3. \/ pc' = "commit" /\ cur' \in DOMAIN Mib
        \/ pc' = "setCommit"
    BY <1>22, <2>1, <2>2, SetLookupControl, LookupResultType DEF SetCommitVarbind
  <2>4. QED
    BY <2>3
<1>23. CASE SetCommitEnd
  BY <1>23 DEF SetCommitEnd
<1>24. CASE Complete
  BY <1>24 DEF Complete
<1>25. CASE Send
  BY <1>25 DEF Send
<1>26. CASE WriteCallbacks
  BY <1>26 DEF WriteCallbacks
<1>27. CASE Free
  BY <1>27 DEF Free
<1>28. CASE Vanish
  BY <1>28 DEF Vanish
<1>29. CASE UNCHANGED vars
  BY <1>29 DEF vars
<1>30. QED
  BY <1>1, <1>2, <1>3, <1>4, <1>5, <1>6, <1>7, <1>8, <1>9, <1>10, <1>11, <1>12, <1>13, <1>14, <1>15, <1>16, <1>17, <1>18, <1>19, <1>20, <1>21, <1>22, <1>23, <1>24, <1>25, <1>26, <1>27, <1>28, <1>29,
     <1>v, <1>t, <1>k DEF Next, Receive

-----------------------------------------------------------------------------
(* Writing and reporting.                                                  *)

\* No step changes the request.
LEMMA RequestStays ==
  ASSUME [Next]_vars
  PROVE  /\ req' = req /\ Names' = Names /\ IndexIsZero' = IndexIsZero
         /\ snmp_community_write' = snmp_community_write /\ MibChanges' = MibChanges
<1>1. req' = req /\ snmp_community_write' = snmp_community_write
  BY DEF Next, Receive, vars, loopVars, outerVars, given,
         ParseBadCommunity, ParseV1Bulk, ParseAccept, InformVarbind, Prepare,
         ValidateVarbind, VarbindValue, MalformedVarbind, GetVarbind, GetBadVarbind, GetLoopEnd,
         BulkFirstVarbind, BulkFirstBadVarbind, BulkFirstEnd, BulkLoop,
         BulkInnerVarbind, BulkInnerHeader, BulkAfter, BulkInnerEnd,
         SetTestVarbind, SetTest, SetTestTooLong, SetTestEnd, SetCommitVarbind, SetCommit,
         SetCommitEnd, Complete, Send, WriteCallbacks, Free, Vanish
<1>2. QED
  BY <1>1 DEF Names, IndexIsZero, MibChanges

\* The status of a response is noError exactly when nothing failed; the loss of
\* what was written is told in the terms of the version.
LEMMA FinalStatusFacts ==
  ASSUME error_status \in Statuses
  PROVE  /\ FinalStatus = "noError" <=> error_status = "noError"
         /\ error_status = "undoFailed" =>
              FinalStatus = IF req.version = "v1" THEN "genErr" ELSE "undoFailed"
         /\ error_status = "noSuchInstance" /\ req.type = "set" =>
              FinalStatus = IF req.version = "v1" THEN "noSuchName" ELSE "notWritable"
BY V1StatusFacts DEF FinalStatus, Exceptions

\* Every step keeps to what a request may write and to the one trap.
LEMMA OnlyAuthorizedWritesStep ==
  ASSUME OnlyAuthorizedWrites, HeldInv, AuthInv, [Next]_vars
  PROVE  OnlyAuthorizedWrites'
<1> USE DEF OnlyAuthorizedWrites, AuthInv, SetPhases, HeldInv, loopVars, outerVars, given
<1>1. CASE ParseBadCommunity
  BY <1>1 DEF ParseBadCommunity
<1>2. CASE ParseV1Bulk
  BY <1>2 DEF ParseV1Bulk
<1>3. CASE ParseAccept
  BY <1>3 DEF ParseAccept
<1>4. CASE InformVarbind
  BY <1>4 DEF InformVarbind
<1>5. CASE Prepare
  BY <1>5 DEF Prepare
<1>6. CASE VarbindValue
  BY <1>6 DEF VarbindValue
<1>v. CASE ValidateVarbind
  BY <1>v DEF ValidateVarbind
<1>t. CASE SetTest
  BY <1>t DEF SetTest
<1>k. CASE SetCommit
  BY <1>k DEF SetCommit
<1>7. CASE MalformedVarbind
  BY <1>7 DEF MalformedVarbind
<1>8. CASE GetVarbind
  BY <1>8 DEF GetVarbind
<1>9. CASE GetBadVarbind
  BY <1>9 DEF GetBadVarbind
<1>10. CASE GetLoopEnd
  BY <1>10 DEF GetLoopEnd
<1>11. CASE BulkFirstVarbind
  BY <1>11 DEF BulkFirstVarbind
<1>12. CASE BulkFirstBadVarbind
  BY <1>12 DEF BulkFirstBadVarbind
<1>13. CASE BulkFirstEnd
  BY <1>13 DEF BulkFirstEnd
<1>14. CASE BulkLoop
  BY <1>14 DEF BulkLoop
<1>15. CASE BulkInnerVarbind
  BY <1>15 DEF BulkInnerVarbind
<1>16. CASE BulkInnerHeader
  BY <1>16 DEF BulkInnerHeader
<1>17. CASE BulkAfter
  BY <1>17 DEF BulkAfter
<1>18. CASE BulkInnerEnd
  BY <1>18 DEF BulkInnerEnd
<1>19. CASE SetTestVarbind
  BY <1>19 DEF SetTestVarbind
<1>20. CASE SetTestTooLong
  BY <1>20 DEF SetTestTooLong
<1>21. CASE SetTestEnd
  BY <1>21 DEF SetTestEnd
<1>22. CASE SetCommitVarbind
  BY <1>22 DEF SetCommitVarbind
<1>23. CASE SetCommitEnd
  BY <1>23 DEF SetCommitEnd
<1>24. CASE Complete
  BY <1>24 DEF Complete
<1>25. CASE Send
  BY <1>25 DEF Send
<1>26. CASE WriteCallbacks
  BY <1>26 DEF WriteCallbacks
<1>27. CASE Free
  BY <1>27 DEF Free
<1>28. CASE Vanish
  BY <1>28 DEF Vanish
<1>29. CASE UNCHANGED vars
  BY <1>29 DEF vars
<1>30. QED
  BY <1>1, <1>2, <1>3, <1>4, <1>5, <1>6, <1>7, <1>8, <1>9, <1>10, <1>11, <1>12, <1>13, <1>14, <1>15, <1>16, <1>17, <1>18, <1>19, <1>20, <1>21, <1>22, <1>23, <1>24, <1>25, <1>26, <1>27, <1>28, <1>29,
     <1>v, <1>t, <1>k DEF Next, Receive

\* Every step keeps what written says of the varbinds a SET has been through.
LEMMA CommitInvStep ==
  ASSUME CommitInv, HeldInv, AuthInv, OnlyAuthorizedWrites, TypeOK,
         req \in Requests, [Next]_vars
  PROVE  CommitInv'
<1> USE DEF CommitInv, SetPhases, LookedUp, UndoneBecause, loopVars, outerVars, given
<1>a. req' = req /\ Names' = Names /\ IndexIsZero' = IndexIsZero /\ MibChanges' = MibChanges
  BY RequestStays
<1>b. /\ written \in Seq(DOMAIN Mib) /\ present \subseteq DOMAIN Mib
      /\ varbind_count \in 0 .. Len(req.varbinds) /\ error_status \in Statuses
  BY DEF TypeOK
<1>c. /\ Len(written) \in Nat /\ DOMAIN written = 1 .. Len(written)
      /\ varbind_count \in Nat /\ Len(req.varbinds) \in Nat
  BY <1>b, RequestType
<1>d. /\ Len(Names) = Len(req.varbinds) /\ DOMAIN Names = 1 .. Len(req.varbinds)
      /\ \A i \in 1 .. Len(req.varbinds) : Names[i] = req.varbinds[i].name
  BY NamesType
<1>e. req.type # "set" => written = <<>> /\ pc # "callbacks"
  BY DEF OnlyAuthorizedWrites, AuthInv
<1>f. ToSet(<<>>) = {}
  BY DEF ToSet
<1>1. CASE ParseBadCommunity
  BY <1>a, <1>e, <1>1 DEF ParseBadCommunity, AuthInv
<1>2. CASE ParseV1Bulk
  BY <1>a, <1>e, <1>2 DEF ParseV1Bulk, AuthInv
<1>3. CASE ParseAccept
  BY <1>a, <1>e, <1>3 DEF ParseAccept, AuthInv
<1>4. CASE InformVarbind
  BY <1>a, <1>e, <1>4 DEF InformVarbind, AuthInv
<1>5. CASE Prepare
  <2>1. written' = written /\ written = <<>> /\ varbind_count' = 0
    BY <1>5 DEF Prepare, AuthInv
  <2>2. req.type # "getResp" /\ PhaseOf(req.type) \in {"get", "bulkFirst", "setTest"}
    BY <1>5, RequestType DEF Prepare, PhaseOf, AuthInv
  <2>3. QED
    BY <1>a, <1>e, <1>5, <2>1, <2>2 DEF Prepare
<1>6. CASE VarbindValue
  <2>1. req.type # "set" /\ pc' \in {"get", "bulkFirst", "bulkAfter"}
    BY <1>6 DEF VarbindValue, AuthInv, HeldInv
  <2>2. QED
    BY <1>a, <1>e, <1>6, <2>1 DEF VarbindValue
<1>v. CASE ValidateVarbind
  <2>1. req.type # "set" /\ pc' \in {"get", "value"}
    BY <1>v DEF ValidateVarbind, AuthInv, HeldInv
  <2>2. QED
    BY <1>a, <1>e, <1>v, <2>1 DEF ValidateVarbind
<1>7. CASE MalformedVarbind
  BY <1>a, <1>e, <1>f, <1>7 DEF MalformedVarbind, AuthInv
<1>8. CASE GetVarbind
  <2> DEFINE getNext == req.type = "getNext"
  <2>1. LookupVarbind(InboundVarbind.name, getNext, "get")
    BY <1>8 DEF GetVarbind
  <2> HIDE DEF getNext
  <2>2. pc' \in {"value", "validate", "get"}
    BY <2>1, LookupControl
  <2>3. req.type # "set"
    BY <1>8 DEF GetVarbind, AuthInv
  <2>4. QED
    BY <1>a, <1>e, <1>8, <2>2, <2>3 DEF GetVarbind
<1>9. CASE GetBadVarbind
  BY <1>a, <1>e, <1>9 DEF GetBadVarbind, AuthInv
<1>10. CASE GetLoopEnd
  BY <1>a, <1>e, <1>10 DEF GetLoopEnd, AuthInv
<1>11. CASE BulkFirstVarbind
  <2>1. LookupVarbind(InboundVarbind.name, TRUE, "bulkFirst")
    BY <1>11 DEF BulkFirstVarbind
  <2>2. pc' \in {"value", "bulkFirst"}
    BY <2>1, LookupControl, Zenon
  <2>3. req.type # "set"
    BY <1>11 DEF BulkFirstVarbind, AuthInv
  <2>4. QED
    BY <1>a, <1>e, <1>11, <2>2, <2>3 DEF BulkFirstVarbind
<1>12. CASE BulkFirstBadVarbind
  BY <1>a, <1>e, <1>12 DEF BulkFirstBadVarbind, AuthInv
<1>13. CASE BulkFirstEnd
  BY <1>a, <1>e, <1>13 DEF BulkFirstEnd, AuthInv
<1>14. CASE BulkLoop
  BY <1>a, <1>e, <1>14 DEF BulkLoop, AuthInv
<1>15. CASE BulkInnerVarbind
  <2>1. LookupVarbind(out[bulk.next].name, TRUE, "bulkAfter")
    BY <1>15 DEF BulkInnerVarbind
  <2>2. pc' \in {"value", "bulkAfter"}
    BY <2>1, LookupControl, Zenon
  <2>3. req.type # "set"
    BY <1>15 DEF BulkInnerVarbind, AuthInv
  <2>4. QED
    BY <1>a, <1>e, <1>15, <2>2, <2>3 DEF BulkInnerVarbind
<1>16. CASE BulkInnerHeader
  BY <1>a, <1>e, <1>16 DEF BulkInnerHeader, AuthInv
<1>17. CASE BulkAfter
  BY <1>a, <1>e, <1>17 DEF BulkAfter, AuthInv
<1>18. CASE BulkInnerEnd
  BY <1>a, <1>e, <1>18 DEF BulkInnerEnd, AuthInv
<1>19. CASE SetTestVarbind
  <2>1. ~EndOfVarbinds /\ error_status = "noError" /\ pc = "setTest"
    BY <1>19 DEF SetTestVarbind, LoopEnds
  <2>2. /\ varbind_count' = varbind_count + 1 /\ varbind_count + 1 \in 1 .. Len(req.varbinds)
        /\ InboundVarbind.name \in Nat
    BY <1>19, <1>b, <2>1, InboundType DEF SetTestVarbind, NextInbound
  <2>3. InboundVarbind.name = Names[varbind_count + 1]
    BY <1>d, <2>2 DEF InboundVarbind
  <2>4. written' = written /\ written = <<>> /\ reply' = reply /\ callbacks' = callbacks
    BY <1>19 DEF SetTestVarbind, AuthInv
  <2>5. CASE /\ pc' = "test" /\ cur' = InboundVarbind.name /\ error_status' = error_status
             /\ LookupResult(InboundVarbind.name) = "noError"
    <3> DEFINE name == Names[varbind_count + 1]
    <3>1. name \in DOMAIN Mib /\ Mib[name].lookup = "noError"
      BY <1>b, <2>2, <2>3, <2>5, LookupResultType
    <3>2. LookedUp(varbind_count)
      BY <2>1
    <3>3. LookedUp(varbind_count + 1)
      <4> HIDE DEF CommitInv
      <4>1. \A j \in 1 .. varbind_count + 1 : j \in 1 .. varbind_count \/ j = varbind_count + 1
        BY <1>c
      <4>2. QED
        BY <3>1, <3>2, <4>1
    <3>4. LookedUp(varbind_count)'
      BY <1>a, <2>2, <3>3
    <3>5. varbind_count' > 0
      <4> HIDE DEF CommitInv
      <4> QED
        BY <1>c, <2>2
    <3>6. cur' = Names[varbind_count']
      BY <2>2, <2>3, <2>5
    <3> HIDE DEF LookedUp
    <3>7. QED
      BY <1>a, <1>19, <2>1, <2>4, <2>5, <3>4, <3>5, <3>6 DEF SetTestVarbind
  <2>6. CASE pc' = pc /\ error_status' # "noError"
    BY <1>a, <1>19, <2>1, <2>4, <2>6 DEF SetTestVarbind
  <2>7. QED
    BY <1>19, <2>5, <2>6, SetLookupControl DEF SetTestVarbind
<1>t. CASE SetTest
  BY <1>a, <1>e, <1>t DEF SetTest, AuthInv
<1>20. CASE SetTestTooLong
  BY <1>a, <1>e, <1>20 DEF SetTestTooLong, AuthInv
<1>21. CASE SetTestEnd
  <2>1. written' = written /\ written = <<>> /\ Len(written) = 0
    BY <1>21 DEF SetTestEnd, AuthInv
  <2>2. CASE error_status = "noError"
    <3>1. varbind_count = Len(req.varbinds)
      BY <1>21, <2>2 DEF SetTestEnd, LoopEnds, EndOfVarbinds
    <3>2. LookedUp(Len(Names))
      BY <1>d, <1>21, <2>2, <3>1 DEF SetTestEnd
    <3>3. QED
      BY <1>a, <1>21, <2>1, <2>2, <3>2 DEF SetTestEnd
  <2>3. CASE error_status # "noError"
    BY <1>a, <1>21, <2>1, <2>3 DEF SetTestEnd
  <2>4. QED
    BY <2>2, <2>3
<1>22. CASE SetCommitVarbind
  <2>1. ~EndOfVarbinds /\ error_status = "noError" /\ pc = "setCommit"
    BY <1>22 DEF SetCommitVarbind, LoopEnds
  <2>2. /\ varbind_count' = varbind_count + 1 /\ varbind_count + 1 \in 1 .. Len(req.varbinds)
        /\ InboundVarbind.name \in Nat
    BY <1>22, <1>b, <2>1, InboundType DEF SetCommitVarbind, NextInbound
  <2>3. InboundVarbind.name = Names[varbind_count + 1]
    BY <1>d, <2>2 DEF InboundVarbind
  <2>4. Len(written) = varbind_count /\ varbind_count' > 0
    BY <1>c, <2>1, <2>2
  <2>5. CASE pc' = "commit" /\ cur' = InboundVarbind.name /\ error_status' = error_status
    <3>1. cur' = Names[varbind_count'] /\ Len(written') = varbind_count' - 1
      BY <1>c, <1>22, <2>2, <2>3, <2>4, <2>5 DEF SetCommitVarbind
    <3> HIDE DEF LookedUp
    <3>2. LookedUp(Len(Names)) /\ LookedUp(Len(Names))'
      BY <1>a, <2>1 DEF LookedUp
    <3>3. QED
      BY <1>a, <1>22, <2>1, <2>4, <2>5, <3>1, <3>2 DEF SetCommitVarbind
  <2>6. CASE /\ pc' = pc /\ error_status' = LookupResult(InboundVarbind.name)
             /\ LookupResult(InboundVarbind.name) # "noError"
    <3> DEFINE name == Names[varbind_count + 1]
    <3>1. name \in DOMAIN Mib /\ Mib[name].lookup = "noError"
      BY <1>d, <2>1, <2>2
    <3>2. LookupResult(name) = "noSuchInstance" /\ name \notin present
      BY <1>b, <2>2, <2>3, <2>6, <3>1, LookupResultType
    <3>3. MibChanges
      BY <3>1, <3>2
    <3>4. error_status' = "noSuchInstance" /\ varbind_count' = Len(written) + 1
      BY <2>2, <2>3, <2>4, <2>6, <3>2
    <3>5. QED
      BY <1>a, <1>22, <2>1, <2>6, <3>3, <3>4 DEF SetCommitVarbind
  <2>7. QED
    BY <1>22, <2>5, <2>6, SetLookupControl DEF SetCommitVarbind
<1>k. CASE SetCommit
  <2>1. /\ error_status = "noError" /\ varbind_count > 0 /\ cur = Names[varbind_count]
        /\ Len(written) = varbind_count - 1 /\ pc = "commit"
    BY <1>k DEF SetCommit
  <2>2. CASE Mib[cur].set
    <3>1. written' = Append(written, cur) /\ error_status' = "noError"
      BY <1>k, <2>1, <2>2 DEF SetCommit
    <3>2. varbind_count \in 1 .. Len(req.varbinds)
      BY <1>b, <2>1
    <3>3. /\ Len(written') = varbind_count /\ DOMAIN written' = 1 .. varbind_count
          /\ \A i \in 1 .. varbind_count - 1 : written'[i] = written[i]
          /\ written'[varbind_count] = cur
      BY <1>b, <1>c, <2>1, <3>1
    <3>4. \A i \in DOMAIN written' : i \in DOMAIN Names /\ written'[i] = Names[i]
      <4>1. \A i \in 1 .. varbind_count - 1 : i \in DOMAIN Names /\ written[i] = Names[i]
        BY <1>c, <2>1
      <4>2. QED
        BY <1>d, <2>1, <3>2, <3>3, <4>1
    <3>5. QED
      BY <1>a, <1>k, <2>1, <3>1, <3>3, <3>4 DEF SetCommit
  <2>3. CASE ~Mib[cur].set
    <3>1. /\ error_status' = IF varbind_count = 1 THEN "commitFailed" ELSE "undoFailed"
          /\ written' = written
      BY <1>k, <2>3 DEF SetCommit, CommitFailure
    <3>2. varbind_count = 1 => written = <<>>
      BY <1>b, <2>1
    <3>3. varbind_count = Len(written) + 1
      BY <1>c, <2>1
    <3>4. QED
      BY <1>a, <1>k, <2>1, <3>1, <3>2, <3>3 DEF SetCommit
  <2>4. QED
    BY <2>2, <2>3
<1>23. CASE SetCommitEnd
  <2>1. CASE error_status = "noError"
    <3>1. Len(written) = Len(Names)
      BY <1>d, <1>23, <2>1 DEF SetCommitEnd, LoopEnds, EndOfVarbinds
    <3>2. written = Names
      BY <1>b, <1>c, <1>d, <3>1, NamesType
    <3>3. QED
      BY <1>a, <1>23, <2>1, <3>2 DEF SetCommitEnd, AuthInv
  <2>2. CASE error_status # "noError"
    BY <1>a, <1>23, <2>2 DEF SetCommitEnd, AuthInv
  <2>3. QED
    BY <2>1, <2>2
<1>24. CASE Complete
  <2>1. FinalStatus = "noError" <=> error_status = "noError"
    BY <1>b, FinalStatusFacts
  <2>2. ASSUME error_status # "noError", written # <<>>
        PROVE  /\ IF req.version = "v1" THEN UndoneBecause("genErr", "noSuchName")'
                                        ELSE UndoneBecause("undoFailed", "notWritable")'
               /\ IndexIsZero => error_index' = Len(written) + 1
    <3>1. /\ req.type = "set" /\ UndoneBecause("undoFailed", "noSuchInstance")
          /\ varbind_count = Len(written) + 1 /\ error_index = req.errorIndex
      BY <1>e, <1>24, <2>2 DEF Complete
    <3>2. IF req.version = "v1"
          THEN FinalStatus = "genErr" \/ (MibChanges /\ FinalStatus = "noSuchName")
          ELSE FinalStatus = "undoFailed" \/ (MibChanges /\ FinalStatus = "notWritable")
      BY <1>b, <3>1, FinalStatusFacts
    <3>3. IndexIsZero => FinalIndex = Len(written) + 1
      BY <3>1, <3>2 DEF FinalIndex, IndexIsZero
    <3>4. QED
      BY <1>a, <1>24, <3>2, <3>3 DEF Complete
  <2>3. /\ written' = written /\ reply' = reply /\ callbacks' = callbacks
        /\ present' = present /\ reply = <<>> /\ pc' \in {"free", "send"} /\ pc = "complete"
        /\ error_status' = FinalStatus
    BY <1>24 DEF Complete, AuthInv
  <2>4. QED
    BY <1>a, <1>e, <1>f, <2>1, <2>2, <2>3
<1>25. CASE Send
  <2> DEFINE answer == [status |-> error_status, index |-> error_index, varbinds |-> out]
  <2>1. ToSet(reply') \subseteq {answer}
    <3>1. reply = <<>> /\ reply' \in {reply, Append(reply, answer)}
      BY <1>25 DEF Send, Sent, AuthInv
    <3>2. QED
      BY <1>f, <3>1 DEF ToSet
  <2>2. \A r \in ToSet(reply') : r.status = error_status
    BY <2>1
  <2> HIDE DEF answer
  <2>3. CASE WriteCallbacksFollow
    <3>1. written = Names /\ error_status = "noError"
      BY <1>25, <2>3 DEF Send, WriteCallbacksFollow
    <3>2. QED
      BY <1>a, <1>25, <2>2, <2>3, <3>1 DEF Send
  <2>4. CASE ~WriteCallbacksFollow
    BY <1>a, <1>25, <2>2, <2>4 DEF Send, WriteCallbacksFollow
  <2>5. QED
    BY <2>3, <2>4
<1>26. CASE WriteCallbacks
  <2>1. callbacks' = Names
    BY <1>26 DEF WriteCallbacks, Names
  <2>2. QED
    BY <1>a, <1>e, <1>26, <2>1 DEF WriteCallbacks, AuthInv
<1>27. CASE Free
  BY <1>a, <1>e, <1>27 DEF Free, AuthInv
<1>28. CASE Vanish
  BY <1>a, <1>e, <1>28 DEF Vanish, AuthInv
<1>29. CASE UNCHANGED vars
  BY <1>a, <1>29 DEF vars, ToSet
<1>30. QED
  BY <1>1, <1>2, <1>3, <1>4, <1>5, <1>6, <1>7, <1>8, <1>9, <1>10, <1>11, <1>12, <1>13, <1>14, <1>15, <1>16, <1>17, <1>18, <1>19, <1>20, <1>21, <1>22, <1>23, <1>24, <1>25, <1>26, <1>27, <1>28, <1>29,
     <1>v, <1>t, <1>k DEF Next, Receive

\* Every step keeps the promises about SET: what was answered stays true, and the
\* callbacks are called only behind a full SET.
LEMMA SetStep ==
  ASSUME SetAllOrReported, CallbacksAfterFullSet, CommitInv, AuthInv, HeldInv,
         OnlyAuthorizedWrites, [Next]_vars
  PROVE  SetAllOrReported' /\ CallbacksAfterFullSet'
<1> USE DEF SetAllOrReported, CallbacksAfterFullSet, loopVars, outerVars, given
<1>a. req' = req /\ Names' = Names /\ IndexIsZero' = IndexIsZero /\ MibChanges' = MibChanges
  BY RequestStays
<1>b. ToSet(<<>>) = {}
  BY DEF ToSet
<1>1. CASE Send
  <2> DEFINE answer == [status |-> error_status, index |-> error_index, varbinds |-> out]
  <2>1. reply = <<>> /\ written' = written /\ reply' \in {reply, Append(reply, answer)}
        /\ callbacks' = callbacks /\ pc = "send" /\ pc' \in {"callbacks", "free"}
    BY <1>1 DEF Send, Sent, AuthInv
  <2>2. ToSet(reply') \subseteq {answer}
    BY <1>b, <2>1 DEF ToSet
  <2>3. \A r \in ToSet(reply') : r.status = error_status /\ r.index = error_index
    BY <2>2
  <2> HIDE DEF answer
  <2>4. SetAllOrReported'
    BY <1>a, <2>1, <2>3 DEF CommitInv, UndoneBecause
  <2>5. req.type = "set" => callbacks' = <<>>
    BY <2>1 DEF CommitInv
  <2>6. QED
    BY <1>a, <2>1, <2>4, <2>5
<1>2. CASE WriteCallbacks
  <2>1. callbacks' = Names /\ written' = written /\ reply' = reply /\ pc' = "free"
    BY <1>2 DEF WriteCallbacks, Names
  <2>2. written = Names /\ \A r \in ToSet(reply) : r.status = "noError"
    BY <1>2 DEF WriteCallbacks, CommitInv
  <2>3. ToSet(reply') = ToSet(reply)
    BY <2>1 DEF ToSet
  <2>4. QED
    BY <1>a, <2>1, <2>2, <2>3
<1>3. CASE SetCommit
  <2>1. reply' = <<>> /\ callbacks' = callbacks /\ pc' # "done"
        /\ req.type = "set" /\ callbacks = <<>>
    BY <1>3 DEF SetCommit, CommitInv, AuthInv, SetPhases
  <2>2. QED
    BY <1>a, <1>b, <2>1
<1>4. CASE InformVarbind
  <2>1. reply' = reply /\ written' = written /\ req.type # "set"
    BY <1>4 DEF InformVarbind, AuthInv, SetPhases
  <2>2. QED
    BY <1>a, <1>b, <2>1 DEF AuthInv, InformVarbind
<1>7. CASE Free
  <2>1. UNCHANGED <<reply, written, callbacks>> /\ pc = "free"
    BY <1>7 DEF Free
  <2>2. req.type = "set" => \A r \in ToSet(reply) : r.status = "noError" => callbacks = Names
    BY <2>1 DEF CommitInv
  <2>3. QED
    BY <1>a, <2>1, <2>2
<1>8. CASE /\ UNCHANGED <<reply, written, callbacks>> /\ reply = <<>>
  BY <1>a, <1>b, <1>8
<1>5. CASE UNCHANGED <<reply, written, callbacks>> /\ (pc' = "done" => pc = "done")
  BY <1>a, <1>5
<1>6. QED
  BY <1>1, <1>2, <1>3, <1>4, <1>5, <1>7, <1>8
     DEF AuthInv, HeldInv, Next, Receive, vars, loopVars, outerVars, given,
         ParseBadCommunity, ParseV1Bulk, ParseAccept, InformVarbind, Prepare,
         ValidateVarbind, VarbindValue, MalformedVarbind, GetVarbind, GetBadVarbind, GetLoopEnd,
         BulkFirstVarbind, BulkFirstBadVarbind, BulkFirstEnd, BulkLoop,
         BulkInnerVarbind, BulkInnerHeader, BulkAfter, BulkInnerEnd,
         SetTestVarbind, SetTest, SetTestTooLong, SetTestEnd, SetCommitVarbind, SetCommit,
         SetCommitEnd, Complete, Send, WriteCallbacks, Free, Vanish

-----------------------------------------------------------------------------
(* The invariant and what follows from it.                                 *)

\* The invariant holds at first ...
LEMMA IInvInit == Init => IInv /\ req \in Requests
<1> SUFFICES ASSUME Init
             PROVE  IInv /\ req \in Requests
  OBVIOUS
<1> USE DEF Init
<1>1. req \in Requests /\ Len(req.varbinds) \in Nat
  BY RequestType
<1>2. TypeOK
  <2>1. "parse" \in Phases /\ "done" \in Phases /\ "noError" \in Statuses
    BY DEF Phases, Statuses, V1Statuses
  <2>2. bulk \in Bulks
    BY DEF Bulks, HeaderOffset
  <2>3. out \in Seq(Varbinds) /\ written \in Seq(DOMAIN Mib) /\ Len(reply) <= 1
    OBVIOUS
  <2>4. varbind_count \in 0 .. Len(req.varbinds)
    BY <1>1
  <2>5. held \in Nat /\ authFailures \in Nat /\ error_index \in Int
    OBVIOUS
  <2>6. outbound \in BOOLEAN
    OBVIOUS
  <2>7. snmp_community_write \in {"unset", "private"} /\ cur \in DOMAIN Mib \cup {0}
        /\ present \subseteq DOMAIN Mib
    OBVIOUS
  <2>8. error_status \in Statuses /\ pc \in Phases /\ ret \in Phases
    BY <2>1
  <2>9. QED
    BY <2>2, <2>3, <2>4, <2>5, <2>6, <2>7, <2>8, Zenon DEF TypeOK
<1>3. HeldInv /\ AuthInv /\ BulkInv
  BY DEF HeldInv, AuthInv, BulkInv, Holding, SetPhases
<1>4. CommitInv
  BY DEF CommitInv, SetPhases, LookedUp, UndoneBecause, ToSet
<1>5. SetAllOrReported /\ CallbacksAfterFullSet /\ OnlyAuthorizedWrites
  BY DEF SetAllOrReported, CallbacksAfterFullSet, OnlyAuthorizedWrites, ToSet
<1>6. QED
  BY <1>1, <1>2, <1>3, <1>4, <1>5 DEF IInv

\* ... and after every step.
LEMMA IInvStep == IInv /\ req \in Requests /\ [Next]_vars => (IInv /\ req \in Requests)'
<1> SUFFICES ASSUME IInv, req \in Requests, [Next]_vars
             PROVE  (IInv /\ req \in Requests)'
  OBVIOUS
<1> USE DEF IInv
<1>1. TypeOK'
  BY TypeOKStep
<1>2. HeldInv'
  BY HeldInvStep
<1>3. AuthInv'
  BY AuthInvStep
<1>4. BulkInv'
  BY BulkInvStep
<1>5. OnlyAuthorizedWrites'
  BY OnlyAuthorizedWritesStep
<1>6. CommitInv'
  BY CommitInvStep
<1>7. SetAllOrReported' /\ CallbacksAfterFullSet'
  BY SetStep
<1>8. req' \in Requests
  BY RequestStays
<1>9. QED
  BY <1>1, <1>2, <1>3, <1>4, <1>5, <1>6, <1>7, <1>8

\* IInv holds in every state of a behaviour.
LEMMA Invariance == Spec => []IInv
<1>1. QED
  BY IInvInit, IInvStep, PTL DEF Spec

\* The types of the variables of snmp_receive(), for every request and MIB.
THEOREM RequestTypes == Spec => []TypeOK
<1>1. IInv => TypeOK
  BY DEF IInv
<1>2. QED
  BY <1>1, Invariance, PTL

\* Whatever the request and whatever vanishes from the MIB meanwhile, no instance
\* stays held and no response buffer allocated when snmp_receive() returns.
THEOREM RequestLeaksNothing == Spec => []NothingLeaked
<1>1. IInv => NothingLeaked
  BY DEF IInv, HeldInv, Holding, NothingLeaked
<1>2. QED
  BY <1>1, Invariance, PTL

\* set_value() is called only for a SET with the write community, and a refused
\* request has no effect but its one trap.
THEOREM WritesAreAuthorized == Spec => []OnlyAuthorizedWrites
<1>1. IInv => OnlyAuthorizedWrites
  BY DEF IInv
<1>2. QED
  BY <1>1, Invariance, PTL

\* A SET answered with noError has written every varbind, in order; one that
\* stopped half-way says that it could not undo what it wrote, and where it stopped,
\* but where the instance it stopped at has vanished (snmp_process_set_request()).
THEOREM SetIsAllOrReported == Spec => []SetAllOrReported
<1>1. IInv => SetAllOrReported
  BY DEF IInv
<1>2. QED
  BY <1>1, Invariance, PTL

\* The application's write callback hears of full SETs only, also when their
\* response could not be sent, and of every one that is reported as done
\* (snmp_receive(), snmp_execute_write_callbacks()).
THEOREM CallbacksFollowFullSet == Spec => []CallbacksAfterFullSet
<1>1. IInv => CallbacksAfterFullSet
  BY DEF IInv
<1>2. QED
  BY <1>1, Invariance, PTL
-----------------------------------------------------------------------------
(* Responses fit the version of the request.                               *)

\* A varbind that may be in a response of v1.
FitsV1(vb) == vb.val \notin Exceptions /\ (vb.val = "value" => Mib[vb.name].type # "counter64")
OutFits == req.version = "v1" => \A i \in DOMAIN out : FitsV1(out[i])

\* The exceptions error_status holds until Complete: those of v1, and those a SET maps.
StatusFits ==
  CASE pc \in {"send", "callbacks", "free", "done"} -> TRUE
    [] OTHER -> req.version # "v1" /\ req.type # "set" => error_status \notin Exceptions

\* What is being put into the response fits, and so does what is sent.
VersionInv ==
  /\ OutFits /\ StatusFits
  /\ pc = "value" /\ req.version = "v1" => Mib[cur].type # "counter64"
  /\ pc = "send" => IF req.version = "v1" THEN error_status \in V1Statuses
                    ELSE error_status \notin Exceptions
  /\ ResponseFitsVersion

\* A varbind that fits is appended, or none.
LEMMA AppendFits ==
  ASSUME out \in Seq(Varbinds), OutFits, UNCHANGED req,
         NEW vb \in Varbinds, req.version = "v1" => FitsV1(vb), AppendVarbind(vb)
  PROVE  OutFits' /\ error_status' \notin Exceptions
<1>1. error_status' \notin Exceptions
  BY DEF AppendVarbind, Exceptions
<1>2. CASE out' = out
  BY <1>1, <1>2 DEF OutFits, FitsV1
<1>3. CASE out' = Append(out, vb)
  <2> SUFFICES ASSUME req.version = "v1", NEW i \in DOMAIN out'
               PROVE  FitsV1(out'[i])
    BY <1>1 DEF OutFits, FitsV1
  <2>1. (i \in DOMAIN out /\ out'[i] = out[i]) \/ out'[i] = vb
    BY <1>3
  <2> QED
    BY <2>1 DEF OutFits
<1> QED
  BY <1>2, <1>3 DEF AppendVarbind

\* A varbind without an instance is answered with what fits the version.
LEMMA NoVarbindFits ==
  ASSUME out \in Seq(Varbinds), OutFits, UNCHANGED req,
         NEW name \in Nat, NEW result, NoVarbind(name, result)
  PROVE  OutFits' /\ (req.version # "v1" => error_status' \notin Exceptions)
<1>1. CASE result \notin Exceptions \/ req.version = "v1"
  BY <1>1 DEF NoVarbind, OutFits, FitsV1, Exceptions
<1>2. CASE result \in Exceptions /\ req.version # "v1"
  <2>1. [name |-> name, val |-> result, size |-> 1] \in Varbinds
    BY <1>2 DEF Varbinds
  <2>2. AppendVarbind([name |-> name, val |-> result, size |-> 1])
    BY <1>2 DEF NoVarbind
  <2>3. QED
    BY <1>2, <2>1, <2>2, AppendFits
<1>3. QED
  BY <1>1, <1>2

\* A lookup finds an instance a response may have, and puts no exception into one of v1.
LEMMA LookupFits ==
  ASSUME TypeOK, OutFits, UNCHANGED req, NEW name \in Nat, NEW getNext \in BOOLEAN,
         NEW phase \in {"get", "bulkFirst", "bulkAfter"},
         LookupVarbind(name, getNext, phase),
         req.version # "v1" => error_status \notin Exceptions
  PROVE  /\ OutFits'
         /\ req.version # "v1" => error_status' \notin Exceptions
         /\ pc' = "value" /\ req.version = "v1" => Mib[cur'].type # "counter64"
         /\ pc' \in {"value", "validate", phase}
<1> DEFINE result == IF getNext THEN NextResult(name) ELSE LookupResult(name)
<1>1. out \in Seq(Varbinds) /\ present \subseteq DOMAIN Mib
  BY DEF TypeOK
<1>2. CASE /\ result = "noError" /\ cur' = IF getNext THEN Min(NextInstances(name)) ELSE name
           /\ pc' = IF getNext THEN "value" ELSE "validate"
           /\ UNCHANGED <<error_status, out>>
  <2>1. getNext => Accessible(cur')
    <3>1. getNext => Min(NextInstances(name)) \in NextInstances(name)
      BY <1>1, <1>2, NextInstancesType
    <3>2. QED
      BY <1>2, <3>1 DEF NextInstances, Reachable
  <2> QED
    BY <1>2, <2>1 DEF OutFits, FitsV1, Accessible
<1>3. CASE pc' = phase /\ NoVarbind(name, result)
  <2> HIDE DEF result
  <2>1. OutFits' /\ (req.version # "v1" => error_status' \notin Exceptions)
    BY <1>1, <1>3, NoVarbindFits
  <2> QED
    BY <1>3, <2>1
<1> QED
  BY <1>2, <1>3 DEF LookupVarbind

\* The status of a v1 response is one of v1.
LEMMA FinalStatusFits ==
  ASSUME req.version # "v1" /\ req.type # "set" => error_status \notin Exceptions
  PROVE  req.version = "v1" => FinalStatus \in V1Statuses
BY DEF FinalStatus, V1Status, V1Statuses

\* The steps after which nothing new is in the response.
Plain ==
  /\ UNCHANGED <<out, req, reply>>
  /\ pc' \notin {"value", "send"}
  /\ \/ pc' \in {"free", "done", "callbacks"}
     \/ error_status' = error_status /\ pc \notin {"send", "callbacks", "free", "done"}
     \/ error_status' \notin Exceptions \/ req.type = "set"

\* All steps but lookups, VarbindValue, Complete and Send.
LEMMA PlainSteps ==
  ASSUME TypeOK, AuthInv, req \in Requests, [Next]_vars
  PROVE  \/ Plain \/ UNCHANGED <<out, req, reply, pc, cur, error_status>>
         \/ GetVarbind \/ BulkFirstVarbind \/ BulkInnerVarbind
         \/ ValidateVarbind \/ VarbindValue \/ Complete \/ Send
<1> USE DEF Plain, SetPhases, loopVars, outerVars, given, Exceptions
<1>1. CASE ParseBadCommunity \/ ParseV1Bulk \/ ParseAccept \/ InformVarbind
  BY <1>1 DEF ParseBadCommunity, ParseV1Bulk, ParseAccept, InformVarbind, ParsedStatus, AllReadOnly
<1>2. CASE Prepare
  <2>1. req.type \in {"get", "getNext", "getBulk", "set"}
    BY <1>2, RequestType DEF Prepare, AuthInv
  <2>2. PhaseOf(req.type) \in {"get", "bulkFirst", "setTest"}
    BY <2>1 DEF PhaseOf
  <2> QED
    BY <1>2, <2>2 DEF Prepare
<1>3. CASE MalformedVarbind \/ GetBadVarbind \/ GetLoopEnd
  BY <1>3 DEF MalformedVarbind, GetBadVarbind, GetLoopEnd
<1>4. CASE BulkFirstBadVarbind \/ BulkFirstEnd
  BY <1>4 DEF BulkFirstBadVarbind, BulkFirstEnd
<1>5. CASE BulkLoop
  BY <1>5 DEF BulkLoop
<1>6. CASE BulkInnerHeader \/ BulkAfter \/ BulkInnerEnd
  BY <1>6 DEF BulkInnerHeader, BulkAfter, BulkInnerEnd
<1>7. CASE SetTestVarbind \/ SetTest \/ SetTestTooLong \/ SetTestEnd
  BY <1>7 DEF SetTestVarbind, SetLookup, SetTest, SetTestTooLong, SetTestEnd, AuthInv
<1>8. CASE SetCommitVarbind \/ SetCommit \/ SetCommitEnd
  BY <1>8 DEF SetCommitVarbind, SetLookup, SetCommit, SetCommitEnd, AuthInv
<1>9. CASE WriteCallbacks \/ Free
  BY <1>9 DEF WriteCallbacks, Free
<1>10. CASE Vanish \/ UNCHANGED vars
  BY <1>10 DEF Vanish, vars
<1> QED
  BY <1>1, <1>2, <1>3, <1>4, <1>5, <1>6, <1>7, <1>8, <1>9, <1>10 DEF Next, Receive

\* Whatever the step, what it adds to the response or sends fits the version.
LEMMA VersionInvStep ==
  ASSUME IInv, req \in Requests, VersionInv, [Next]_vars
  PROVE  VersionInv'
<1>a. /\ TypeOK /\ AuthInv /\ HeldInv /\ BulkInv /\ OutFits /\ StatusFits /\ ResponseFitsVersion
      /\ out \in Seq(Varbinds) /\ req.varbinds \in Seq(InboundVarbinds)
  BY RequestType DEF IInv, VersionInv, TypeOK
<1>1. CASE Plain
  <2>1. OutFits' /\ ResponseFitsVersion'
    BY <1>a, <1>1 DEF Plain, OutFits, FitsV1, ResponseFitsVersion
  <2>2. StatusFits'
    BY <1>a, <1>1 DEF Plain, StatusFits
  <2> QED
    BY <1>1, <2>1, <2>2 DEF Plain, VersionInv
<1>2. CASE UNCHANGED <<out, req, reply, pc, cur, error_status>>
  BY <1>2 DEF VersionInv, OutFits, FitsV1, StatusFits, ResponseFitsVersion
<1>3. ASSUME NEW name \in Nat, NEW getNext \in BOOLEAN, NEW phase \in {"get", "bulkFirst", "bulkAfter"},
             LookupVarbind(name, getNext, phase), UNCHANGED <<req, reply>>,
             pc \in {"get", "bulkFirst", "bulkInner"}
      PROVE  VersionInv'
  <2>1. req.type # "set"
    BY <1>a, <1>3 DEF AuthInv, SetPhases
  <2>2. req.version # "v1" => error_status \notin Exceptions
    BY <1>a, <1>3, <2>1 DEF StatusFits
  <2>3. /\ OutFits'
        /\ req.version # "v1" => error_status' \notin Exceptions
        /\ pc' = "value" /\ req.version = "v1" => Mib[cur'].type # "counter64"
        /\ pc' \in {"value", "validate", phase}
    BY <1>a, <1>3, <2>2, LookupFits
  <2>4. ResponseFitsVersion'
    BY <1>a, <1>3 DEF ResponseFitsVersion
  <2> QED
    BY <1>3, <2>3, <2>4 DEF VersionInv, StatusFits
<1>4. CASE GetVarbind
  <2>1. InboundVarbind.name \in Nat
    BY <1>a, <1>4, InboundType DEF GetVarbind, LoopEnds, TypeOK
  <2> QED
    BY <1>3, <1>4, <2>1 DEF GetVarbind, outerVars, given
<1>5. CASE BulkFirstVarbind
  <2>1. InboundVarbind.name \in Nat
    BY <1>a, <1>5, InboundType DEF BulkFirstVarbind, LoopEnds, TypeOK
  <2> QED
    BY <1>3, <1>5, <2>1 DEF BulkFirstVarbind, outerVars, given
<1>6. CASE BulkInnerVarbind
  <2>1. out[bulk.next] \in Varbinds
    BY <1>a, <1>6, BulkInnerIndex, ElementOfSeq
  <2>2. out[bulk.next].name \in Nat
    BY <2>1 DEF Varbinds
  <2> QED
    BY <1>3, <1>6, <2>2 DEF BulkInnerVarbind, outerVars, given
<1>7. CASE VarbindValue
  <2>1. /\ cur \in DOMAIN Mib /\ UNCHANGED <<req, reply>> /\ pc' = ret
        /\ ret \in {"get", "bulkFirst", "bulkAfter"}
    BY <1>a, <1>7 DEF VarbindValue, outerVars, given, BulkInv, Holding, HeldInv
  <2>2. OutFits' /\ error_status' \notin Exceptions
    <3>1. CASE Mib[cur].get
      <4> DEFINE vb == [name |-> cur, val |-> "value", size |-> Mib[cur].size]
      <4>1. vb \in Varbinds
        BY <2>1, ConstantsAssumption DEF ConstantsAssumption, Varbinds
      <4>2. req.version = "v1" => FitsV1(vb)
        BY <1>7 DEF VarbindValue, VersionInv, FitsV1, Exceptions
      <4>3. AppendVarbind(vb)
        BY <1>7, <3>1 DEF VarbindValue
      <4> QED
        BY <1>a, <2>1, <4>1, <4>2, <4>3, AppendFits
    <3>2. CASE ~Mib[cur].get
      BY <1>a, <1>7, <2>1, <3>2 DEF VarbindValue, OutFits, FitsV1, Exceptions
    <3> QED
      BY <3>1, <3>2
  <2>3. ResponseFitsVersion'
    BY <1>a, <2>1 DEF ResponseFitsVersion
  <2> QED
    BY <2>1, <2>2, <2>3 DEF VersionInv, StatusFits
<1>v. CASE ValidateVarbind
  <2>1. /\ cur \in Nat /\ UNCHANGED <<req, reply, cur>> /\ ret = "get" /\ req.type # "set"
        /\ pc = "validate"
    BY <1>a, <1>v, ConstantsAssumption DEF ValidateVarbind, outerVars, given, BulkInv, Holding,
       HeldInv, AuthInv, SetPhases, ConstantsAssumption
  <2>2. /\ OutFits' /\ pc' \in {"value", "get"}
        /\ req.version # "v1" => error_status' \notin Exceptions
        /\ pc' = "value" /\ req.version = "v1" => Mib[cur].type # "counter64"
    <3>1. CASE Accessible(cur) /\ pc' = "value" /\ UNCHANGED <<error_status, out>>
      <4>1. req.version # "v1" => error_status \notin Exceptions
        BY <1>a, <2>1 DEF StatusFits
      <4> QED
        BY <1>a, <2>1, <3>1, <4>1 DEF OutFits, FitsV1, Accessible
    <3>2. CASE NoVarbind(cur, "noSuchInstance") /\ pc' = ret
      BY <1>a, <2>1, <3>2, NoVarbindFits
    <3> QED
      BY <1>v, <3>1, <3>2 DEF ValidateVarbind
  <2>3. ResponseFitsVersion'
    BY <1>a, <2>1 DEF ResponseFitsVersion
  <2> QED
    BY <2>1, <2>2, <2>3 DEF VersionInv, StatusFits
<1>8. CASE Complete
  <2>1. /\ UNCHANGED <<req, reply>> /\ error_status' = FinalStatus /\ pc' \in {"free", "send"}
        /\ pc' = "send" => FinalStatus \notin Exceptions
    BY <1>8 DEF Complete, outerVars, given
  <2>2. req.version = "v1" => FinalStatus \in V1Statuses
    BY <1>a, <1>8, FinalStatusFits DEF StatusFits, Complete
  <2>3. OutFits'
    <3>1. CASE out' = out
      BY <1>a, <2>1, <3>1 DEF OutFits, FitsV1
    <3>2. CASE out' = [i \in DOMAIN req.varbinds |->
                         [name |-> req.varbinds[i].name, val |-> "echo", size |-> 0]]
      BY <3>2 DEF OutFits, FitsV1, Exceptions
    <3> QED
      BY <1>8, <3>1, <3>2 DEF Complete
  <2>4. ResponseFitsVersion'
    BY <1>a, <2>1 DEF ResponseFitsVersion
  <2> QED
    BY <2>1, <2>2, <2>3, <2>4 DEF VersionInv, StatusFits
<1>9. CASE Send
  <2> DEFINE r == [status |-> error_status, index |-> error_index, varbinds |-> out]
  <2>1. /\ reply = <<>> /\ reply' \in {reply, Append(reply, r)}
        /\ UNCHANGED <<req, out>> /\ pc' \in {"callbacks", "free"}
    BY <1>a, <1>9 DEF Send, Sent, AuthInv, loopVars, given
  <2>2. ToSet(reply') \subseteq {r}
    BY <2>1 DEF ToSet
  <2>3. IF req.version = "v1" THEN error_status \in V1Statuses ELSE error_status \notin Exceptions
    BY <1>9 DEF Send, VersionInv
  <2>4. req.version = "v1" => \A vb \in ToSet(out) : FitsV1(vb)
    BY <1>a DEF OutFits, ToSet
  <2>5. ResponseFitsVersion'
    BY <2>1, <2>2, <2>3, <2>4 DEF ResponseFitsVersion, FitsV1
  <2>6. OutFits'
    BY <1>a, <2>1 DEF OutFits, FitsV1
  <2> QED
    BY <2>1, <2>5, <2>6 DEF VersionInv, StatusFits
<1> QED
  BY <1>a, <1>1, <1>2, <1>4, <1>5, <1>6, <1>7, <1>8, <1>9, <1>v, PlainSteps

\* For every request and MIB a response in v1 has an error status of v1, no exception
\* and no Counter64, and one in v2c no exception as its status, also when instances
\* vanish meanwhile (snmp_complete_outbound_frame(), snmp_process_varbind()).
THEOREM ResponsesFitVersion == Spec => []ResponseFitsVersion
<1>1. Init => VersionInv
  BY DEF Init, VersionInv, OutFits, StatusFits, ResponseFitsVersion, ToSet, Exceptions
<1>2. IInv /\ req \in Requests /\ VersionInv /\ [Next]_vars => VersionInv'
  BY VersionInvStep
<1>3. Init => IInv /\ req \in Requests
  BY IInvInit
<1>4. IInv /\ req \in Requests /\ [Next]_vars => (IInv /\ req \in Requests)'
  BY IInvStep
<1>5. VersionInv => ResponseFitsVersion
  BY DEF VersionInv
<1> QED
  BY <1>1, <1>2, <1>3, <1>4, <1>5, PTL DEF Spec

-----------------------------------------------------------------------------
(***************************************************************************)
(* The responses are the right ones: those to GET, GETNEXT and GETBULK are *)
(* what the MIB says, the index of an error is that of the first varbind   *)
(* at fault, and what was processed is answered.  This is for every MIB    *)
(* that does not change meanwhile, every set of requests and every         *)
(* capacity of the response.                                               *)
(***************************************************************************)

-----------------------------------------------------------------------------
(* The inductive invariant.                                                *)

GetNext == req.type = "getNext"

\* What the first n varbinds of a GET or GETNEXT are answered with.
Answers(n) == [i \in 1 .. n |-> Answer(Names[i], GetNext)]

\* Varbind i can be served and its answer fits behind those before it.
Good(i) == Fault(i) = "noError" /\ Size(Answers(i)) <= Capacity
GoodUpTo(n) == \A i \in 1 .. n : Good(i)

\* The instance of that name is looked up.
LookedUpFor(name) == cur = name /\ name \in DOMAIN Mib /\ Mib[name].lookup = "noError"

\* The instance looked up is the one that serves name.
FoundFor(name, getNext) ==
  Served(name, getNext) # {} /\ cur = Min(Served(name, getNext))

\* The error_status the loop was left with at varbind n, before it is completed.
FailedAs(n, status) ==
  IF Fault(n) = "noError" THEN status = "tooBig"
  ELSE IF Fault(n) = "genErr" THEN status = "genErr"
  ELSE req.version = "v1" /\ status \in Exceptions /\ Fault(n) = "noSuchName"

\* Where the loop over the varbinds of a GET or GETNEXT is.
GetProgress ==
  IF error_status = "noError"
  THEN out = Answers(varbind_count) /\ GoodUpTo(varbind_count)
  ELSE /\ varbind_count >= 1 /\ GoodUpTo(varbind_count - 1) /\ ~Good(varbind_count)
       /\ FailedAs(varbind_count, error_status)

\* What the properties say of a response to a GET or GETNEXT, and of an error.
GetResult(status, index, varbinds) ==
  status = "noError" =>
    /\ varbinds = [i \in DOMAIN req.varbinds |-> Answer(req.varbinds[i].name, GetNext)]
    /\ \A i \in DOMAIN req.varbinds : Fault(i) = "noError"
    /\ Size(varbinds) <= Capacity
    /\ index = req.errorIndex
ErrorResult(status, index) ==
  status # "noError" /\ ~AllReadOnly /\ IndexIsZero =>
    LET faults == {i \in DOMAIN req.varbinds : Fault(i) # "noError"}
        unwritable == {i \in DOMAIN req.varbinds : ~Mib[Names[i]].set}
        overflow == {i \in DOMAIN req.varbinds : Size(Answers(i)) > Capacity}
    IN  CASE index = 0 -> status = "tooBig"
          [] req.type = "set" /\ index # 0 ->
               /\ index = Min(IF faults # {} THEN faults ELSE unwritable)
               /\ status = ReportedStatus(
                    IF faults # {} THEN Fault(index)
                    ELSE IF index = 1 THEN "commitFailed" ELSE "undoFailed")
          [] OTHER ->
               /\ index = Min(faults \cup overflow)
               /\ status = IF index \in faults THEN Fault(index) ELSE "genErr"

GetLoopInv ==
  /\ pc \in {"parse", "prepare", "get", "validate", "value", "complete", "send", "free", "done"}
  /\ pc = "prepare" => error_status = "noError"
  /\ pc \in {"parse", "prepare"} => out = <<>> /\ varbind_count = 0
  /\ pc \in {"prepare", "get", "validate", "value", "complete"} => error_index = req.errorIndex
  /\ pc \in {"get", "complete"} => GetProgress
  /\ pc = "complete" /\ error_status = "noError" => varbind_count = Len(req.varbinds)
  /\ pc \in {"validate", "value"} =>
       /\ ret = "get" /\ error_status = "noError" /\ varbind_count >= 1
       /\ out = Answers(varbind_count - 1) /\ GoodUpTo(varbind_count - 1)
       /\ req.varbinds[varbind_count].kind = "null"
  /\ pc = "validate" => ~GetNext /\ LookedUpFor(Names[varbind_count])
  /\ pc = "value" => FoundFor(Names[varbind_count], GetNext)
  /\ pc = "send" => GetResult(error_status, error_index, out)
                    /\ ErrorResult(error_status, error_index)
GetInv == req.type \in {"get", "getNext"} => GetLoopInv

\* Where the two loops over the varbinds of a SET are, or were left.
NoFaultUpTo(n) == \A i \in 1 .. n : Fault(i) = "noError"
WritableUpTo(n) == \A i \in 1 .. n : Mib[Names[i]].set
TestProgress ==
  IF error_status = "noError" THEN NoFaultUpTo(varbind_count)
  ELSE /\ varbind_count >= 1 /\ NoFaultUpTo(varbind_count - 1)
       /\ Fault(varbind_count) = error_status
CommitProgress ==
  /\ NoFaultUpTo(Len(req.varbinds))
  /\ IF error_status = "noError" THEN WritableUpTo(varbind_count)
     ELSE /\ varbind_count >= 1 /\ WritableUpTo(varbind_count - 1)
          /\ ~Mib[Names[varbind_count]].set
          /\ error_status = CommitFailure

SetLoopInv ==
  /\ pc = "prepare" => error_status = "noError"
  /\ pc \in {"test", "commit"} => error_status = "noError" /\ varbind_count >= 1
  /\ pc = "setTest" => TestProgress
  /\ pc = "test" =>
       /\ NoFaultUpTo(varbind_count - 1)
       /\ Fault(varbind_count) = TestResult(req.varbinds[varbind_count])
  /\ pc = "commit" =>
       /\ NoFaultUpTo(Len(req.varbinds)) /\ WritableUpTo(varbind_count - 1)
       /\ cur = Names[varbind_count]
  /\ pc = "setCommit" => CommitProgress
  /\ pc = "complete" /\ error_status # "noError" => TestProgress \/ CommitProgress
  /\ pc = "send" => ErrorResult(error_status, error_index)
SetInv == req.type = "set" /\ ~AllReadOnly => SetLoopInv

\* The length of a response after so many repetitions, and the repetitions begun.
Through(repetitions) == N + R * repetitions
Begun == req.maxRepetitions - bulk.reps

Prefix == \A p \in 1 .. Len(out) : out[p] = BulkVarbind(p)
NextTooBig == Size(out) + BulkVarbind(Len(out) + 1).size > Capacity
PastEnd(first, last) == \A p \in first .. last : out[p].val = "endOfMibView"

\* The varbinds of a GETBULK read in its first loop.
FirstPart(n) ==
  /\ bulk.nonrep = req.nonRepeaters - n
  /\ IF bulk.nonrep >= 0
     THEN bulk.off = HeaderOffset /\ bulk.reps = req.maxRepetitions
     ELSE bulk.off = N + 1 /\ Begun = 1

\* A repetition enumerates the answers of the one before it.
Repetition ==
  /\ R > 0 /\ bulk.reps > 0 /\ Begun >= 1
  /\ bulk.first = Through(Begun - 1) + 1 /\ bulk.last = Through(Begun)
  /\ bulk.off = bulk.last + 1
  /\ bulk.next \in bulk.first .. bulk.last + 1

\* Between two repetitions: all is answered, or Begun of them are.
BetweenRepetitions ==
  \/ /\ Len(out) = Through(req.maxRepetitions)
     /\ bulk.reps = 0 \/ bulk.off \in {HeaderOffset, OutOffset}
  \/ /\ R > 0 /\ Begun >= 1
     /\ Len(out) = Through(Begun) /\ bulk.off = Through(Begun - 1) + 1

InnerProgress ==
  /\ error_status = "noError"
  /\ bulk.first # HeaderOffset =>
       /\ Repetition
       /\ Len(out) = bulk.last + RepetitionCount
       /\ bulk.allEnd <=> PastEnd(bulk.last + 1, Len(out))
AfterProgress ==
  /\ Repetition /\ bulk.next > bulk.first
  /\ error_status = "noError" =>
       /\ Len(out) = bulk.last + RepetitionCount
       /\ bulk.allEnd <=> PastEnd(bulk.last + 1, Len(out) - 1)
BulkValueProgress ==
  /\ error_status = "noError" /\ ret \in {"bulkFirst", "bulkAfter"}
  /\ ret = "bulkFirst" =>
       /\ varbind_count >= 1 /\ Len(out) = varbind_count - 1 /\ FirstPart(varbind_count)
       /\ FoundFor(Names[varbind_count], TRUE)
  /\ ret = "bulkAfter" =>
       /\ Repetition /\ bulk.next > bulk.first
       /\ Len(out) = bulk.last + RepetitionCount - 1
       /\ bulk.allEnd <=> PastEnd(bulk.last + 1, Len(out))
       /\ FoundFor(out[bulk.next - 1].name, TRUE)

\* What the property says of a response to a GETBULK.
BulkResult(status, varbinds) ==
  status = "noError" =>
    /\ Len(varbinds) <= Through(req.maxRepetitions)
    /\ \A p \in 1 .. Len(varbinds) : varbinds[p] = BulkVarbind(p)
    /\ Len(varbinds) < Through(req.maxRepetitions) =>
         \/ Size(varbinds) + BulkVarbind(Len(varbinds) + 1).size > Capacity
         \/ /\ Len(varbinds) >= N + R
            /\ \A p \in Len(varbinds) - R + 1 .. Len(varbinds) :
                 varbinds[p].val = "endOfMibView"

BulkPhases == {"bulkFirst", "bulkLoop", "bulkInner", "bulkAfter", "value", "complete"}

BulkLoopInv ==
  /\ pc \in BulkPhases \cup {"parse", "prepare", "send", "free", "done"}
  /\ pc \notin {"parse", "done"} => req.version # "v1"
  /\ pc \in {"parse", "prepare"} => bulk.off = HeaderOffset /\ out = <<>> /\ varbind_count = 0
  /\ pc = "prepare" => error_status = "noError" /\ FirstPart(0)
  /\ pc \in BulkPhases => Prefix /\ Len(out) <= Through(req.maxRepetitions)
  /\ pc \in BulkPhases /\ error_status = "tooBig" => NextTooBig
  /\ pc = "bulkFirst" /\ error_status = "noError" =>
       Len(out) = varbind_count /\ FirstPart(varbind_count)
  /\ pc = "bulkLoop" /\ error_status = "noError" => BetweenRepetitions
  /\ pc = "bulkInner" => InnerProgress
  /\ pc = "bulkAfter" => AfterProgress
  /\ pc = "value" => BulkValueProgress
  /\ pc \in {"complete", "send"} => BulkResult(error_status, out)
BulkAnswerInv == req.type = "getBulk" => BulkLoopInv

\* A repetition has no more varbinds than the request, and each adds one at most.
RepetitionCounts(added) ==
  bulk.first # HeaderOffset =>
    /\ bulk.last < bulk.first + Len(req.varbinds)
    /\ bulk.first <= bulk.next /\ bulk.next <= bulk.last + 1
    /\ bulk.off = bulk.last + 1
    /\ Len(out) + 1 <= bulk.last + (bulk.next - bulk.first) + added

\* How many varbinds a GETBULK has enumerated, whatever it has found.
BulkCounts ==
  /\ pc \in {"parse", "prepare"} => out = <<>> /\ varbind_count = 0
  /\ pc \in {"parse", "prepare"} => bulk.off = HeaderOffset
  /\ pc = "bulkFirst" => Len(out) <= varbind_count /\ bulk.off <= Len(out) + 1
  /\ pc = "value" /\ ret = "bulkFirst" => Len(out) < varbind_count /\ bulk.off <= Len(out) + 1
  /\ pc = "bulkLoop" /\ error_status = "noError" =>
       /\ bulk.off <= Len(out) + 1
       /\ bulk.off = HeaderOffset \/ Len(out) < bulk.off + Len(req.varbinds)
  /\ pc \in {"bulkInner", "bulkAfter"} => RepetitionCounts(1)
  /\ pc = "value" /\ ret = "bulkAfter" => RepetitionCounts(0)
  /\ pc = "bulkAfter" \/ (pc = "value" /\ ret = "bulkAfter") => bulk.first # HeaderOffset

\* The phases of a GET, GETNEXT or SET in which the index is the one of the request.
IndexKept == {"prepare", "get", "validate", "value", "setTest", "test", "setCommit", "commit",
              "complete"}

\* The error-index while a request is processed: the one of the request, or for
\* GETBULK the count of varbinds.
IndexInv ==
  /\ req.type # "getBulk" =>
       /\ pc \notin {"bulkFirst", "bulkLoop", "bulkInner", "bulkAfter"}
       /\ pc \in {"validate", "value"} => ret = "get"
       /\ pc \in IndexKept => error_index = req.errorIndex
  /\ req.type = "getBulk" =>
       /\ pc \in BulkPhases \cup {"parse", "prepare", "send", "free", "done"}
       /\ pc = "value" => ret # "get"
       /\ pc \in BulkPhases \cup {"prepare"} =>
            error_index \in 0 .. req.nonRepeaters + Len(req.varbinds) + 1
       /\ BulkCounts

AnswersIInv == GetInv /\ SetInv /\ BulkAnswerInv /\ IndexInv

-----------------------------------------------------------------------------
(* Lemmas about the operators.                                             *)

\* Induction over the numbers up to m, for a set of numbers.
LEMMA UpToInduction ==
  ASSUME NEW m \in Nat, NEW P, 0 \in P, \A n \in 0 .. m - 1 : n \in P => n + 1 \in P
  PROVE  \A n \in 0 .. m : n \in P
<1> DEFINE Others == {n \in 0 .. m : n \notin P}
<1> SUFFICES ASSUME Others # {} PROVE FALSE
  OBVIOUS
<1>1. Others \in SUBSET Nat
  OBVIOUS
<1> HIDE DEF Others
<1>2. PICK least \in Others : \A n \in Others : least <= n
  BY <1>1, MinIsMember
<1>3. least \in 0 .. m /\ least \notin P /\ least # 0
  BY <1>2 DEF Others
<1>4. least - 1 \in 0 .. m - 1 /\ least - 1 \notin Others
  BY <1>1, <1>2, <1>3
<1>5. least - 1 \in P
  BY <1>4 DEF Others
<1> QED
  BY <1>3, <1>4, <1>5

\* The least member of a set of indices.
LEMMA LeastIs ==
  ASSUME NEW S \in SUBSET Nat, NEW k \in S, \A i \in S : k <= i
  PROVE  Min(S) = k
<1>1. \A x \in S : (\A y \in S : x <= y) => x = k
  OBVIOUS
<1> QED
  BY <1>1 DEF Min

\* The sizes of the first varbinds, summed up.
Sums(varbinds, sum) ==
  sum = [n \in 0 .. Len(varbinds) |-> IF n = 0 THEN 0 ELSE sum[n - 1] + varbinds[n].size]

\* There are such sums.
LEMMA SumsExist ==
  ASSUME NEW varbinds \in Seq(Varbinds)
  PROVE  \E sum : Sums(varbinds, sum)
<1> DEFINE Partial(m, f) ==
             f = [n \in 0 .. m |-> IF n = 0 THEN 0 ELSE f[n - 1] + varbinds[n].size]
           P == {m \in Nat : \E f : Partial(m, f)}
<1>1. 0 \in P
  <2>1. Partial(0, [n \in 0 .. 0 |-> 0])
    OBVIOUS
  <2> QED
    BY <2>1
<1>2. ASSUME NEW m \in 0 .. Len(varbinds) - 1, m \in P
      PROVE  m + 1 \in P
  <2>1. PICK f : Partial(m, f)
    BY <1>2
  <2> DEFINE g == [n \in 0 .. m + 1 |-> IF n = m + 1 THEN f[m] + varbinds[m + 1].size ELSE f[n]]
  <2>2. m \in Nat /\ \A n \in 0 .. m : f[n] = IF n = 0 THEN 0 ELSE f[n - 1] + varbinds[n].size
    BY <2>1
  <2>3. \A n \in 0 .. m + 1 : g[n] = IF n = 0 THEN 0 ELSE g[n - 1] + varbinds[n].size
    BY <2>2
  <2>4. Partial(m + 1, g)
    BY <2>3
  <2> HIDE DEF Partial, g
  <2> QED
    BY <2>2, <2>4
<1>3. Len(varbinds) \in Nat /\ Len(varbinds) \in 0 .. Len(varbinds)
  OBVIOUS
<1>4. Len(varbinds) \in P
  <2> HIDE DEF P
  <2> QED
    BY <1>1, <1>2, <1>3, UpToInduction
<1> QED
  BY <1>4 DEF Sums

\* The size of some varbinds is their sum.
LEMMA SizeIsSum ==
  ASSUME NEW varbinds \in Seq(Varbinds)
  PROVE  \E sum : /\ Sums(varbinds, sum) /\ Size(varbinds) = sum[Len(varbinds)]
                  /\ \A n \in 0 .. Len(varbinds) : sum[n] \in Nat
<1> DEFINE chosen == CHOOSE sum : Sums(varbinds, sum)
<1>1. Size(varbinds) = chosen[Len(varbinds)]
  BY DEF Size, Sums
<1>2. Sums(varbinds, chosen)
  BY SumsExist
<1> HIDE DEF chosen
<1> DEFINE P == {n \in Nat : chosen[n] \in Nat}
<1>3. /\ Len(varbinds) \in Nat
      /\ \A n \in 1 .. Len(varbinds) : varbinds[n].size \in Nat
  <2>1. Len(varbinds) \in Nat /\ \A n \in 1 .. Len(varbinds) : varbinds[n] \in Varbinds
    OBVIOUS
  <2> QED
    BY <2>1 DEF Varbinds
<1>4. \A n \in 0 .. Len(varbinds) :
        chosen[n] = IF n = 0 THEN 0 ELSE chosen[n - 1] + varbinds[n].size
  BY <1>2, <1>3 DEF Sums
<1>5. 0 \in P
  BY <1>3, <1>4
<1>6. \A n \in 0 .. Len(varbinds) - 1 : n \in P => n + 1 \in P
  BY <1>3, <1>4
<1>7. \A n \in 0 .. Len(varbinds) : n \in P
  <2> HIDE DEF P
  <2> QED
    BY <1>3, <1>5, <1>6, UpToInduction
<1> QED
  BY <1>1, <1>2, <1>7

\* A size is a number.
LEMMA SizeType ==
  ASSUME NEW varbinds \in Seq(Varbinds)
  PROVE  Size(varbinds) \in Nat
<1>1. PICK sum : /\ Size(varbinds) = sum[Len(varbinds)]
                 /\ \A n \in 0 .. Len(varbinds) : sum[n] \in Nat
  BY SizeIsSum
<1>2. Len(varbinds) \in 0 .. Len(varbinds)
  OBVIOUS
<1> QED
  BY <1>1, <1>2

\* No varbinds have no size.
LEMMA SizeEmpty == Size(<<>>) = 0
<1>1. PICK sum : Sums(<<>>, sum) /\ Size(<<>>) = sum[Len(<<>>)]
  <2>1. <<>> \in Seq(Varbinds)
    OBVIOUS
  <2> QED
    BY <2>1, SizeIsSum
<1> QED
  BY <1>1 DEF Sums

\* One more varbind adds its size.
LEMMA SizeAppend ==
  ASSUME NEW varbinds \in Seq(Varbinds), NEW vb \in Varbinds
  PROVE  Size(Append(varbinds, vb)) = Size(varbinds) + vb.size
<1> DEFINE longer == Append(varbinds, vb)
           m == Len(varbinds)
<1>1. /\ longer \in Seq(Varbinds) /\ m \in Nat /\ Len(longer) = m + 1
      /\ longer[m + 1] = vb /\ \A n \in 1 .. m : longer[n] = varbinds[n]
  OBVIOUS
<1> HIDE DEF longer
<1>2. PICK f : Sums(varbinds, f) /\ Size(varbinds) = f[m]
  BY SizeIsSum
<1>3. PICK g : Sums(longer, g) /\ Size(longer) = g[m + 1]
  BY <1>1, SizeIsSum
<1>4. \A n \in 0 .. m : f[n] = IF n = 0 THEN 0 ELSE f[n - 1] + varbinds[n].size
  BY <1>1, <1>2 DEF Sums
<1>5. \A n \in 0 .. m + 1 : g[n] = IF n = 0 THEN 0 ELSE g[n - 1] + longer[n].size
  BY <1>1, <1>3 DEF Sums
<1> DEFINE P == {n \in Nat : f[n] = g[n]}
<1>6. 0 \in P
  <2>1. 0 \in 0 .. m /\ 0 \in 0 .. m + 1
    BY <1>1
  <2>2. f[0] = 0 /\ g[0] = 0
    BY <1>4, <1>5, <2>1
  <2> QED
    BY <2>2
<1>7. \A n \in 0 .. m - 1 : n \in P => n + 1 \in P
  <2> SUFFICES ASSUME NEW n \in 0 .. m - 1, f[n] = g[n] PROVE f[n + 1] = g[n + 1]
    BY <1>1
  <2> HIDE DEF m
  <2>1. n + 1 \in 1 .. m /\ n + 1 \in 0 .. m /\ n + 1 \in 0 .. m + 1 /\ (n + 1) - 1 = n
    BY <1>1
  <2>2. f[n + 1] = f[n] + varbinds[n + 1].size /\ g[n + 1] = g[n] + longer[n + 1].size
    BY <1>1, <1>4, <1>5, <2>1
  <2> QED
    BY <1>1, <2>1, <2>2
<1>8. \A n \in 0 .. m : n \in P
  <2> HIDE DEF P, m
  <2> QED
    BY <1>1, <1>6, <1>7, UpToInduction
<1>9. f[m] = g[m] /\ g[m + 1] = g[m] + vb.size
  BY <1>1, <1>5, <1>8
<1> QED
  BY <1>2, <1>3, <1>9 DEF longer

\* What the MIB says depends on the request only.
LEMMA ReferenceStays ==
  ASSUME req' = req
  PROVE  /\ Names' = Names /\ GetNext' = GetNext /\ IndexIsZero' = IndexIsZero
         /\ N' = N /\ R' = R
         /\ \A name, getNext : Served(name, getNext)' = Served(name, getNext)
         /\ \A name, getNext : Answer(name, getNext)' = Answer(name, getNext)
         /\ \A n : Answers(n)' = Answers(n)
<1>1. Names' = Names /\ GetNext' = GetNext /\ IndexIsZero' = IndexIsZero
  BY DEF Names, GetNext, IndexIsZero
<1>2. N' = N /\ R' = R
  BY DEF N, R
<1>3. \A name, getNext : Served(name, getNext)' = Served(name, getNext)
  BY DEF Served, Reachable, Accessible
<1>4. \A name, getNext : Answer(name, getNext)' = Answer(name, getNext)
  BY <1>3 DEF Answer
<1>5. \A n : Answers(n)' = Answers(n)
  BY <1>1, <1>4 DEF Answers
<1> QED
  BY <1>1, <1>2, <1>3, <1>4, <1>5

\* What serves a name is an instance of the MIB; the answer is a varbind.
LEMMA AnswerType ==
  ASSUME NEW name \in Nat, NEW getNext \in BOOLEAN
  PROVE  /\ Served(name, getNext) \in SUBSET Nat
         /\ Served(name, getNext) \subseteq DOMAIN Mib
         /\ Answer(name, getNext) \in Varbinds
         /\ Served(name, getNext) # {} =>
              /\ Min(Served(name, getNext)) \in Served(name, getNext)
              /\ Answer(name, getNext) =
                   [name |-> Min(Served(name, getNext)), val |-> "value",
                    size |-> Mib[Min(Served(name, getNext))].size]
<1> DEFINE served == Served(name, getNext)
<1>1. served \in SUBSET Nat /\ served \subseteq DOMAIN Mib
  BY ConstantsAssumption DEF ConstantsAssumption, Served
<1>2. CASE served # {}
  <2> DEFINE first == Min(served)
  <2>1. first \in served
    BY <1>1, <1>2, MinIsMember
  <2>2. Answer(name, getNext) = [name |-> first, val |-> "value", size |-> Mib[first].size]
    BY <1>2 DEF Answer
  <2> HIDE DEF served, first
  <2>3. first \in Nat /\ Mib[first].size \in Nat
    BY <1>1, <2>1, ConstantsAssumption DEF ConstantsAssumption
  <2>4. Answer(name, getNext) \in Varbinds
    BY <2>2, <2>3 DEF Varbinds
  <2> QED
    BY <1>1, <1>2, <2>1, <2>2, <2>4 DEF served, first
<1>3. CASE served = {}
  <2>1. Answer(name, getNext) =
          [name |-> name, val |-> IF getNext THEN "endOfMibView" ELSE "noSuchInstance",
           size |-> 1]
    BY <1>3 DEF Answer
  <2>2. Answer(name, getNext) \in Varbinds
    BY <2>1 DEF Varbinds, Exceptions
  <2> QED
    BY <1>1, <1>3, <2>2
<1> QED
  BY <1>2, <1>3

\* A lookup in a MIB that is complete finds the instance that serves the name, or
\* none serves it and that is the answer.
LEMMA LookupAnswers ==
  ASSUME TypeOK, present = DOMAIN Mib, NEW name \in Nat, NEW phase,
         LookupVarbind(name, TRUE, phase)
  PROVE  \/ /\ pc' = "value" /\ ret' = phase
            /\ Served(name, TRUE) # {} /\ cur' = Min(Served(name, TRUE))
            /\ UNCHANGED <<error_status, out>>
         \/ /\ pc' = phase
            /\ Served(name, TRUE) = {} /\ NoVarbind(name, "endOfMibView")
            /\ IF req.version = "v1"
               THEN error_status' \in Exceptions /\ UNCHANGED out
               ELSE AppendVarbind(Answer(name, TRUE))
<1>1. NextInstances(name) = Served(name, TRUE)
  BY DEF NextInstances, Served
<1>2. Served(name, TRUE) = {} =>
        Answer(name, TRUE) = [name |-> name, val |-> "endOfMibView", size |-> 1]
  BY DEF Answer
<1>3. \/ /\ NextResult(name) = "noError" /\ pc' = "value" /\ ret' = phase
         /\ cur' = Min(NextInstances(name)) /\ UNCHANGED <<error_status, out>>
      \/ /\ NextResult(name) # "noError" /\ pc' = phase
         /\ NoVarbind(name, NextResult(name))
  BY DEF LookupVarbind
<1>4. NextResult(name) = IF Served(name, TRUE) = {} THEN "endOfMibView" ELSE "noError"
  BY <1>1 DEF NextResult
<1>5. NoVarbind(name, "endOfMibView") =>
        IF req.version = "v1"
        THEN error_status' = "endOfMibView" /\ UNCHANGED out
        ELSE AppendVarbind([name |-> name, val |-> "endOfMibView", size |-> 1])
  BY DEF NoVarbind, Exceptions
<1>6. "endOfMibView" \in Exceptions
  BY DEF Exceptions
<1> QED
  BY <1>1, <1>2, <1>3, <1>4, <1>5, <1>6

\* Nor does GET find another instance than the one of the name, if it exists and
\* its node looks it up.
LEMMA ExactAnswers ==
  ASSUME TypeOK, present = DOMAIN Mib, NEW name \in Nat, NEW phase,
         LookupVarbind(name, FALSE, phase)
  PROVE  \/ /\ pc' = "validate" /\ ret' = phase /\ LookedUpFor(name)'
            /\ UNCHANGED <<error_status, out>>
         \/ /\ pc' = phase /\ FailingLookup(name)
            /\ error_status' = "genErr" /\ UNCHANGED out
         \/ /\ pc' = phase /\ ~FailingLookup(name)
            /\ Served(name, FALSE) = {} /\ NoVarbind(name, "noSuchInstance")
<1>1. /\ LookupResult(name) \in {"noError", "genErr", "noSuchInstance"}
      /\ LookupResult(name) # "noSuchInstance" =>
           name \in DOMAIN Mib /\ Mib[name].lookup = LookupResult(name)
      /\ LookupResult(name) = "noSuchInstance" => name \notin DOMAIN Mib
  BY LookupResultType DEF TypeOK
<1>2. \/ /\ LookupResult(name) = "noError" /\ pc' = "validate" /\ ret' = phase
         /\ cur' = name /\ UNCHANGED <<error_status, out>>
      \/ /\ LookupResult(name) # "noError" /\ pc' = phase
         /\ NoVarbind(name, LookupResult(name))
  BY DEF LookupVarbind
<1>3. NoVarbind(name, "genErr") => error_status' = "genErr" /\ UNCHANGED out
  BY DEF NoVarbind, Exceptions
<1>4. CASE LookupResult(name) = "noError"
  BY <1>1, <1>2, <1>4 DEF LookedUpFor
<1>5. CASE LookupResult(name) = "genErr"
  BY <1>1, <1>2, <1>3, <1>5 DEF FailingLookup
<1>6. CASE LookupResult(name) = "noSuchInstance"
  BY <1>1, <1>2, <1>6 DEF FailingLookup, Served
<1> QED
  BY <1>1, <1>4, <1>5, <1>6

\* The instance looked up serves its name when it is accessible, or nothing does.
LEMMA ServedExactly ==
  ASSUME NEW name \in Nat, LookedUpFor(name)
  PROVE  /\ ~FailingLookup(name)
         /\ Accessible(name) => FoundFor(name, FALSE)
         /\ ~Accessible(name) => Served(name, FALSE) = {}
<1>1. name \in DOMAIN Mib /\ Mib[name].lookup = "noError" /\ cur = name
  BY DEF LookedUpFor
<1>2. Served(name, FALSE) = IF Accessible(name) THEN {name} ELSE {}
  BY <1>1 DEF Served, Reachable
<1>3. Min({name}) = name
  BY MinIsMember
<1> QED
  BY <1>1, <1>2, <1>3 DEF FailingLookup, FoundFor

\* The value of the instance that serves a name is its answer.
LEMMA ValueAnswers ==
  ASSUME NEW name \in Nat, NEW getNext \in BOOLEAN, FoundFor(name, getNext)
  PROVE  Answer(name, getNext) = [name |-> cur, val |-> "value", size |-> Mib[cur].size]
BY AnswerType DEF FoundFor

\* The answers to a GET or GETNEXT, one after the other.
LEMMA AnswersGrow ==
  ASSUME req \in Requests, NEW n \in 1 .. Len(req.varbinds)
  PROVE  /\ Answers(n - 1) \in Seq(Varbinds) /\ Len(Answers(n - 1)) = n - 1
         /\ Answer(Names[n], GetNext) \in Varbinds
         /\ Answers(n) = Append(Answers(n - 1), Answer(Names[n], GetNext))
         /\ Size(Answers(n)) = Size(Answers(n - 1)) + Answer(Names[n], GetNext).size
<1>1. /\ Len(req.varbinds) \in Nat
      /\ \A i \in 1 .. Len(req.varbinds) : Names[i] \in Nat
  BY NamesType
<1>2. \A i \in 1 .. Len(req.varbinds) : Answer(Names[i], GetNext) \in Varbinds
  BY <1>1, AnswerType DEF GetNext
<1>3. /\ Answers(n - 1) \in Seq(Varbinds) /\ Len(Answers(n - 1)) = n - 1
      /\ \A i \in 1 .. n - 1 : Answers(n - 1)[i] = Answer(Names[i], GetNext)
  BY <1>1, <1>2 DEF Answers
<1>4. Answers(n) = Append(Answers(n - 1), Answer(Names[n], GetNext))
  <2> DEFINE longer == Append(Answers(n - 1), Answer(Names[n], GetNext))
  <2>1. /\ longer \in Seq(Varbinds) /\ Len(longer) = n
        /\ \A i \in 1 .. n : longer[i] = Answer(Names[i], GetNext)
    BY <1>2, <1>3
  <2> HIDE DEF longer
  <2>2. longer = [i \in 1 .. n |-> Answer(Names[i], GetNext)]
    BY <2>1
  <2> QED
    BY <2>2 DEF Answers, longer
<1> QED
  BY <1>2, <1>3, <1>4, SizeAppend

-----------------------------------------------------------------------------
(* GET and GETNEXT.                                                        *)

\* What is at fault depends on the request and the MIB only.
LEMMA FaultsStay ==
  ASSUME req' = req
  PROVE  /\ \A i : Fault(i)' = Fault(i)
         /\ \A i : Good(i)' <=> Good(i)
         /\ \A n : GoodUpTo(n)' <=> GoodUpTo(n)
         /\ \A n, status : FailedAs(n, status)' <=> FailedAs(n, status)
         /\ \A n : NoFaultUpTo(n)' <=> NoFaultUpTo(n)
         /\ \A n : WritableUpTo(n)' <=> WritableUpTo(n)
<1>1. /\ Names' = Names
      /\ \A name, getNext : Served(name, getNext)' = Served(name, getNext)
      /\ \A n : Answers(n)' = Answers(n)
  BY ReferenceStays
<1>2. \A vb, getNext : GetFault(vb, getNext)' = GetFault(vb, getNext)
  BY <1>1 DEF GetFault
<1>3. \A vb : SetFault(vb)' = SetFault(vb)
  BY DEF SetFault, TestResult
<1>4. \A i : Fault(i)' = Fault(i)
  BY <1>2, <1>3 DEF Fault
<1>5. \A i : Good(i)' <=> Good(i)
  BY <1>1, <1>4 DEF Good
<1> QED
  BY <1>1, <1>4, <1>5 DEF GoodUpTo, FailedAs, NoFaultUpTo, WritableUpTo

\* A loop over varbinds has read one more, which was good or not.
LEMMA GetProgressNext ==
  ASSUME req' = req, NEW n \in Nat, varbind_count' = n,
         IF error_status' = "noError" THEN out' = Answers(n) /\ GoodUpTo(n)
         ELSE n >= 1 /\ GoodUpTo(n - 1) /\ ~Good(n) /\ FailedAs(n, error_status')
  PROVE  GetProgress'
<1>1. \A s : FailedAs(n, s)' <=> FailedAs(n, s)
  BY FaultsStay
<1>2. FailedAs(varbind_count, error_status)' <=> FailedAs(n, error_status')
  BY DEF FailedAs, Fault, SetFault, GetFault, TestResult, Served, Reachable, Accessible
<1> QED
  BY <1>2, ReferenceStays, FaultsStay DEF GetProgress

\* The good varbinds are one more.
LEMMA GoodGrows ==
  ASSUME NEW n \in Nat, n >= 1, GoodUpTo(n - 1), Good(n)
  PROVE  GoodUpTo(n)
BY DEF GoodUpTo

\* What the answer to the varbind that was read last makes of the response.
LEMMA AppendAnswer ==
  ASSUME req \in Requests, req' = req,
         NEW n \in 1 .. Len(req.varbinds), varbind_count' = n,
         out = Answers(n - 1), GoodUpTo(n - 1), Fault(n) = "noError",
         AppendVarbind(Answer(Names[n], GetNext)), Capacity \in Nat
  PROVE  GetProgress'
<1>0. n \in Nat /\ n >= 1
  BY RequestType
<1>1. /\ n \in Nat /\ n >= 1
      /\ Answers(n) = Append(out, Answer(Names[n], GetNext))
      /\ Size(Answers(n)) = Size(out) + Answer(Names[n], GetNext).size
      /\ Size(Answers(n)) \in Nat
  <2>1. /\ out \in Seq(Varbinds) /\ Answer(Names[n], GetNext) \in Varbinds
        /\ Answers(n) = Append(out, Answer(Names[n], GetNext))
        /\ Size(Answers(n)) = Size(out) + Answer(Names[n], GetNext).size
    BY AnswersGrow
  <2>2. Answers(n) \in Seq(Varbinds)
    BY <2>1
  <2> QED
    BY <1>0, <2>1, <2>2, SizeType
<1>2. CASE Size(out) + Answer(Names[n], GetNext).size > Capacity
  <2>1. error_status' = "tooBig"
    BY <1>2 DEF AppendVarbind
  <2>2. ~Good(n)
    <3>1. Size(Answers(n)) > Capacity
      BY <1>1, <1>2
    <3>2. ~(Size(Answers(n)) <= Capacity)
      BY <1>1, <3>1
    <3> QED
      BY <3>2 DEF Good
  <2>3. FailedAs(n, error_status')
    BY <2>1 DEF FailedAs
  <2> QED
    BY <1>1, <2>1, <2>2, <2>3, GetProgressNext
<1>3. CASE ~(Size(out) + Answer(Names[n], GetNext).size > Capacity)
  <2>1. error_status' = "noError" /\ out' = Answers(n)
    BY <1>1, <1>3 DEF AppendVarbind
  <2>2. Good(n)
    <3>1. Size(Answers(n)) <= Capacity
      BY <1>1, <1>3
    <3> QED
      BY <3>1 DEF Good
  <2>3. GoodUpTo(n)
    BY <1>1, <2>2, GoodGrows
  <2> QED
    BY <1>1, <2>1, <2>3, GetProgressNext
<1> QED
  BY <1>2, <1>3

\* A varbind that nothing serves: an answer too, but in v1 the end of the loop.
LEMMA UnservedAnswer ==
  ASSUME req \in Requests, req.type \in {"get", "getNext"}, req' = req,
         NEW n \in 1 .. Len(req.varbinds), varbind_count' = n,
         out = Answers(n - 1), GoodUpTo(n - 1), req.varbinds[n].kind = "null",
         ~GetNext => ~FailingLookup(Names[n]), Served(Names[n], GetNext) = {},
         NoVarbind(Names[n], IF GetNext THEN "endOfMibView" ELSE "noSuchInstance"),
         Capacity \in Nat
  PROVE  GetProgress'
<1>0. n \in Nat /\ n >= 1
  BY RequestType
<1>1. Names[n] = req.varbinds[n].name
  BY NamesType
<1>2. Fault(n) = IF req.version = "v1" THEN "noSuchName" ELSE "noError"
  BY <1>1 DEF Fault, GetFault, GetNext
<1> DEFINE result == IF GetNext THEN "endOfMibView" ELSE "noSuchInstance"
<1>3. Answer(Names[n], GetNext) = [name |-> Names[n], val |-> result, size |-> 1]
  BY DEF Answer
<1>4. result \in Exceptions
  BY DEF Exceptions
<1> HIDE DEF result
<1>5. NoVarbind(Names[n], result)
  BY DEF result
<1>6. CASE req.version = "v1"
  <2>1. error_status' = result /\ error_status' # "noError"
    BY <1>4, <1>5, <1>6 DEF NoVarbind, Exceptions
  <2>2. ~Good(n) /\ FailedAs(n, error_status')
    BY <1>2, <1>4, <1>6, <2>1 DEF Good, FailedAs
  <2> QED
    BY <1>0, <2>1, <2>2, GetProgressNext
<1>7. CASE req.version # "v1"
  <2>1. Fault(n) = "noError" /\ AppendVarbind(Answer(Names[n], GetNext))
    BY <1>2, <1>3, <1>4, <1>5, <1>7 DEF NoVarbind
  <2> QED
    BY <2>1, AppendAnswer
<1> QED
  BY <1>6, <1>7

\* What the properties ask of a response depends on the request and the MIB only.
LEMMA ResultsStay ==
  ASSUME req' = req, snmp_community_write' = snmp_community_write
  PROVE  /\ \A status, index : ErrorResult(status, index)' <=> ErrorResult(status, index)
         /\ \A status, index, varbinds :
              GetResult(status, index, varbinds)' <=> GetResult(status, index, varbinds)
<1>1. /\ \A i : Fault(i)' = Fault(i)
      /\ Names' = Names /\ GetNext' = GetNext /\ IndexIsZero' = IndexIsZero
      /\ \A n : Answers(n)' = Answers(n)
      /\ \A name, getNext : Answer(name, getNext)' = Answer(name, getNext)
      /\ AllReadOnly' = AllReadOnly
  BY ReferenceStays, FaultsStay DEF AllReadOnly
<1>2. ASSUME NEW status, NEW index
      PROVE  ErrorResult(status, index)' <=> ErrorResult(status, index)
  BY <1>1 DEF ErrorResult, ReportedStatus
<1>3. ASSUME NEW status, NEW index, NEW varbinds
      PROVE  GetResult(status, index, varbinds)' <=> GetResult(status, index, varbinds)
  BY <1>1 DEF GetResult
<1> QED
  BY <1>2, <1>3

\* A GET or GETNEXT that has been through all its varbinds is answered rightly.
LEMMA GetCompletes ==
  ASSUME req \in Requests, GetProgress, error_status = "noError",
         varbind_count = Len(req.varbinds), error_index = req.errorIndex, Capacity \in Nat
  PROVE  GetResult("noError", error_index, out)
<1> DEFINE n == Len(req.varbinds)
<1>1. out = Answers(n) /\ GoodUpTo(n)
  BY DEF GetProgress
<1>2. n \in Nat /\ DOMAIN req.varbinds = 1 .. n
  BY RequestType
<1>3. \A i \in 1 .. n : Names[i] = req.varbinds[i].name
  BY NamesType
<1> HIDE DEF n
<1>4. \A i \in DOMAIN req.varbinds : Fault(i) = "noError"
  BY <1>1, <1>2 DEF GoodUpTo, Good
<1>5. out = [i \in DOMAIN req.varbinds |-> Answer(req.varbinds[i].name, GetNext)]
  BY <1>1, <1>2, <1>3 DEF Answers
<1>6. Size(out) <= Capacity
  <2>1. CASE n = 0
    <3>1. out = <<>>
      BY <1>1, <2>1 DEF Answers
    <3> QED
      BY <3>1, SizeEmpty
  <2>2. CASE n # 0
    <3>1. n \in 1 .. n
      BY <1>2, <2>2
    <3> QED
      BY <1>1, <3>1 DEF GoodUpTo, Good
  <2> QED
    BY <2>1, <2>2
<1> QED
  BY <1>4, <1>5, <1>6 DEF GetResult

\* A GET or GETNEXT that stopped at a varbind names it, as the first at fault.
LEMMA GetErrorNames ==
  ASSUME TypeOK, req \in Requests, req.type \in {"get", "getNext"}, GetProgress,
         error_status # "noError", error_index = req.errorIndex, Capacity \in Nat
  PROVE  ErrorResult(FinalStatus, FinalIndex)
<1> DEFINE n == varbind_count
           faults == {i \in DOMAIN req.varbinds : Fault(i) # "noError"}
           overflow == {i \in DOMAIN req.varbinds : Size(Answers(i)) > Capacity}
<1> SUFFICES ASSUME IndexIsZero, FinalStatus # "tooBig"
             PROVE  /\ FinalIndex # 0 /\ FinalIndex = Min(faults \cup overflow)
                    /\ FinalStatus = IF FinalIndex \in faults THEN Fault(FinalIndex) ELSE "genErr"
  <2>1. FinalStatus # "noError"
    BY FinalStatusFacts DEF TypeOK
  <2>2. IndexIsZero /\ FinalStatus = "tooBig" => FinalIndex = 0
    BY <2>1 DEF FinalIndex
  <2>3. CASE FinalStatus = "tooBig"
    BY <2>2, <2>3 DEF ErrorResult
  <2>4. CASE FinalStatus # "tooBig"
    BY <2>4 DEF ErrorResult
  <2> QED
    BY <2>3, <2>4
<1>1. /\ n \in 1 .. Len(req.varbinds) /\ Len(req.varbinds) \in Nat
      /\ DOMAIN req.varbinds = 1 .. Len(req.varbinds)
      /\ GoodUpTo(n - 1) /\ ~Good(n)
  BY RequestType DEF GetProgress, TypeOK
<1>2. FinalIndex = n
  <2>1. FinalStatus # "noError"
    BY FinalStatusFacts DEF TypeOK
  <2> QED
    BY <2>1 DEF FinalIndex, IndexIsZero
<1>3. \A i \in 1 .. Len(req.varbinds) : Size(Answers(i)) \in Nat
  <2> SUFFICES ASSUME NEW i \in 1 .. Len(req.varbinds) PROVE Size(Answers(i)) \in Nat
    OBVIOUS
  <2>1. /\ Answers(i - 1) \in Seq(Varbinds)
        /\ Answer(Names[i], GetNext) \in Varbinds
        /\ Answers(i) = Append(Answers(i - 1), Answer(Names[i], GetNext))
    BY AnswersGrow
  <2>2. Answers(i) \in Seq(Varbinds)
    BY <2>1
  <2> QED
    BY <2>2, SizeType
<1>8. FinalStatus = IF n \in faults THEN Fault(n) ELSE "genErr"
  <2>1. FailedAs(n, error_status)
    BY DEF GetProgress
  <2>2. n \in faults <=> Fault(n) # "noError"
    BY <1>1
  <2> HIDE DEF n, faults
  <2>3. CASE Fault(n) = "noError"
    BY <2>1, <2>2, <2>3 DEF FailedAs, FinalStatus, V1Status, Exceptions, NameErrors, ValueErrors
  <2>4. CASE Fault(n) = "genErr"
    BY <2>1, <2>2, <2>4 DEF FailedAs, FinalStatus, V1Status, Exceptions, NameErrors, ValueErrors
  <2>5. CASE Fault(n) \notin {"noError", "genErr"}
    BY <2>1, <2>2, <2>5 DEF FailedAs, FinalStatus, V1Status, Exceptions, NameErrors, ValueErrors
  <2> QED
    BY <2>3, <2>4, <2>5
<1> HIDE DEF n
<1>4. n \in faults \cup overflow
  BY <1>1, <1>3 DEF Good
<1>5. ASSUME NEW i \in faults \cup overflow PROVE n <= i
  <2>1. i \in 1 .. Len(req.varbinds) /\ ~Good(i)
    BY <1>1, <1>3, <1>5 DEF Good
  <2> QED
    BY <1>1, <2>1 DEF GoodUpTo
<1>6. faults \cup overflow \in SUBSET Nat
  BY <1>1
<1> HIDE DEF faults, overflow
<1>7. Min(faults \cup overflow) = n
  BY <1>4, <1>5, <1>6, LeastIs
<1> QED
  BY <1>1, <1>2, <1>7, <1>8

\* A GET or GETNEXT looks a varbind up.
LEMMA GetVarbindStep ==
  ASSUME TypeOK, req \in Requests, GetLoopInv, req.type \in {"get", "getNext"},
         present = DOMAIN Mib, GetVarbind, Capacity \in Nat
  PROVE  GetLoopInv'
<1> DEFINE n == varbind_count + 1
           name == Names[n]
<1>1. /\ req' = req /\ varbind_count' = n /\ error_index' = error_index
      /\ pc = "get" /\ error_status = "noError"
      /\ ~EndOfVarbinds /\ InboundVarbind.kind = "null"
      /\ LookupVarbind(InboundVarbind.name, GetNext, "get")
  BY DEF GetVarbind, LoopEnds, Decodes, NextInbound, outerVars, given, GetNext
<1>2. n \in 1 .. Len(req.varbinds) /\ InboundVarbind = req.varbinds[n]
  BY InboundType, <1>1 DEF TypeOK, InboundVarbind
<1>3. name = InboundVarbind.name /\ name \in Nat
  BY <1>1, <1>2, InboundType, NamesType DEF TypeOK
<1>4. n \in Nat /\ n >= 1 /\ n - 1 = varbind_count
  BY <1>2, RequestType DEF TypeOK
<1>5. out = Answers(n - 1) /\ GoodUpTo(n - 1) /\ error_index = req.errorIndex
  BY <1>1, <1>4 DEF GetLoopInv, GetProgress
<1>6. req.varbinds[n].kind = "null"
  BY <1>1, <1>2
<1>7. /\ \A m : GoodUpTo(m)' <=> GoodUpTo(m)
      /\ Names' = Names /\ GetNext' = GetNext
      /\ \A m : Answers(m)' = Answers(m)
      /\ \A o, getNext : Served(o, getNext)' = Served(o, getNext)
  BY <1>1, ReferenceStays, FaultsStay
<1> HIDE DEF n, name
<1> DEFINE Found == /\ GetNext /\ pc' = "value" /\ ret' = "get"
                    /\ Served(name, GetNext) # {} /\ cur' = Min(Served(name, GetNext))
                    /\ UNCHANGED <<error_status, out>>
           Exists == /\ ~GetNext /\ pc' = "validate" /\ ret' = "get"
                     /\ cur' = name /\ name \in DOMAIN Mib /\ Mib[name].lookup = "noError"
                     /\ UNCHANGED <<error_status, out>>
           Fails == /\ ~GetNext /\ pc' = "get" /\ FailingLookup(name)
                    /\ error_status' = "genErr" /\ UNCHANGED out
           Unserved == /\ pc' = "get"
                       /\ ~GetNext => ~FailingLookup(name)
                       /\ Served(name, GetNext) = {}
                       /\ NoVarbind(name, IF GetNext THEN "endOfMibView" ELSE "noSuchInstance")
<1>8. Found \/ Exists \/ Fails \/ Unserved
  <2>1. CASE GetNext
    <3>1. GetNext = TRUE
      BY <2>1 DEF GetNext
    <3> QED
      BY <1>1, <1>3, <3>1, LookupAnswers
  <2>2. CASE ~GetNext
    <3>1. GetNext = FALSE
      BY <2>2 DEF GetNext
    <3> QED
      BY <1>1, <1>3, <3>1, ExactAnswers DEF LookedUpFor
  <2> QED
    BY <2>1, <2>2
<1>9. ASSUME Found \/ Exists
      PROVE  GetLoopInv'
  <2>1. Found => FoundFor(Names[varbind_count], GetNext)'
    BY <1>1, <1>7 DEF FoundFor, name
  <2>2. Exists => LookedUpFor(Names[varbind_count])' /\ ~GetNext'
    BY <1>1, <1>7 DEF LookedUpFor, name
  <2>3. req.varbinds[varbind_count]'.kind = "null"
    BY <1>1, <1>6
  <2>4. GoodUpTo(varbind_count - 1)' /\ Answers(varbind_count - 1)' = Answers(n - 1)
    BY <1>1, <1>5, <1>7
  <2> QED
    BY <1>1, <1>4, <1>5, <1>9, <2>1, <2>2, <2>3, <2>4 DEF GetLoopInv
<1>10. ASSUME Fails \/ Unserved
       PROVE  GetLoopInv'
  <2>1. GetProgress'
    <3>1. CASE Fails
      <4>1. Fault(n) = "genErr"
        BY <1>1, <1>2, <1>3, <3>1 DEF Fault, GetFault, GetNext
      <4>2. ~Good(n) /\ FailedAs(n, "genErr")
        BY <4>1 DEF Good, FailedAs
      <4> QED
        BY <1>1, <1>4, <1>5, <3>1, <4>2, GetProgressNext
    <3>2. CASE Unserved
      BY <1>1, <1>2, <1>5, <1>6, <3>2, UnservedAnswer DEF name
    <3> QED
      BY <1>10, <3>1, <3>2
  <2>2. pc' = "get"
    BY <1>10
  <2> HIDE DEF Fails, Unserved
  <2> QED
    BY <1>1, <1>5, <2>1, <2>2 DEF GetLoopInv
<1> QED
  BY <1>8, <1>9, <1>10

\* The instance of a GET is released again when it is not accessible.
LEMMA GetValidateStep ==
  ASSUME TypeOK, req \in Requests, GetLoopInv, req.type \in {"get", "getNext"},
         ValidateVarbind, Capacity \in Nat
  PROVE  GetLoopInv'
<1> DEFINE n == varbind_count
           name == Names[n]
<1>1. /\ req' = req /\ varbind_count' = n /\ error_index' = error_index /\ UNCHANGED <<cur, ret>>
      /\ pc = "validate" /\ ret = "get" /\ error_index = req.errorIndex /\ error_status = "noError"
      /\ out = Answers(n - 1) /\ GoodUpTo(n - 1) /\ ~GetNext /\ LookedUpFor(name)
      /\ req.varbinds[n].kind = "null"
  BY DEF ValidateVarbind, outerVars, given, GetLoopInv
<1>2. n \in 1 .. Len(req.varbinds) /\ n \in Nat /\ n >= 1
  BY RequestType DEF GetLoopInv, TypeOK, ValidateVarbind
<1>3. name = req.varbinds[n].name /\ name \in Nat /\ cur = name
  BY <1>1, <1>2, NamesType DEF LookedUpFor
<1>4. /\ ~FailingLookup(name)
      /\ Accessible(name) => FoundFor(name, FALSE)
      /\ ~Accessible(name) => Served(name, FALSE) = {}
  BY <1>1, <1>3, ServedExactly
<1>5. GetNext = FALSE
  BY <1>1 DEF GetNext
<1>6. /\ \A m : GoodUpTo(m)' <=> GoodUpTo(m)
      /\ Names' = Names /\ GetNext' = GetNext
      /\ \A m : Answers(m)' = Answers(m)
      /\ \A o, getNext : Served(o, getNext)' = Served(o, getNext)
  BY <1>1, ReferenceStays, FaultsStay
<1> HIDE DEF n
<1>7. CASE Accessible(cur) /\ pc' = "value" /\ UNCHANGED <<error_status, out>>
  <2>1. FoundFor(Names[varbind_count], GetNext)'
    BY <1>1, <1>3, <1>4, <1>5, <1>6, <1>7 DEF FoundFor
  <2>2. GoodUpTo(varbind_count - 1)' /\ Answers(varbind_count - 1)' = Answers(n - 1)
    BY <1>1, <1>6
  <2> QED
    BY <1>1, <1>2, <1>7, <2>1, <2>2 DEF GetLoopInv
<1>8. CASE ~Accessible(cur) /\ NoVarbind(cur, "noSuchInstance") /\ pc' = ret
  <2>1. Served(Names[n], GetNext) = {} /\ NoVarbind(Names[n], "noSuchInstance")
    BY <1>3, <1>4, <1>5, <1>8
  <2>2. GetProgress'
    BY <1>1, <1>2, <1>4, <1>5, <2>1, UnservedAnswer
  <2> QED
    BY <1>1, <1>8, <2>2 DEF GetLoopInv
<1> QED
  BY <1>7, <1>8 DEF ValidateVarbind

\* The value of the instance that was looked up for a GET or GETNEXT.
LEMMA GetValueStep ==
  ASSUME TypeOK, req \in Requests, GetLoopInv, req.type \in {"get", "getNext"},
         VarbindValue, Capacity \in Nat
  PROVE  GetLoopInv'
<1> DEFINE n == varbind_count
           name == Names[n]
<1>1. /\ req' = req /\ varbind_count' = n /\ error_index' = error_index
      /\ pc = "value" /\ pc' = "get" /\ ret = "get" /\ error_index = req.errorIndex
      /\ out = Answers(n - 1) /\ GoodUpTo(n - 1) /\ FoundFor(name, GetNext)
      /\ req.varbinds[n].kind = "null"
  BY DEF VarbindValue, outerVars, given, GetLoopInv
<1>2. n \in 1 .. Len(req.varbinds) /\ n \in Nat /\ n >= 1
  BY <1>1, RequestType DEF GetLoopInv, TypeOK
<1>3. name = req.varbinds[n].name /\ name \in Nat
  BY <1>2, NamesType
<1>4. Fault(n) = IF Mib[cur].get THEN "noError" ELSE "genErr"
  <2>1. ~GetNext => ~FailingLookup(name)
    <3> SUFFICES ASSUME ~GetNext PROVE ~FailingLookup(name)
      OBVIOUS
    <3>1. Served(name, FALSE) # {}
      BY <1>1 DEF FoundFor, GetNext
    <3> HIDE DEF name
    <3> QED
      BY <3>1 DEF Served, Reachable, FailingLookup
  <2> QED
    BY <1>1, <1>3, <2>1 DEF Fault, GetFault, GetNext, FoundFor
<1>5. Answer(name, GetNext) = [name |-> cur, val |-> "value", size |-> Mib[cur].size]
  BY <1>1, <1>3, ValueAnswers DEF GetNext
<1> HIDE DEF n
<1>6. GetProgress'
  <2>1. CASE Mib[cur].get
    <3>1. AppendVarbind(Answer(Names[n], GetNext))
      BY <1>5, <2>1 DEF VarbindValue
    <3> QED
      BY <1>1, <1>2, <1>4, <2>1, <3>1, AppendAnswer
  <2>2. CASE ~Mib[cur].get
    <3>1. error_status' = "genErr"
      BY <2>2 DEF VarbindValue
    <3>2. ~Good(n) /\ FailedAs(n, "genErr")
      BY <1>4, <2>2 DEF Good, FailedAs
    <3> QED
      BY <1>1, <1>2, <3>1, <3>2, GetProgressNext
  <2> QED
    BY <2>1, <2>2
<1> QED
  BY <1>1, <1>6 DEF GetLoopInv

\* A varbind with a value ends a GET or GETNEXT.
LEMMA GetBadStep ==
  ASSUME TypeOK, req \in Requests, GetLoopInv, req.type \in {"get", "getNext"},
         GetBadVarbind
  PROVE  GetLoopInv'
<1> DEFINE n == varbind_count + 1
<1>1. /\ req' = req /\ varbind_count' = n /\ error_index' = error_index
      /\ pc = "get" /\ pc' = "get" /\ error_status = "noError" /\ error_status' = "genErr"
      /\ ~EndOfVarbinds /\ InboundVarbind.kind # "null"
  BY DEF GetBadVarbind, LoopEnds, Decodes, NextInbound, outerVars, given
<1>2. n \in Nat /\ n >= 1 /\ n - 1 = varbind_count /\ InboundVarbind = req.varbinds[n]
  BY RequestType DEF TypeOK, InboundVarbind
<1>3. GoodUpTo(n - 1) /\ error_index = req.errorIndex
  BY <1>1, <1>2 DEF GetLoopInv, GetProgress
<1>4. ~Good(n) /\ FailedAs(n, "genErr")
  <2>1. Fault(n) = "genErr"
    BY <1>1, <1>2 DEF Fault, GetFault
  <2> QED
    BY <2>1 DEF Good, FailedAs
<1> HIDE DEF n
<1>5. GetProgress'
  BY <1>1, <1>2, <1>3, <1>4, GetProgressNext
<1> QED
  BY <1>1, <1>3, <1>5 DEF GetLoopInv

\* A GET or GETNEXT is completed.
LEMMA GetCompleteStep ==
  ASSUME TypeOK, req \in Requests, GetLoopInv, req.type \in {"get", "getNext"},
         Complete, Capacity \in Nat
  PROVE  GetLoopInv'
<1>1. /\ req' = req /\ snmp_community_write' = snmp_community_write
      /\ pc = "complete" /\ pc' \in {"free", "send"}
      /\ error_status' = FinalStatus /\ error_index' = FinalIndex
      /\ FinalStatus = "noError" => out' = out
      /\ GetProgress /\ error_index = req.errorIndex
      /\ error_status = "noError" => varbind_count = Len(req.varbinds)
  BY DEF Complete, outerVars, given, GetLoopInv
<1>2. FinalStatus = "noError" <=> error_status = "noError"
  BY FinalStatusFacts DEF TypeOK
<1>3. ErrorResult(FinalStatus, FinalIndex)
  <2>1. CASE error_status = "noError"
    BY <1>2, <2>1 DEF ErrorResult
  <2>2. CASE error_status # "noError"
    BY <1>1, <2>2, GetErrorNames
  <2> QED
    BY <2>1, <2>2
<1>4. GetResult(FinalStatus, FinalIndex, out')
  <2>1. CASE error_status = "noError"
    <3>1. GetResult("noError", error_index, out)
      BY <1>1, <2>1, GetCompletes
    <3>2. FinalStatus = "noError" /\ FinalIndex = error_index /\ out' = out
      BY <1>1, <1>2, <2>1 DEF FinalIndex
    <3> QED
      BY <3>1, <3>2
  <2>2. CASE error_status # "noError"
    BY <1>2, <2>2 DEF GetResult
  <2> QED
    BY <2>1, <2>2
<1>5. ErrorResult(error_status, error_index)' /\ GetResult(error_status, error_index, out)'
  BY <1>1, <1>3, <1>4, ResultsStay
<1> QED
  BY <1>1, <1>5 DEF GetLoopInv

\* The steps of a GET or GETNEXT.
LEMMA GetInvStep ==
  ASSUME TypeOK, AuthInv, req \in Requests, GetInv, present = DOMAIN Mib, present' = present,
         Capacity \in Nat, [Next]_vars
  PROVE  GetInv'
<1>1. req' = req
  BY RequestStays
<1> SUFFICES ASSUME req.type \in {"get", "getNext"}
             PROVE  GetLoopInv'
  BY <1>1 DEF GetInv
<1>2. GetLoopInv
  BY DEF GetInv
<1>3. /\ \A n : GoodUpTo(n)' <=> GoodUpTo(n)
      /\ \A n : Good(n)' <=> Good(n)
      /\ Names' = Names /\ GetNext' = GetNext
      /\ \A m : Answers(m)' = Answers(m)
      /\ \A o, getNext : Served(o, getNext)' = Served(o, getNext)
  BY <1>1, ReferenceStays, FaultsStay
<1>4. CASE ParseBadCommunity \/ ParseV1Bulk \/ MalformedVarbind \/ Send \/ WriteCallbacks \/ Free
  <2>1. pc' \in {"done", "free"}
    BY <1>2, <1>4 DEF ParseBadCommunity, ParseV1Bulk, MalformedVarbind, Send, WriteCallbacks,
                      Free, GetLoopInv, WriteCallbacksFollow
  <2> QED
    BY <2>1 DEF GetLoopInv
<1>5. CASE ParseAccept
  BY <1>1, <1>2, <1>5 DEF ParseAccept, GetLoopInv, ParsedStatus, AllReadOnly
<1>6. CASE Prepare
  <2>1. /\ pc' \in {"get", "done"} /\ UNCHANGED <<error_status, error_index, out, varbind_count>>
        /\ error_status = "noError" /\ varbind_count = 0 /\ out = <<>>
        /\ error_index = req.errorIndex
    BY <1>2, <1>6 DEF Prepare, PhaseOf, GetLoopInv, loopVars
  <2>2. out = Answers(0) /\ GoodUpTo(0)
    BY <2>1 DEF Answers, GoodUpTo
  <2>3. GetProgress'
    BY <1>1, <2>1, <2>2, GetProgressNext
  <2> QED
    BY <1>1, <2>1, <2>3 DEF GetLoopInv
<1>7. CASE GetLoopEnd
  <2>1. /\ pc = "get" /\ pc' = "complete" /\ UNCHANGED <<error_status, error_index, out, varbind_count>>
        /\ error_status = "noError" => varbind_count = Len(req.varbinds)
    BY <1>7 DEF GetLoopEnd, loopVars, LoopEnds, EndOfVarbinds
  <2>2. GetProgress'
    <3>1. FailedAs(varbind_count, error_status)' <=> FailedAs(varbind_count, error_status)
      BY <2>1, <1>1, FaultsStay DEF FailedAs
    <3> QED
      BY <1>2, <1>3, <2>1, <3>1 DEF GetLoopInv, GetProgress
  <2> QED
    BY <1>1, <1>2, <2>1, <2>2 DEF GetLoopInv
<1>8. CASE GetVarbind
  BY <1>2, <1>8, GetVarbindStep
<1>9. CASE VarbindValue
  BY <1>2, <1>9, GetValueStep
<1>10. CASE GetBadVarbind
  BY <1>2, <1>10, GetBadStep
<1>11. CASE Complete
  BY <1>2, <1>11, GetCompleteStep
<1>12. CASE \/ InformVarbind \/ BulkFirstVarbind \/ BulkFirstBadVarbind \/ BulkFirstEnd
            \/ BulkLoop \/ BulkInnerVarbind \/ BulkInnerHeader \/ BulkAfter \/ BulkInnerEnd
            \/ SetTestVarbind \/ SetTest \/ SetTestTooLong \/ SetTestEnd
            \/ SetCommitVarbind \/ SetCommit \/ SetCommitEnd
  BY <1>2, <1>12 DEF GetLoopInv, InformVarbind, BulkFirstVarbind, BulkFirstBadVarbind, BulkFirstEnd,
       BulkLoop, BulkInnerVarbind, BulkInnerHeader, BulkAfter, BulkInnerEnd,
       SetTestVarbind, SetTest, SetTestTooLong, SetTestEnd, SetCommitVarbind, SetCommit,
       SetCommitEnd
<1>13. CASE Vanish
  BY <1>13 DEF Vanish
<1>15. CASE ValidateVarbind
  BY <1>2, <1>15, GetValidateStep
<1>14. CASE UNCHANGED vars
  <2>1. UNCHANGED <<req, pc, ret, error_status, error_index, out, varbind_count, cur,
                    snmp_community_write>>
    BY <1>14 DEF vars, loopVars, outerVars, given
  <2>2. /\ ErrorResult(error_status, error_index)' <=> ErrorResult(error_status, error_index)
        /\ GetResult(error_status, error_index, out)' <=> GetResult(error_status, error_index, out)
    BY <2>1, ResultsStay
  <2>3. GetProgress' <=> GetProgress
    <3>1. FailedAs(varbind_count, error_status)' <=> FailedAs(varbind_count, error_status)
      BY <2>1, <1>3, FaultsStay DEF FailedAs
    <3> QED
      BY <1>3, <2>1, <3>1 DEF GetProgress
  <2>4. /\ FoundFor(Names[varbind_count], GetNext)' <=> FoundFor(Names[varbind_count], GetNext)
        /\ LookedUpFor(Names[varbind_count])' <=> LookedUpFor(Names[varbind_count])
    BY <1>3, <2>1 DEF FoundFor, LookedUpFor
  <2> QED
    BY <1>2, <1>3, <2>1, <2>2, <2>3, <2>4 DEF GetLoopInv
<1> QED
  BY <1>4, <1>5, <1>6, <1>7, <1>8, <1>9, <1>10, <1>11, <1>12, <1>13, <1>14, <1>15 DEF Next, Receive

-----------------------------------------------------------------------------
(* SET.                                                                    *)

\* A SET that stopped at a varbind names it: the first whose test failed, or the
\* first that could not be written after all tests.
LEMMA SetErrorNames ==
  ASSUME TypeOK, req \in Requests, req.type = "set", TestProgress \/ CommitProgress,
         error_status # "noError", error_index = req.errorIndex
  PROVE  ErrorResult(FinalStatus, FinalIndex)
<1> DEFINE n == varbind_count
           faults == {i \in DOMAIN req.varbinds : Fault(i) # "noError"}
           unwritable == {i \in DOMAIN req.varbinds : ~Mib[Names[i]].set}
<1>1. FinalStatus # "noError"
  BY FinalStatusFacts DEF TypeOK
<1> SUFFICES ASSUME IndexIsZero, FinalStatus # "tooBig"
             PROVE  /\ FinalIndex # 0
                    /\ FinalIndex = Min(IF faults # {} THEN faults ELSE unwritable)
                    /\ FinalStatus = ReportedStatus(
                         IF faults # {} THEN Fault(FinalIndex)
                         ELSE IF FinalIndex = 1 THEN "commitFailed" ELSE "undoFailed")
  <2>1. IndexIsZero /\ FinalStatus = "tooBig" => FinalIndex = 0
    BY <1>1 DEF FinalIndex
  <2>2. CASE FinalStatus = "tooBig"
    BY <2>1, <2>2 DEF ErrorResult
  <2>3. CASE FinalStatus # "tooBig"
    BY <2>3 DEF ErrorResult
  <2> QED
    BY <2>2, <2>3
<1>2. /\ n \in 1 .. Len(req.varbinds) /\ Len(req.varbinds) \in Nat
      /\ DOMAIN req.varbinds = 1 .. Len(req.varbinds)
  BY RequestType DEF TestProgress, CommitProgress, TypeOK
<1>3. FinalIndex = n
  BY <1>1 DEF FinalIndex, IndexIsZero
<1>4. faults \in SUBSET Nat /\ unwritable \in SUBSET Nat
  BY <1>2
<1>7. FinalStatus = ReportedStatus(error_status)
  BY DEF FinalStatus, ReportedStatus
<1>5. CASE TestProgress
  <2>1. NoFaultUpTo(n - 1) /\ Fault(n) # "noError" /\ Fault(n) = error_status
    BY <1>5 DEF TestProgress
  <2> HIDE DEF n
  <2>2. n \in faults
    BY <1>2, <2>1
  <2>3. \A i \in faults : n <= i
    BY <1>2, <2>1 DEF NoFaultUpTo
  <2> HIDE DEF faults
  <2>4. Min(faults) = n
    BY <1>4, <2>2, <2>3, LeastIs
  <2> QED
    BY <1>2, <1>3, <1>7, <2>1, <2>2, <2>4
<1>6. CASE CommitProgress
  <2>1. /\ NoFaultUpTo(Len(req.varbinds)) /\ WritableUpTo(n - 1) /\ ~Mib[Names[n]].set
        /\ error_status = IF n = 1 THEN "commitFailed" ELSE "undoFailed"
    BY <1>6 DEF CommitProgress, CommitFailure
  <2> HIDE DEF n
  <2>2. faults = {}
    BY <1>2, <2>1 DEF NoFaultUpTo
  <2>3. n \in unwritable
    BY <1>2, <2>1
  <2>4. \A i \in unwritable : n <= i
    BY <1>2, <2>1 DEF WritableUpTo
  <2> HIDE DEF faults, unwritable
  <2>5. Min(unwritable) = n
    BY <1>4, <2>3, <2>4, LeastIs
  <2> QED
    BY <1>2, <1>3, <1>7, <2>1, <2>2, <2>5
<1> QED
  BY <1>5, <1>6

\* The loop of tests has read one more varbind.
LEMMA SetTestStep ==
  ASSUME TypeOK, req \in Requests, SetLoopInv, req.type = "set", present = DOMAIN Mib,
         SetTestVarbind \/ SetTestTooLong
  PROVE  SetLoopInv'
<1> DEFINE n == varbind_count + 1
           name == Names[n]
<1>1. /\ req' = req /\ varbind_count' = n /\ pc = "setTest"
      /\ error_status = "noError" /\ ~EndOfVarbinds
  BY DEF SetTestVarbind, SetTestTooLong, LoopEnds, Decodes, NextInbound, outerVars, given
<1>2. /\ n \in Nat /\ n >= 1 /\ n - 1 = varbind_count /\ InboundVarbind = req.varbinds[n]
      /\ name = req.varbinds[n].name
  BY <1>1, InboundType, NamesType, RequestType DEF TypeOK, InboundVarbind
<1>3. NoFaultUpTo(n - 1)
  BY <1>1, <1>2 DEF SetLoopInv, TestProgress
<1>4. Fault(n) = SetFault(req.varbinds[n])
  BY DEF Fault
<1>5. /\ \A i : Fault(i)' = Fault(i)
      /\ \A m : NoFaultUpTo(m)' <=> NoFaultUpTo(m)
  BY <1>1, FaultsStay
<1>6. \/ /\ pc' = "setTest" /\ Fault(n) = error_status'
      \/ /\ pc' = "test" /\ error_status' = "noError"
         /\ Fault(n) = TestResult(req.varbinds[n])
  <2>1. CASE SetTestTooLong
    BY <1>2, <1>4, <2>1 DEF SetTestTooLong, Decodes, SetFault
  <2>2. CASE SetTestVarbind
    <3>1. req.varbinds[n].kind # "tooLong" /\ InboundVarbind.name = name
      BY <1>2, <2>2 DEF SetTestVarbind, Decodes
    <3>2. Fault(n) = IF LookupResult(name) = "noError" THEN TestResult(req.varbinds[n])
                     ELSE LookupResult(name)
      <4>1. name \in Nat /\ present \subseteq DOMAIN Mib
        BY <1>1, <1>2, InboundType, NamesType DEF TypeOK, InboundVarbind
      <4>2. /\ LookupResult(name) \in {"noError", "genErr", "noSuchInstance"}
            /\ LookupResult(name) # "noSuchInstance" =>
                 name \in DOMAIN Mib /\ Mib[name].lookup = LookupResult(name)
            /\ LookupResult(name) = "noSuchInstance" => name \notin DOMAIN Mib
        BY <4>1, LookupResultType
      <4>3. Fault(n) = IF name \notin DOMAIN Mib THEN "noSuchInstance"
                       ELSE IF FailingLookup(name) THEN "genErr"
                       ELSE TestResult(req.varbinds[n])
        BY <1>2, <1>4, <3>1 DEF SetFault
      <4> HIDE DEF n, name
      <4> QED
        BY <4>2, <4>3 DEF FailingLookup
    <3> QED
      BY <1>1, <2>2, <3>1, <3>2 DEF SetTestVarbind, SetLookup
  <2> QED
    BY <2>1, <2>2
<1> HIDE DEF n, name
<1>7. CASE pc' = "setTest" /\ Fault(n) = error_status'
  <2>1. error_status' = "noError" => NoFaultUpTo(n)
    BY <1>2, <1>3, <1>7 DEF NoFaultUpTo
  <2>2. TestProgress'
    BY <1>1, <1>2, <1>3, <1>5, <1>7, <2>1 DEF TestProgress
  <2> QED
    BY <1>7, <2>2 DEF SetLoopInv
<1>8. CASE pc' = "test" /\ error_status' = "noError" /\ Fault(n) = TestResult(req.varbinds[n])
  <2>1. TestResult(req.varbinds[varbind_count])' = TestResult(req.varbinds[n])
    BY <1>1 DEF TestResult
  <2> QED
    BY <1>1, <1>2, <1>3, <1>5, <1>8, <2>1 DEF SetLoopInv
<1> QED
  BY <1>6, <1>7, <1>8

\* set_test() of the varbind that was looked up.
LEMMA SetTestedStep ==
  ASSUME TypeOK, req \in Requests, SetLoopInv, req.type = "set", SetTest
  PROVE  SetLoopInv'
<1> DEFINE n == varbind_count
<1>1. /\ req' = req /\ varbind_count' = n /\ pc = "test" /\ pc' = "setTest" /\ n >= 1
      /\ error_status' = Fault(n) /\ NoFaultUpTo(n - 1)
  BY DEF SetTest, outerVars, given, SetLoopInv
<1>2. n \in Nat
  BY RequestType DEF TypeOK
<1>3. /\ \A i : Fault(i)' = Fault(i)
      /\ \A m : NoFaultUpTo(m)' <=> NoFaultUpTo(m)
  BY <1>1, FaultsStay
<1> HIDE DEF n
<1>4. error_status' = "noError" => NoFaultUpTo(n)
  <2> SUFFICES ASSUME Fault(n) = "noError", NEW i \in 1 .. n
               PROVE  Fault(i) = "noError"
    BY <1>1 DEF NoFaultUpTo
  <2>1. i = n \/ i \in 1 .. n - 1
    BY <1>2
  <2> QED
    BY <1>1, <2>1 DEF NoFaultUpTo
<1>5. TestProgress'
  BY <1>1, <1>2, <1>3, <1>4 DEF TestProgress
<1> QED
  BY <1>1, <1>5 DEF SetLoopInv

\* set_value() was called for one more varbind.
LEMMA SetCommitStep ==
  ASSUME TypeOK, req \in Requests, SetLoopInv, req.type = "set",
         present = DOMAIN Mib, LookedUp(Len(Names)), SetCommitVarbind
  PROVE  SetLoopInv'
<1> DEFINE n == varbind_count + 1
<1>1. /\ req' = req /\ varbind_count' = n /\ pc = "setCommit"
      /\ error_status = "noError" /\ ~EndOfVarbinds
  BY DEF SetCommitVarbind, LoopEnds, NextInbound, given, outerVars
<1>2. /\ n \in 1 .. Len(req.varbinds) /\ n \in Nat /\ n >= 1 /\ n - 1 = varbind_count
      /\ InboundVarbind.name = Names[n]
      /\ Names[n] \in DOMAIN Mib /\ Mib[Names[n]].lookup = "noError"
  <2>1. n \in 1 .. Len(req.varbinds) /\ InboundVarbind = req.varbinds[n]
    BY <1>1, InboundType DEF TypeOK, InboundVarbind
  <2>2. Names[n] = req.varbinds[n].name /\ n \in 1 .. Len(Names)
    BY <2>1, NamesType
  <2>3. Names[n] \in DOMAIN Mib /\ Mib[Names[n]].lookup = "noError"
    BY <2>2 DEF LookedUp
  <2> QED
    BY <2>1, <2>2, <2>3, RequestType DEF TypeOK
<1>3. NoFaultUpTo(Len(req.varbinds)) /\ WritableUpTo(n - 1)
  BY <1>1, <1>2 DEF SetLoopInv, CommitProgress
<1>4. pc' = "commit" /\ cur' = Names[n] /\ error_status' = "noError"
  <2>1. LookupResult(Names[n]) = "noError"
    BY <1>2 DEF LookupResult, ExactInstances
  <2> QED
    BY <1>1, <1>2, <2>1 DEF SetCommitVarbind, SetLookup
<1>5. /\ \A m : NoFaultUpTo(m)' <=> NoFaultUpTo(m)
      /\ \A m : WritableUpTo(m)' <=> WritableUpTo(m)
      /\ Names' = Names
  BY <1>1, FaultsStay, ReferenceStays
<1> HIDE DEF n
<1> QED
  BY <1>1, <1>2, <1>3, <1>4, <1>5 DEF SetLoopInv

\* set_value() was called for the varbind that was looked up.
LEMMA SetCommittedStep ==
  ASSUME TypeOK, req \in Requests, SetLoopInv, req.type = "set", SetCommit
  PROVE  SetLoopInv'
<1> DEFINE n == varbind_count
<1>1. /\ req' = req /\ varbind_count' = n /\ pc = "commit" /\ pc' = "setCommit" /\ n >= 1
      /\ NoFaultUpTo(Len(req.varbinds)) /\ WritableUpTo(n - 1)
      /\ error_status' = IF Mib[Names[n]].set THEN "noError" ELSE CommitFailure
  BY DEF SetCommit, given, SetLoopInv
<1>2. n \in Nat
  BY RequestType DEF TypeOK
<1>3. /\ \A m : NoFaultUpTo(m)' <=> NoFaultUpTo(m)
      /\ \A m : WritableUpTo(m)' <=> WritableUpTo(m)
      /\ Names' = Names /\ CommitFailure' = CommitFailure
  BY <1>1, FaultsStay, ReferenceStays DEF CommitFailure
<1>4. CommitFailure # "noError"
  BY DEF CommitFailure
<1> HIDE DEF n
<1>5. error_status' = "noError" => WritableUpTo(n) /\ Mib[Names[n]].set
  BY <1>1, <1>2, <1>4 DEF WritableUpTo
<1>6. CommitProgress'
  BY <1>1, <1>2, <1>3, <1>4, <1>5 DEF CommitProgress
<1> QED
  BY <1>1, <1>6 DEF SetLoopInv

\* The steps of a SET.
LEMMA SetInvStep ==
  ASSUME TypeOK, HeldInv, AuthInv, CommitInv, req \in Requests, SetInv, present = DOMAIN Mib,
         present' = present, ~MibChanges, [Next]_vars
  PROVE  SetInv'
<1>1. req' = req
  BY RequestStays
<1>2. snmp_community_write' = snmp_community_write
  BY RequestStays
<1> SUFFICES ASSUME req.type = "set", ~AllReadOnly
             PROVE  SetLoopInv'
  BY <1>1, <1>2 DEF SetInv, AllReadOnly
<1>3. SetLoopInv /\ Len(req.varbinds) \in Nat
  BY RequestType DEF SetInv
<1>4. /\ \A m : NoFaultUpTo(m)' <=> NoFaultUpTo(m)
      /\ \A m : WritableUpTo(m)' <=> WritableUpTo(m)
      /\ \A i : Fault(i)' = Fault(i)
      /\ Names' = Names
      /\ \A status, index : ErrorResult(status, index)' <=> ErrorResult(status, index)
  BY <1>1, <1>2, FaultsStay, ReferenceStays, ResultsStay
<1>5. /\ UNCHANGED <<error_status, varbind_count>> => (TestProgress' <=> TestProgress)
      /\ UNCHANGED <<error_status, varbind_count>> => (CommitProgress' <=> CommitProgress)
  BY <1>1, <1>4 DEF TestProgress, CommitProgress, CommitFailure
<1>6. CASE SetTestVarbind \/ SetTestTooLong
  BY <1>3, <1>6, SetTestStep
<1>7. CASE SetCommitVarbind
  <2>1. LookedUp(Len(Names))
    BY <1>7 DEF SetCommitVarbind, CommitInv
  <2> QED
    BY <1>3, <1>7, <2>1, SetCommitStep
<1>17. CASE SetTest
  BY <1>3, <1>17, SetTestedStep
<1>18. CASE SetCommit
  BY <1>3, <1>18, SetCommittedStep
<1>8. CASE SetTestEnd
  <2>1. CASE error_status = "noError"
    <3>1. /\ pc' = "setCommit" /\ varbind_count' = 0 /\ error_status' = error_status
          /\ pc = "setTest" /\ varbind_count = Len(req.varbinds)
      BY <1>8, <2>1 DEF SetTestEnd, LoopEnds, EndOfVarbinds
    <3>2. NoFaultUpTo(Len(req.varbinds)) /\ WritableUpTo(0)
      BY <1>3, <2>1, <3>1 DEF SetLoopInv, TestProgress, WritableUpTo
    <3>3. CommitProgress'
      BY <1>1, <1>4, <2>1, <3>1, <3>2 DEF CommitProgress
    <3> QED
      BY <3>1, <3>3 DEF SetLoopInv
  <2>2. CASE error_status # "noError"
    BY <1>3, <1>5, <1>8, <2>2 DEF SetTestEnd, SetLoopInv
  <2> QED
    BY <2>1, <2>2
<1>9. CASE SetCommitEnd
  BY <1>3, <1>5, <1>9 DEF SetCommitEnd, SetLoopInv, loopVars
<1>10. CASE Complete
  <2>1. /\ pc = "complete" /\ pc' \in {"free", "send"} /\ error_index = req.errorIndex
        /\ error_status' = FinalStatus /\ error_index' = FinalIndex
    BY <1>10 DEF Complete, CommitInv, SetPhases
  <2>2. ErrorResult(FinalStatus, FinalIndex)
    <3>1. CASE error_status = "noError"
      BY <3>1, FinalStatusFacts DEF ErrorResult, TypeOK
    <3>2. CASE error_status # "noError"
      BY <1>3, <2>1, <3>2, SetErrorNames DEF SetLoopInv
    <3> QED
      BY <3>1, <3>2
  <2>3. ErrorResult(error_status, error_index)'
    BY <1>4, <2>1, <2>2
  <2> QED
    BY <2>1, <2>3 DEF SetLoopInv
<1>11. CASE ParseAccept
  BY <1>11 DEF ParseAccept, ParsedStatus, SetLoopInv
<1>12. CASE Prepare
  <2>1. /\ pc' \in {"setTest", "done"} /\ UNCHANGED <<error_status, varbind_count>>
        /\ error_status = "noError" /\ varbind_count = 0
    BY <1>3, <1>12 DEF Prepare, PhaseOf, SetLoopInv, CommitInv, loopVars
  <2>2. TestProgress'
    BY <1>1, <1>4, <2>1 DEF TestProgress, NoFaultUpTo
  <2> QED
    BY <2>1, <2>2 DEF SetLoopInv
<1>13. CASE ParseBadCommunity \/ ParseV1Bulk \/ MalformedVarbind \/ Send \/ WriteCallbacks \/ Free
  <2>1. pc' \in {"done", "free", "callbacks"}
    BY <1>13 DEF ParseBadCommunity, ParseV1Bulk, MalformedVarbind, Send, WriteCallbacks, Free
  <2> QED
    BY <2>1 DEF SetLoopInv
<1>14. CASE \/ InformVarbind \/ BulkFirstVarbind \/ BulkFirstBadVarbind \/ BulkFirstEnd
            \/ BulkLoop \/ BulkInnerVarbind \/ BulkInnerHeader \/ BulkAfter \/ BulkInnerEnd
            \/ ValidateVarbind \/ VarbindValue \/ GetVarbind \/ GetBadVarbind \/ GetLoopEnd
  BY <1>14 DEF AuthInv, SetPhases, InformVarbind, BulkFirstVarbind, BulkFirstBadVarbind, BulkFirstEnd,
       BulkLoop, BulkInnerVarbind, BulkInnerHeader, BulkAfter, BulkInnerEnd,
       ValidateVarbind, VarbindValue, GetVarbind, GetBadVarbind, GetLoopEnd
<1>15. CASE Vanish
  BY <1>15 DEF Vanish
<1>16. CASE UNCHANGED vars
  <2>1. UNCHANGED <<pc, error_status, error_index, varbind_count, cur>>
    BY <1>16 DEF vars, loopVars
  <2>2. TestResult(req.varbinds[varbind_count])' = TestResult(req.varbinds[varbind_count])
    BY <1>1, <2>1 DEF TestResult
  <2> QED
    BY <1>1, <1>3, <1>4, <1>5, <2>1, <2>2 DEF SetLoopInv
<1> QED
  BY <1>6, <1>7, <1>8, <1>9, <1>10, <1>11, <1>12, <1>13, <1>14, <1>15, <1>16,
     <1>17, <1>18 DEF Next, Receive

\* While no other thread removes instances the MIB is complete.
LEMMA MibStays ==
  ASSUME ~MibChanges, IInv, req \in Requests, [Next]_vars
  PROVE  present = DOMAIN Mib /\ present' = present
<1>1. IInv'
  BY IInvStep
<1>2. MibChanges' = MibChanges
  BY RequestStays
<1> QED
  BY <1>1, <1>2 DEF IInv, CommitInv

\* What is sent is what was completed.
LEMMA SentResponse ==
  ASSUME AuthInv, Send
  PROVE  ToSet(reply') \subseteq
           {[status |-> error_status, index |-> error_index, varbinds |-> out]}
<1> DEFINE answer == [status |-> error_status, index |-> error_index, varbinds |-> out]
<1>1. reply = <<>>
  BY DEF AuthInv, Send
<1>2. reply' = <<>> \/ reply' = <<answer>>
  BY <1>1 DEF Send, Sent
<1> HIDE DEF answer
<1>3. CASE reply' = <<>>
  BY <1>3 DEF ToSet
<1>4. CASE reply' = <<answer>>
  BY <1>4 DEF ToSet, answer
<1> QED
  BY <1>2, <1>3, <1>4 DEF answer

\* The responses sent are right.
RepliesRight ==
  \A r \in ToSet(reply) :
    /\ req.type \in {"get", "getNext"} => GetResult(r.status, r.index, r.varbinds)
    /\ req.type \in {"get", "getNext", "set"} => ErrorResult(r.status, r.index)

\* That is what the properties say of requests during which the MIB stays.
LEMMA RepliesRightMeans ==
  ASSUME ~MibChanges => RepliesRight
  PROVE  GetAnswersEveryVarbind /\ ErrorNamesFirstFailure
<1>1. GetAnswersEveryVarbind <=>
        (~MibChanges => \A r \in ToSet(reply) : req.type \in {"get", "getNext"} =>
           GetResult(r.status, r.index, r.varbinds))
  BY DEF GetAnswersEveryVarbind, GetResult, GetNext
<1>2. ErrorNamesFirstFailure <=>
        (~MibChanges => \A r \in ToSet(reply) : req.type \in {"get", "getNext", "set"} =>
           ErrorResult(r.status, r.index))
  BY DEF ErrorNamesFirstFailure, ErrorResult, Answers, GetNext
<1> QED
  BY <1>1, <1>2 DEF RepliesRight

\* The steps of GET, GETNEXT and SET, and what they send.
LEMMA RepliesRightStep ==
  ASSUME ~MibChanges, IInv, req \in Requests, GetInv, SetInv, RepliesRight, [Next]_vars
  PROVE  GetInv' /\ SetInv' /\ RepliesRight'
<1>1. /\ TypeOK /\ HeldInv /\ AuthInv /\ CommitInv
      /\ present = DOMAIN Mib /\ present' = present /\ Capacity \in Nat
  BY MibStays, ConstantsAssumption DEF IInv, ConstantsAssumption
<1>2. GetInv' /\ SetInv'
  BY <1>1, GetInvStep, SetInvStep
<1>3. /\ req' = req /\ snmp_community_write' = snmp_community_write
  BY RequestStays
<1>4. /\ \A status, index : ErrorResult(status, index)' <=> ErrorResult(status, index)
      /\ \A status, index, varbinds :
           GetResult(status, index, varbinds)' <=> GetResult(status, index, varbinds)
  BY <1>1, <1>3, ResultsStay
<1> DEFINE Right(r) == /\ req.type \in {"get", "getNext"} => GetResult(r.status, r.index, r.varbinds)
                       /\ req.type \in {"get", "getNext", "set"} => ErrorResult(r.status, r.index)
<1>5. ASSUME \A r \in ToSet(reply') : Right(r)
      PROVE  RepliesRight'
  <2>1. ASSUME NEW r \in ToSet(reply')
        PROVE  /\ req'.type \in {"get", "getNext"} => GetResult(r.status, r.index, r.varbinds)'
               /\ req'.type \in {"get", "getNext", "set"} => ErrorResult(r.status, r.index)'
    BY <1>3, <1>4, <1>5, <2>1
  <2> QED
    BY <2>1 DEF RepliesRight
<1> HIDE DEF Right
<1>6. CASE reply' = reply
  <2>1. \A r \in ToSet(reply') : Right(r)
    BY <1>6 DEF RepliesRight, Right
  <2> QED
    BY <1>2, <1>5, <2>1
<1>7. CASE Send
  <2>1. pc = "send"
    BY <1>7 DEF Send
  <2>2. req.type \in {"get", "getNext"} =>
          /\ GetResult(error_status, error_index, out)
          /\ ErrorResult(error_status, error_index)
    BY <2>1 DEF GetInv, GetLoopInv
  <2>3. req.type = "set" => ErrorResult(error_status, error_index)
    BY <2>1 DEF SetInv, SetLoopInv, ErrorResult
  <2>4. ToSet(reply') \subseteq {[status |-> error_status, index |-> error_index, varbinds |-> out]}
    BY <1>1, <1>7, SentResponse
  <2>5. \A r \in ToSet(reply') : Right(r)
    BY <2>2, <2>3, <2>4 DEF Right
  <2> QED
    BY <1>2, <1>5, <2>5
<1> QED
  BY <1>2, <1>6, <1>7
     DEF Next, Receive, vars, loopVars, outerVars, given,
         ParseBadCommunity, ParseV1Bulk, ParseAccept, InformVarbind, Prepare,
         ValidateVarbind, VarbindValue, MalformedVarbind, GetVarbind, GetBadVarbind, GetLoopEnd,
         BulkFirstVarbind, BulkFirstBadVarbind, BulkFirstEnd, BulkLoop,
         BulkInnerVarbind, BulkInnerHeader, BulkAfter, BulkInnerEnd,
         SetTestVarbind, SetTest, SetTestTooLong, SetTestEnd, SetCommitVarbind,
         SetCommit, SetCommitEnd, Complete, WriteCallbacks, Free, Vanish

\* At first nothing is answered.
LEMMA RepliesRightInit == Init => GetInv /\ SetInv /\ RepliesRight
<1>1. ToSet(<<>>) = {}
  BY DEF ToSet
<1> QED
  BY <1>1 DEF Init, GetInv, GetLoopInv, SetInv, SetLoopInv, RepliesRight

\* The responses are right in every state of a behaviour, unless the MIB changes.
GetsAndSetsInv == ~MibChanges => GetInv /\ SetInv /\ RepliesRight
LEMMA RepliesAreRight == Spec => []GetsAndSetsInv
<1>1. Init => IInv /\ req \in Requests
  BY IInvInit
<1>2. IInv /\ req \in Requests /\ [Next]_vars => (IInv /\ req \in Requests)'
  BY IInvStep
<1>3. Init => GetsAndSetsInv
  BY RepliesRightInit DEF GetsAndSetsInv
<1>4. IInv /\ req \in Requests /\ GetsAndSetsInv /\ [Next]_vars => GetsAndSetsInv'
  BY RepliesRightStep, RequestStays DEF GetsAndSetsInv
<1> QED
  BY <1>1, <1>2, <1>3, <1>4, PTL DEF Spec

\* For every MIB, any number of varbinds and any room for the response: unless the MIB
\* changes during the request, a GET or GETNEXT is answered with noError only when
\* every varbind has the answer the MIB says, in order
\* (snmp_process_get_request(), snmp_process_varbind()).
THEOREM GetsAreAnswered == Spec => []GetAnswersEveryVarbind
<1>1. GetsAndSetsInv => GetAnswersEveryVarbind
  BY RepliesRightMeans DEF GetsAndSetsInv
<1> QED
  BY <1>1, RepliesAreRight, PTL

\* For every MIB and any number of varbinds, unless the MIB changes during the request,
\* an error response names the first varbind that cannot be served, or that was tested
\* and could not be written, and has the status of that failure in the terms of the
\* version (snmp_complete_outbound_frame(), snmp_process_set_request()).
THEOREM ErrorsNameFirstFailure == Spec => []ErrorNamesFirstFailure
<1>1. GetsAndSetsInv => ErrorNamesFirstFailure
  BY RepliesRightMeans DEF GetsAndSetsInv
<1> QED
  BY <1>1, RepliesAreRight, PTL

-----------------------------------------------------------------------------
(* The reference definition of GETBULK.                                    *)

\* The non-repeaters and the repeaters of a request.
LEMMA Parts ==
  ASSUME req \in Requests
  PROVE  /\ N \in Nat /\ R \in Nat /\ N + R = Len(req.varbinds)
         /\ N <= req.nonRepeaters /\ req.nonRepeaters \in Nat /\ req.maxRepetitions \in Nat
         /\ req.nonRepeaters <= Len(req.varbinds) => N = req.nonRepeaters
         /\ R > 0 => N = req.nonRepeaters
<1>1. /\ Len(req.varbinds) \in Nat /\ req.nonRepeaters \in Nat
      /\ req.maxRepetitions \in Nat
  BY RequestType
<1>2. N = IF req.nonRepeaters <= Len(req.varbinds) THEN req.nonRepeaters ELSE Len(req.varbinds)
  <2>1. {req.nonRepeaters, Len(req.varbinds)} \in SUBSET Nat
    BY <1>1
  <2>2. CASE req.nonRepeaters <= Len(req.varbinds)
    BY <1>1, <2>1, <2>2, LeastIs DEF N
  <2>3. CASE ~(req.nonRepeaters <= Len(req.varbinds))
    <3>1. \A i \in {req.nonRepeaters, Len(req.varbinds)} : Len(req.varbinds) <= i
      BY <1>1, <2>3
    <3> QED
      BY <2>1, <2>3, <3>1, LeastIs DEF N
  <2> QED
    BY <2>2, <2>3
<1> QED
  BY <1>1, <1>2 DEF R

\* Every repetition adds as many varbinds as there are repeaters.
LEMMA ThroughGrows ==
  ASSUME req \in Requests
  PROVE  /\ Through(0) = N
         /\ \A k \in Nat : Through(k) \in Nat /\ Through(k + 1) = Through(k) + R
         /\ \A j, k \in Nat : j <= k => Through(j) <= Through(k)
<1>1. N \in Nat /\ R \in Nat
  BY Parts
<1>2. \A k \in Nat : R * k \in Nat /\ R * (k + 1) = R * k + R
  BY <1>1
<1>3. \A j, k \in Nat : j <= k => R * j <= R * k
  <2> SUFFICES ASSUME NEW j \in Nat, NEW k \in Nat, j <= k PROVE R * j <= R * k
    OBVIOUS
  <2>1. R * k = R * j + R * (k - j) /\ R * (k - j) \in Nat /\ R * j \in Nat
    BY <1>1
  <2> QED
    BY <2>1
<1>4. R * 0 = 0
  BY <1>1
<1> QED
  BY <1>1, <1>2, <1>3, <1>4 DEF Through

\* The name GETNEXT answers a name with.
NextName(name) == Answer(name, TRUE).name

\* The names reached from a name in up to m steps.
NamesAfter(name, m, after) ==
  after = [k \in 0 .. m |-> IF k = 0 THEN name ELSE NextName(after[k - 1])]

\* There are such names.
LEMMA NamesAfterExist ==
  ASSUME NEW name \in Nat, NEW m \in Nat
  PROVE  \E after : NamesAfter(name, m, after)
<1> DEFINE P == {n \in Nat : \E f : NamesAfter(name, n, f)}
<1>1. 0 \in P
  <2>1. NamesAfter(name, 0, [k \in 0 .. 0 |-> name])
    BY DEF NamesAfter
  <2> QED
    BY <2>1
<1>2. ASSUME NEW n \in 0 .. m - 1, n \in P
      PROVE  n + 1 \in P
  <2>1. PICK f : NamesAfter(name, n, f)
    BY <1>2
  <2> DEFINE g == [k \in 0 .. n + 1 |-> IF k = n + 1 THEN NextName(f[n]) ELSE f[k]]
  <2>2. n \in Nat /\ \A k \in 0 .. n : f[k] = IF k = 0 THEN name ELSE NextName(f[k - 1])
    BY <2>1 DEF NamesAfter
  <2>3. \A k \in 0 .. n + 1 : g[k] = IF k = 0 THEN name ELSE NextName(g[k - 1])
    BY <2>2
  <2>4. NamesAfter(name, n + 1, g)
    BY <2>3 DEF NamesAfter
  <2> HIDE DEF g
  <2> QED
    BY <2>2, <2>4
<1>3. m \in 0 .. m
  OBVIOUS
<1>4. m \in P
  <2> HIDE DEF P
  <2> QED
    BY <1>1, <1>2, <1>3, UpToInduction
<1> QED
  BY <1>4

\* NameAfter is the last of these names, a number.
LEMMA NameAfterIs ==
  ASSUME NEW name \in Nat, NEW m \in Nat
  PROVE  \E after : /\ NamesAfter(name, m, after) /\ NameAfter(name, m) = after[m]
                    /\ \A k \in 0 .. m : after[k] \in Nat
<1> DEFINE chosen == CHOOSE after : NamesAfter(name, m, after)
<1>1. NameAfter(name, m) = chosen[m]
  BY DEF NameAfter, NamesAfter, NextName
<1>2. NamesAfter(name, m, chosen)
  BY NamesAfterExist
<1> HIDE DEF chosen
<1>3. \A k \in 0 .. m :
        chosen[k] = IF k = 0 THEN name ELSE NextName(chosen[k - 1])
  BY <1>2 DEF NamesAfter
<1> DEFINE P == {k \in Nat : chosen[k] \in Nat}
<1>4. 0 \in P
  BY <1>3
<1>5. ASSUME NEW k \in 0 .. m - 1, k \in P
      PROVE  k + 1 \in P
  <2>1. chosen[k] \in Nat /\ k + 1 \in 1 .. m /\ (k + 1) - 1 = k
    BY <1>5
  <2>2. chosen[k + 1] = NextName(chosen[k])
    BY <1>3, <2>1
  <2>3. Answer(chosen[k], TRUE) \in Varbinds
    BY <2>1, AnswerType
  <2>4. chosen[k + 1] \in Nat
    BY <2>2, <2>3 DEF Varbinds, NextName
  <2> QED
    BY <2>1, <2>4
<1>6. \A k \in 0 .. m : k \in P
  <2> HIDE DEF P
  <2> QED
    BY <1>4, <1>5, UpToInduction
<1> QED
  BY <1>1, <1>2, <1>6

\* No step stays; one more step goes to the next name.
LEMMA NameAfterStep ==
  ASSUME NEW name \in Nat, NEW m \in Nat
  PROVE  /\ NameAfter(name, 0) = name
         /\ NameAfter(name, m) \in Nat
         /\ NameAfter(name, m + 1) = NextName(NameAfter(name, m))
<1>1. NameAfter(name, 0) = name
  <2>1. PICK f : NamesAfter(name, 0, f) /\ NameAfter(name, 0) = f[0]
    BY NameAfterIs
  <2> QED
    BY <2>1 DEF NamesAfter
<1>2. PICK f : /\ NamesAfter(name, m, f) /\ NameAfter(name, m) = f[m]
               /\ \A k \in 0 .. m : f[k] \in Nat
  BY NameAfterIs
<1>3. PICK g : NamesAfter(name, m + 1, g) /\ NameAfter(name, m + 1) = g[m + 1]
  <2>1. m + 1 \in Nat
    OBVIOUS
  <2> QED
    BY <2>1, NameAfterIs
<1>4. \A k \in 0 .. m : f[k] = IF k = 0 THEN name ELSE NextName(f[k - 1])
  BY <1>2 DEF NamesAfter
<1>5. \A k \in 0 .. m + 1 : g[k] = IF k = 0 THEN name ELSE NextName(g[k - 1])
  BY <1>3 DEF NamesAfter
<1> DEFINE P == {k \in Nat : f[k] = g[k]}
<1>6. 0 \in P
  BY <1>4, <1>5
<1>7. ASSUME NEW k \in 0 .. m - 1, k \in P
      PROVE  k + 1 \in P
  <2>1. f[k] = g[k] /\ k + 1 \in 1 .. m /\ k + 1 \in 0 .. m + 1 /\ (k + 1) - 1 = k
    BY <1>7
  <2>2. f[k + 1] = NextName(f[k]) /\ g[k + 1] = NextName(g[k])
    BY <1>4, <1>5, <2>1
  <2> QED
    BY <2>1, <2>2
<1>8. \A k \in 0 .. m : k \in P
  <2> HIDE DEF P
  <2> QED
    BY <1>6, <1>7, UpToInduction
<1>9. f[m] = g[m] /\ g[m + 1] = NextName(g[m]) /\ f[m] \in Nat
  BY <1>2, <1>5, <1>8
<1> QED
  BY <1>1, <1>2, <1>3, <1>9

\* The first answer to every varbind; each further one continues from the one a
\* repetition before.
LEMMA BulkVarbindIs ==
  ASSUME req \in Requests
  PROVE  /\ \A p \in 1 .. Len(req.varbinds) : BulkVarbind(p) = Answer(Names[p], TRUE)
         /\ R > 0 => \A p \in Nat : p > N =>
              BulkVarbind(p + R) = Answer(BulkVarbind(p).name, TRUE)
         /\ \A p \in Nat \ {0} : p <= Len(req.varbinds) \/ R > 0 => BulkVarbind(p) \in Varbinds
<1>1. /\ N \in Nat /\ R \in Nat /\ N + R = Len(req.varbinds)
      /\ \A p \in 1 .. Len(req.varbinds) : Names[p] \in Nat
  BY Parts, NamesType
<1>2. ASSUME NEW p \in 1 .. Len(req.varbinds)
      PROVE  BulkVarbind(p) = Answer(Names[p], TRUE)
  <2>1. CASE p <= N
    BY <2>1 DEF BulkVarbind
  <2>2. CASE ~(p <= N)
    <3> DEFINE q == p - N - 1
    <3>1. q \in 0 .. R - 1 /\ R > 0 /\ N + 1 + q = p
      BY <1>1, <2>2
    <3>2. q % R = q /\ q \div R = 0
      BY <1>1, <3>1
    <3>3. BulkVarbind(p) = Answer(NameAfter(Names[p], 0), TRUE)
      BY <2>2, <3>1, <3>2 DEF BulkVarbind
    <3> QED
      BY <1>1, <3>3, NameAfterStep
  <2> QED
    BY <2>1, <2>2
<1>3. ASSUME R > 0, NEW p \in Nat, p > N
      PROVE  /\ BulkVarbind(p + R) = Answer(BulkVarbind(p).name, TRUE)
             /\ BulkVarbind(p) \in Varbinds
  <2> DEFINE q == p - N - 1
             name == Names[N + 1 + (q % R)]
             turns == q \div R
  <2>1. q \in Nat /\ (p + R) - N - 1 = q + R /\ ~(p <= N) /\ ~(p + R <= N)
    BY <1>1, <1>3
  <2>2. turns \in Nat /\ q % R \in 0 .. R - 1
    BY <1>1, <1>3, <2>1
  <2>3. (q + R) % R = q % R /\ (q + R) \div R = turns + 1
    BY <1>1, <1>3, <2>1
  <2>4. N + 1 + (q % R) \in 1 .. Len(req.varbinds)
    BY <1>1, <2>2
  <2>5. name \in Nat
    BY <1>1, <2>4
  <2>6. BulkVarbind(p) = Answer(NameAfter(name, turns), TRUE)
    BY <2>1 DEF BulkVarbind
  <2>7. BulkVarbind(p + R) = Answer(NameAfter(name, turns + 1), TRUE)
    BY <2>1, <2>3 DEF BulkVarbind
  <2> HIDE DEF q, name, turns
  <2>8. /\ NameAfter(name, turns) \in Nat
        /\ NameAfter(name, turns + 1) = Answer(NameAfter(name, turns), TRUE).name
    BY <2>2, <2>5, NameAfterStep DEF NextName
  <2>9. BulkVarbind(p) \in Varbinds
    BY <2>6, <2>8, AnswerType
  <2> QED
    BY <2>6, <2>7, <2>8, <2>9
<1>4. ASSUME NEW p \in 1 .. Len(req.varbinds)
      PROVE  BulkVarbind(p) \in Varbinds
  BY <1>1, <1>2, <1>4, AnswerType
<1>5. ASSUME NEW p \in Nat \ {0}, p <= Len(req.varbinds) \/ R > 0
      PROVE  BulkVarbind(p) \in Varbinds
  <2>1. p \in 1 .. Len(req.varbinds) \/ (R > 0 /\ p > N)
    BY <1>1, <1>5
  <2> QED
    BY <1>3, <1>4, <2>1
<1> QED
  BY <1>2, <1>3, <1>5

-----------------------------------------------------------------------------
(* GETBULK.                                                                *)

\* What a GETBULK is to be answered with depends on the request only.
LEMMA BulkStays ==
  ASSUME req' = req
  PROVE  /\ \A p : BulkVarbind(p)' = BulkVarbind(p)
         /\ \A k : Through(k)' = Through(k)
         /\ N' = N /\ R' = R
<1>1. /\ Names' = Names /\ N' = N /\ R' = R
      /\ \A name, getNext : Answer(name, getNext)' = Answer(name, getNext)
  BY ReferenceStays
<1>2. \A name, m : NameAfter(name, m)' = NameAfter(name, m)
  BY <1>1 DEF NameAfter
<1>3. \A p : BulkVarbind(p)' = BulkVarbind(p)
  BY <1>1, <1>2 DEF BulkVarbind
<1> QED
  BY <1>1, <1>3 DEF Through

\* The next varbind is appended, or it does not fit.
LEMMA AppendNext ==
  ASSUME out \in Seq(Varbinds), req' = req, Prefix, Capacity \in Nat,
         BulkVarbind(Len(out) + 1) \in Varbinds, AppendVarbind(BulkVarbind(Len(out) + 1))
  PROVE  /\ Prefix' /\ out' \in Seq(Varbinds)
         /\ \/ /\ error_status' = "noError" /\ Len(out') = Len(out) + 1
               /\ out' = Append(out, BulkVarbind(Len(out) + 1))
            \/ error_status' = "tooBig" /\ out' = out /\ NextTooBig'
<1> DEFINE vb == BulkVarbind(Len(out) + 1)
<1>1. \A p : BulkVarbind(p)' = BulkVarbind(p)
  BY BulkStays
<1>2. Len(out) \in Nat /\ \A p \in 1 .. Len(out) : out[p] = BulkVarbind(p)
  BY DEF Prefix
<1>3. CASE Size(out) + vb.size > Capacity
  <2>1. error_status' = "tooBig" /\ out' = out
    BY <1>3 DEF AppendVarbind
  <2>2. Prefix' /\ NextTooBig'
    BY <1>1, <1>2, <1>3, <2>1 DEF Prefix, NextTooBig
  <2> QED
    BY <2>1, <2>2
<1>4. CASE ~(Size(out) + vb.size > Capacity)
  <2>1. error_status' = "noError" /\ out' = Append(out, vb)
    BY <1>4 DEF AppendVarbind
  <2> HIDE DEF vb
  <2>2. /\ out' \in Seq(Varbinds) /\ Len(out') = Len(out) + 1 /\ out'[Len(out) + 1] = vb
        /\ \A p \in 1 .. Len(out) : out'[p] = out[p]
    BY <2>1 DEF vb
  <2>3. \A p \in 1 .. Len(out') : out'[p] = BulkVarbind(p)
    BY <1>2, <2>2 DEF vb
  <2>4. Prefix'
    BY <1>1, <2>3 DEF Prefix
  <2> QED
    BY <2>1, <2>2, <2>4 DEF vb
<1> QED
  BY <1>3, <1>4

\* What is in the response stays right while nothing is appended.
LEMMA PrefixStays ==
  ASSUME req' = req, out' = out
  PROVE  /\ Prefix' <=> Prefix
         /\ NextTooBig' <=> NextTooBig
         /\ \A status : BulkResult(status, out)' <=> BulkResult(status, out)
<1>1. /\ \A p : BulkVarbind(p)' = BulkVarbind(p)
      /\ \A k : Through(k)' = Through(k)
      /\ N' = N /\ R' = R
  BY BulkStays
<1> QED
  BY <1>1 DEF Prefix, NextTooBig, BulkResult

\* The varbinds of the first loop fit into what was asked for.
LEMMA FirstPartFits ==
  ASSUME req \in Requests, NEW n \in 0 .. Len(req.varbinds),
         NEW nonrep \in Int, NEW reps \in Nat, nonrep = req.nonRepeaters - n,
         nonrep >= 0 \/ req.maxRepetitions - reps = 1
  PROVE  n <= Through(req.maxRepetitions)
<1>1. /\ N \in Nat /\ R \in Nat /\ N + R = Len(req.varbinds)
      /\ req.nonRepeaters \in Nat /\ req.maxRepetitions \in Nat
      /\ req.nonRepeaters <= Len(req.varbinds) => N = req.nonRepeaters
      /\ N <= req.nonRepeaters /\ (R > 0 => N = req.nonRepeaters)
  BY Parts
<1>2. /\ N <= Through(req.maxRepetitions) /\ Through(req.maxRepetitions) \in Nat
      /\ 1 <= req.maxRepetitions => N + R <= Through(req.maxRepetitions)
  <2> DEFINE m == req.maxRepetitions
  <2>1. /\ Through(0) = N
        /\ \A k \in Nat : Through(k) \in Nat /\ Through(k + 1) = Through(k) + R
        /\ \A j, k \in Nat : j <= k => Through(j) <= Through(k)
    BY ThroughGrows
  <2>2. m \in Nat /\ 0 \in Nat /\ 1 \in Nat /\ 0 + 1 = 1 /\ 0 <= m
    BY <1>1
  <2> HIDE DEF m
  <2>3. Through(1) = N + R /\ Through(0) <= Through(m) /\ Through(m) \in Nat
    BY <2>1, <2>2
  <2>4. 1 <= m => Through(1) <= Through(m)
    BY <2>1, <2>2
  <2> QED
    BY <2>1, <2>3, <2>4 DEF m
<1>3. CASE nonrep >= 0
  <2>1. n <= N
    BY <1>1, <1>3
  <2> QED
    BY <1>1, <1>2, <2>1
<1>4. CASE ~(nonrep >= 0)
  <2>1. 1 <= req.maxRepetitions
    BY <1>1, <1>4
  <2> QED
    BY <1>1, <1>2, <2>1
<1> QED
  BY <1>3, <1>4

\* Reading one more varbind in the first loop.
LEMMA FirstPartNext ==
  ASSUME req \in Requests, req' = req, bulk \in Bulks, NEW n \in 1 .. Len(req.varbinds),
         FirstPart(n - 1), Len(out) = n - 1,
         bulk' = [EnterRepeaters EXCEPT !.nonrep = @ - 1]
  PROVE  FirstPart(n)'
<1>1. /\ N \in Nat /\ req.nonRepeaters \in Nat /\ req.maxRepetitions \in Nat
      /\ req.nonRepeaters <= Len(req.varbinds) => N = req.nonRepeaters
      /\ Len(req.varbinds) \in Nat /\ N' = N
  BY Parts, RequestType, BulkStays
<1>2. bulk.nonrep \in Int /\ bulk.reps \in Nat
  BY BulkFields
<1>3. bulk.nonrep = req.nonRepeaters - (n - 1)
  BY DEF FirstPart
<1>4. CASE bulk.nonrep = 0
  <2>1. bulk'.nonrep = -1 /\ bulk'.off = n /\ bulk'.reps = bulk.reps - 1
    BY <1>1, <1>2, <1>4 DEF EnterRepeaters, AtRepeaters, OutOffset, Bulks
  <2>2. bulk.reps = req.maxRepetitions
    BY <1>2, <1>4 DEF FirstPart
  <2>3. N + 1 = n
    BY <1>1, <1>3, <1>4
  <2> QED
    BY <1>1, <1>2, <1>3, <1>4, <2>1, <2>2, <2>3 DEF FirstPart, Begun
<1>5. CASE bulk.nonrep # 0
  <2>1. bulk'.nonrep = bulk.nonrep - 1 /\ bulk'.off = bulk.off /\ bulk'.reps = bulk.reps
    BY <1>5 DEF EnterRepeaters, AtRepeaters, Bulks
  <2> QED
    BY <1>1, <1>2, <1>3, <1>5, <2>1 DEF FirstPart, Begun
<1> QED
  BY <1>4, <1>5

\* The positions of a repetition, in the order of the response.
LEMMA RepetitionFacts ==
  ASSUME req \in Requests, bulk \in Bulks, Repetition
  PROVE  /\ Begun \in Nat /\ Begun >= 1 /\ Begun + 1 <= req.maxRepetitions
         /\ N \in Nat /\ R \in Nat /\ R > 0
         /\ bulk.first \in Nat /\ bulk.last \in Nat /\ bulk.next \in Nat /\ bulk.off \in Nat
         /\ bulk.first > N /\ bulk.last = bulk.first + R - 1 /\ bulk.last >= N + R
         /\ bulk.last = Through(Begun) /\ bulk.off = bulk.last + 1
         /\ bulk.first <= bulk.next /\ bulk.next <= bulk.last + 1
         /\ bulk.last + R = Through(Begun + 1)
         /\ bulk.last + R <= Through(req.maxRepetitions)
         /\ Through(req.maxRepetitions) \in Nat
<1>1. /\ N \in Nat /\ R \in Nat /\ R > 0
      /\ req.maxRepetitions \in Nat
  BY Parts DEF Repetition
<1>2. /\ bulk.reps \in Nat /\ bulk.first \in Nat /\ bulk.last \in Nat /\ bulk.next \in Nat
      /\ bulk.off \in Nat
  BY BulkFields
<1>3. Begun \in Nat /\ Begun >= 1 /\ Begun - 1 \in Nat /\ Begun + 1 <= req.maxRepetitions
  BY <1>1, <1>2 DEF Repetition, Begun
<1> HIDE DEF Begun
<1>4. /\ Through(0) = N
      /\ \A k \in Nat : Through(k) \in Nat /\ Through(k + 1) = Through(k) + R
      /\ \A j, k \in Nat : j <= k => Through(j) <= Through(k)
  BY ThroughGrows
<1>5. Begun + 1 \in Nat /\ (Begun - 1) + 1 = Begun /\ 0 <= Begun - 1
  BY <1>3
<1>6. /\ Through(Begun) = Through(Begun - 1) + R /\ Through(Begun - 1) \in Nat
      /\ Through(Begun + 1) = Through(Begun) + R /\ Through(Begun) \in Nat
      /\ N <= Through(Begun - 1) /\ Through(Begun + 1) <= Through(req.maxRepetitions)
      /\ Through(req.maxRepetitions) \in Nat
  BY <1>1, <1>3, <1>4, <1>5
<1>7. /\ bulk.first = Through(Begun - 1) + 1 /\ bulk.last = Through(Begun)
      /\ bulk.off = bulk.last + 1
      /\ bulk.next \in bulk.first .. bulk.last + 1
  BY DEF Repetition
<1> QED
  BY <1>1, <1>2, <1>3, <1>6, <1>7

\* The first loop of a GETBULK looks a varbind up.
LEMMA BulkFirstStep ==
  ASSUME TypeOK, req \in Requests, BulkLoopInv, present = DOMAIN Mib, present' = present,
         bulk' \in Bulks, Capacity \in Nat, BulkFirstVarbind
  PROVE  BulkLoopInv'
<1>0. PICK n : n = varbind_count + 1
  OBVIOUS
<1>a. PICK name : name = Names[n]
  OBVIOUS
<1>1. /\ req' = req /\ varbind_count' = n /\ pc = "bulkFirst" /\ error_status = "noError"
      /\ ~EndOfVarbinds /\ LookupVarbind(InboundVarbind.name, TRUE, "bulkFirst")
      /\ bulk' = [EnterRepeaters EXCEPT !.nonrep = @ - 1]
      /\ bulk \in Bulks /\ out \in Seq(Varbinds)
  BY <1>0 DEF BulkFirstVarbind, LoopEnds, NextInbound, outerVars, given, TypeOK
<1>2. n \in 1 .. Len(req.varbinds) /\ InboundVarbind = req.varbinds[n]
  BY <1>0, <1>1, InboundType DEF TypeOK, InboundVarbind
<1>3. name = InboundVarbind.name /\ name \in Nat
  BY <1>1, <1>2, <1>a, InboundType, NamesType DEF TypeOK
<1>4. n \in Nat /\ n >= 1 /\ n - 1 = varbind_count /\ n \in 0 .. Len(req.varbinds)
  BY <1>0, <1>2, RequestType DEF TypeOK
<1>5. /\ req.version # "v1" /\ Prefix /\ Len(out) = n - 1 /\ FirstPart(n - 1)
      /\ Len(out) <= Through(req.maxRepetitions)
  BY <1>1, <1>4 DEF BulkLoopInv, BulkPhases
<1>6. BulkVarbind(n) = Answer(name, TRUE) /\ BulkVarbind(n) \in Varbinds
  <2>1. BulkVarbind(n) = Answer(Names[n], TRUE)
    BY <1>2, BulkVarbindIs
  <2>2. n \in Nat \ {0} /\ n <= Len(req.varbinds)
    BY <1>2, <1>4
  <2> QED
    BY <1>a, <2>1, <2>2, BulkVarbindIs
<1>7. /\ Names' = Names
      /\ \A o, getNext : Served(o, getNext)' = Served(o, getNext)
      /\ \A k : Through(k)' = Through(k)
  BY <1>1, ReferenceStays, BulkStays
<1>8. FirstPart(n)'
  BY <1>1, <1>2, <1>5, FirstPartNext
<1>9. n <= Through(req.maxRepetitions)
  <2>1. /\ bulk'.nonrep = req.nonRepeaters - n
        /\ bulk'.nonrep >= 0 \/ req.maxRepetitions - bulk'.reps = 1
    BY <1>1, <1>8 DEF FirstPart, Begun
  <2>2. bulk'.nonrep \in Int /\ bulk'.reps \in Nat
    BY DEF Bulks
  <2> QED
    BY <1>4, <2>1, <2>2, FirstPartFits
<1>10. \/ /\ pc' = "value" /\ ret' = "bulkFirst"
          /\ Served(name, TRUE) # {} /\ cur' = Min(Served(name, TRUE))
          /\ UNCHANGED <<error_status, out>>
       \/ pc' = "bulkFirst" /\ AppendVarbind(Answer(name, TRUE))
  BY <1>1, <1>3, <1>5, LookupAnswers
<1>11. CASE /\ pc' = "value" /\ ret' = "bulkFirst"
            /\ Served(name, TRUE) # {} /\ cur' = Min(Served(name, TRUE))
            /\ UNCHANGED <<error_status, out>>
  <2>1. FoundFor(Names[varbind_count], TRUE)'
    BY <1>0, <1>1, <1>a, <1>7, <1>11 DEF FoundFor
  <2>2. BulkValueProgress'
    BY <1>1, <1>4, <1>5, <1>8, <1>11, <2>1 DEF BulkValueProgress
  <2>3. Prefix' /\ (Len(out) <= Through(req.maxRepetitions))'
    BY <1>1, <1>5, <1>7, <1>11, PrefixStays
  <2> QED
    BY <1>1, <1>5, <1>11, <2>2, <2>3 DEF BulkLoopInv, BulkPhases
<1>12. CASE pc' = "bulkFirst" /\ AppendVarbind(Answer(name, TRUE))
  <2>1. Len(out) + 1 = n
    BY <1>4, <1>5
  <2>2. /\ Prefix'
        /\ \/ error_status' = "noError" /\ Len(out') = n
           \/ error_status' = "tooBig" /\ out' = out /\ NextTooBig'
    BY <1>1, <1>5, <1>6, <1>12, <2>1, AppendNext
  <2>3. (Len(out) <= Through(req.maxRepetitions))'
    BY <1>1, <1>5, <1>7, <1>9, <2>2
  <2> QED
    BY <1>1, <1>5, <1>8, <1>12, <2>2, <2>3 DEF BulkLoopInv, BulkPhases
<1> QED
  BY <1>10, <1>11, <1>12

\* A repetition after one more answer, or one that did not fit.
LEMMA AfterAppend ==
  ASSUME Len(out) \in Nat, bulk \in Bulks, bulk' \in Bulks,
         bulk'.last = bulk.last, bulk'.allEnd = bulk.allEnd,
         Repetition', bulk'.next > bulk'.first,
         RepetitionCount' = Len(out) + 1 - bulk.last,
         bulk.allEnd <=> PastEnd(bulk.last + 1, Len(out)),
         error_status' = "noError" =>
           Len(out') = Len(out) + 1 /\ \A i \in 1 .. Len(out) : out'[i] = out[i]
  PROVE  AfterProgress'
<1>1. bulk.last \in Nat
  BY DEF Bulks
<1>2. CASE error_status' = "noError"
  <2>1. PastEnd(bulk.last + 1, Len(out) - 1)' <=> PastEnd(bulk.last + 1, Len(out))
    <3>1. \A i \in bulk.last + 1 .. Len(out) : out'[i] = out[i]
      BY <1>1, <1>2
    <3>2. Len(out') - 1 = Len(out)
      BY <1>2
    <3> QED
      BY <3>1, <3>2 DEF PastEnd
  <2>2. Len(out') = bulk'.last + RepetitionCount'
    BY <1>1, <1>2
  <2> QED
    BY <2>1, <2>2 DEF AfterProgress
<1>3. CASE error_status' # "noError"
  BY <1>3 DEF AfterProgress
<1> QED
  BY <1>2, <1>3

\* The value of the instance that was looked up for a GETBULK.
LEMMA BulkValueStep ==
  ASSUME TypeOK, req \in Requests, BulkLoopInv, present' = present, Capacity \in Nat,
         VarbindValue
  PROVE  BulkLoopInv'
<1>1. /\ req' = req /\ varbind_count' = varbind_count /\ bulk' = bulk
      /\ pc = "value" /\ pc' = ret /\ error_status = "noError"
      /\ bulk \in Bulks /\ out \in Seq(Varbinds) /\ Len(out) \in Nat
      /\ varbind_count \in 0 .. Len(req.varbinds)
      /\ req.version # "v1" /\ Prefix /\ Len(out) <= Through(req.maxRepetitions)
      /\ BulkValueProgress
  <2>1. /\ req' = req /\ varbind_count' = varbind_count /\ bulk' = bulk
        /\ pc = "value" /\ pc' = ret
    BY DEF VarbindValue, outerVars, given
  <2>2. /\ bulk \in Bulks /\ out \in Seq(Varbinds) /\ Len(out) \in Nat
        /\ varbind_count \in 0 .. Len(req.varbinds)
    BY DEF TypeOK
  <2>3. /\ req.version # "v1" /\ Prefix /\ Len(out) <= Through(req.maxRepetitions)
        /\ BulkValueProgress
    BY <2>1 DEF BulkLoopInv, BulkPhases
  <2> QED
    BY <2>1, <2>2, <2>3 DEF BulkValueProgress
<1>2. /\ \A k : Through(k)' = Through(k)
      /\ N' = N /\ R' = R
      /\ \A n : FirstPart(n)' <=> FirstPart(n)
      /\ Repetition' <=> Repetition
  <2>1. /\ \A k : Through(k)' = Through(k)
        /\ N' = N /\ R' = R
    BY <1>1, BulkStays
  <2> QED
    BY <1>1, <2>1 DEF FirstPart, Repetition, Begun
<1>3. PICK vb : vb = BulkVarbind(Len(out) + 1)
  OBVIOUS
<1>4. CASE ~Mib[cur].get
  <2>1. error_status' = "genErr" /\ out' = out
    BY <1>4 DEF VarbindValue
  <2>2. Prefix' /\ (Len(out) <= Through(req.maxRepetitions))'
    BY <1>1, <1>2, <2>1, PrefixStays
  <2>3. ret = "bulkAfter" => AfterProgress'
    BY <1>1, <1>2, <2>1 DEF BulkValueProgress, AfterProgress
  <2> QED
    BY <1>1, <2>1, <2>2, <2>3 DEF BulkLoopInv, BulkPhases, BulkValueProgress
<1>5. CASE Mib[cur].get /\ ret = "bulkFirst"
  <2>1. /\ varbind_count >= 1 /\ Len(out) + 1 = varbind_count /\ FirstPart(varbind_count)
        /\ FoundFor(Names[varbind_count], TRUE)
        /\ varbind_count \in 1 .. Len(req.varbinds)
    <3>1. varbind_count \in Nat /\ Len(req.varbinds) \in Nat
      BY <1>1, RequestType
    <3>2. /\ varbind_count >= 1 /\ Len(out) = varbind_count - 1 /\ FirstPart(varbind_count)
          /\ FoundFor(Names[varbind_count], TRUE)
      BY <1>1, <1>5 DEF BulkValueProgress
    <3>3. Len(out) + 1 = varbind_count /\ varbind_count \in 1 .. Len(req.varbinds)
      BY <1>1, <3>1, <3>2
    <3> QED
      BY <3>2, <3>3
  <2>2. Names[varbind_count] \in Nat
    BY <2>1, NamesType
  <2>3. vb = [name |-> cur, val |-> "value", size |-> Mib[cur].size]
    BY <1>3, <2>1, <2>2, ValueAnswers, BulkVarbindIs
  <2>4. vb \in Varbinds
    BY <1>3, <2>1, BulkVarbindIs
  <2>5. AppendVarbind(vb)
    BY <1>5, <2>3 DEF VarbindValue
  <2>6. /\ Prefix'
        /\ \/ error_status' = "noError" /\ Len(out') = varbind_count
           \/ error_status' = "tooBig" /\ out' = out /\ NextTooBig'
    BY <1>1, <1>3, <2>1, <2>4, <2>5, AppendNext
  <2>7. varbind_count <= Through(req.maxRepetitions)
    <3>1. bulk.nonrep \in Int /\ bulk.reps \in Nat /\ varbind_count \in 0 .. Len(req.varbinds)
      BY <1>1, BulkFields
    <3>2. /\ bulk.nonrep = req.nonRepeaters - varbind_count
          /\ bulk.nonrep >= 0 \/ req.maxRepetitions - bulk.reps = 1
      BY <2>1 DEF FirstPart, Begun
    <3> QED
      BY <3>1, <3>2, FirstPartFits
  <2>8. (Len(out) <= Through(req.maxRepetitions))'
    BY <1>1, <1>2, <2>6, <2>7
  <2>9. FirstPart(varbind_count)'
    BY <1>1, <1>2, <2>1
  <2> QED
    BY <1>1, <1>5, <2>6, <2>8, <2>9 DEF BulkLoopInv, BulkPhases
<1>6. CASE Mib[cur].get /\ ret = "bulkAfter"
  <2>1. /\ Repetition /\ bulk.next > bulk.first
        /\ Len(out) = bulk.last + RepetitionCount - 1
        /\ bulk.allEnd <=> PastEnd(bulk.last + 1, Len(out))
        /\ FoundFor(out[bulk.next - 1].name, TRUE)
    BY <1>1, <1>6 DEF BulkValueProgress
  <2>2. /\ R \in Nat /\ R > 0 /\ N \in Nat
        /\ bulk.first \in Nat /\ bulk.last \in Nat /\ bulk.next \in Nat
        /\ bulk.first > N /\ bulk.last = bulk.first + R - 1
        /\ bulk.next <= bulk.last + 1
        /\ bulk.last + R <= Through(req.maxRepetitions) /\ Through(req.maxRepetitions) \in Nat
    BY <1>1, <2>1, RepetitionFacts
  <2>3. PICK p : p = bulk.next - 1
    OBVIOUS
  <2>4. /\ p \in Nat /\ p > N /\ p \in Nat \ {0} /\ p + R = Len(out) + 1 /\ p \in 1 .. Len(out)
        /\ p + R <= Through(req.maxRepetitions)
    <3>1. Len(out) \in Nat /\ Len(out) = bulk.last + (bulk.next - bulk.first) - 1
      BY <1>1, <2>1 DEF RepetitionCount
    <3>2. bulk.next > bulk.first
      BY <2>1
    <3>3. p \in Nat /\ p > N /\ p \in Nat \ {0}
      BY <2>2, <2>3, <3>2
    <3>4. p + R = Len(out) + 1 /\ p <= Len(out)
      <4>1. bulk.next = p + 1
        BY <2>2, <2>3
      <4>2. Len(out) = p + R - 1
        BY <2>2, <3>1, <3>3, <4>1
      <4>3. Len(out) \in Nat /\ p \in Nat /\ R \in Nat /\ R >= 1
        BY <2>2, <3>1, <3>3
      <4>4. p + R = Len(out) + 1
        BY <4>2, <4>3
      <4> QED
        BY <4>3, <4>4
    <3>5. p + R <= bulk.last + R
      BY <2>2, <2>3, <3>2
    <3> QED
      BY <2>2, <3>1, <3>3, <3>4, <3>5
  <2>5. BulkVarbind(p) \in Varbinds /\ out[p] = BulkVarbind(p)
    BY <1>1, <2>2, <2>4, BulkVarbindIs DEF Prefix
  <2>6. out[p].name \in Nat
    BY <2>5 DEF Varbinds
  <2>7. vb = Answer(out[p].name, TRUE)
    <3>1. BulkVarbind(p + R) = Answer(BulkVarbind(p).name, TRUE)
      BY <2>2, <2>4, BulkVarbindIs
    <3> QED
      BY <1>3, <2>4, <2>5, <3>1
  <2>8. vb = [name |-> cur, val |-> "value", size |-> Mib[cur].size]
    BY <2>1, <2>3, <2>6, <2>7, ValueAnswers
  <2>9. vb \in Varbinds
    BY <2>6, <2>7, AnswerType
  <2>10. AppendVarbind(vb)
    BY <1>6, <2>8 DEF VarbindValue
  <2>11. /\ Prefix'
         /\ \/ /\ error_status' = "noError" /\ Len(out') = Len(out) + 1
               /\ out' = Append(out, vb)
            \/ error_status' = "tooBig" /\ out' = out /\ NextTooBig'
    BY <1>1, <1>3, <2>9, <2>10, AppendNext
  <2>12. (Len(out) <= Through(req.maxRepetitions))'
    BY <1>1, <1>2, <2>4, <2>11
  <2>13. AfterProgress'
    <3>1. bulk' \in Bulks /\ bulk'.next > bulk'.first /\ Repetition'
      BY <1>1, <1>2, <2>1
    <3>2. RepetitionCount' = RepetitionCount /\ RepetitionCount \in Int
      BY <1>1, <2>2 DEF RepetitionCount
    <3>3. RepetitionCount = Len(out) + 1 - bulk.last
      BY <1>1, <2>1, <2>2, <3>2
    <3>4. error_status' = "noError" =>
            Len(out') = Len(out) + 1 /\ \A i \in 1 .. Len(out) : out'[i] = out[i]
      BY <1>1, <2>11
    <3> QED
      BY <1>1, <2>1, <3>1, <3>2, <3>3, <3>4, AfterAppend
  <2> QED
    BY <1>1, <1>6, <2>11, <2>12, <2>13 DEF BulkLoopInv, BulkPhases
<1> QED
  BY <1>1, <1>4, <1>5, <1>6 DEF BulkValueProgress

\* A request all of whose varbinds were read in the first loop is answered in full,
\* or all but the further repetitions.
LEMMA FirstPartEnds ==
  ASSUME req \in Requests, bulk \in Bulks, NEW n \in 0 .. Len(req.varbinds), FirstPart(n)
  PROVE  /\ bulk.nonrep = 0 /\ bulk.reps = 0 => n = Through(req.maxRepetitions)
         /\ bulk.nonrep >= 0 /\ n = Len(req.varbinds) => n = Through(req.maxRepetitions)
         /\ bulk.nonrep >= 0 => bulk.off = HeaderOffset
         /\ bulk.nonrep < 0 /\ n = Len(req.varbinds) =>
              /\ R > 0 /\ Begun = 1
              /\ n = Through(Begun) /\ bulk.off = Through(Begun - 1) + 1
<1>1. /\ N \in Nat /\ R \in Nat /\ N + R = Len(req.varbinds)
      /\ req.nonRepeaters \in Nat /\ req.maxRepetitions \in Nat
      /\ req.nonRepeaters <= Len(req.varbinds) => N = req.nonRepeaters
      /\ R > 0 => N = req.nonRepeaters
      /\ Len(req.varbinds) \in Nat /\ n \in Nat /\ n <= Len(req.varbinds)
  BY Parts, RequestType
<1>2. /\ bulk.nonrep \in Int /\ bulk.reps \in Nat /\ bulk.nonrep = req.nonRepeaters - n
      /\ bulk.nonrep >= 0 => bulk.off = HeaderOffset /\ bulk.reps = req.maxRepetitions
      /\ bulk.nonrep < 0 => bulk.off = N + 1 /\ Begun = 1
  BY BulkFields DEF FirstPart
<1>3. Through(0) = N /\ Through(1) = N + R
  <2>1. 0 \in Nat /\ 0 + 1 = 1
    OBVIOUS
  <2> QED
    BY <2>1, ThroughGrows
<1>4. R = 0 => Through(req.maxRepetitions) = N
  <2>1. \A k \in Nat : 0 * k = 0
    OBVIOUS
  <2> QED
    BY <1>1, <2>1 DEF Through
<1>5. CASE bulk.nonrep >= 0
  <2>1. n = Len(req.varbinds) => R = 0 /\ n = N
    <3>1. n <= req.nonRepeaters
      BY <1>1, <1>2, <1>5
    <3>2. R > 0 => n <= N
      BY <1>1, <3>1
    <3> QED
      BY <1>1, <3>2
  <2>2. bulk.nonrep = 0 => n = N
    BY <1>1, <1>2, <1>5
  <2> QED
    BY <1>2, <1>3, <1>4, <1>5, <2>1, <2>2
<1>6. CASE ~(bulk.nonrep >= 0)
  <2>1. n = Len(req.varbinds) => R > 0 /\ n = N + R
    <3>1. req.nonRepeaters < n
      BY <1>1, <1>2, <1>6
    <3>2. N < n
      BY <1>1, <3>1
    <3> QED
      BY <1>1, <3>2
  <2>2. bulk.nonrep < 0 /\ bulk.nonrep # 0 /\ 1 - 1 = 0
    BY <1>2, <1>6
  <2> QED
    BY <1>2, <1>3, <1>6, <2>1, <2>2
<1> QED
  BY <1>5, <1>6

\* The end of the first loop.
LEMMA BulkFirstEndStep ==
  ASSUME TypeOK, req \in Requests, BulkLoopInv, BulkFirstEnd
  PROVE  BulkLoopInv'
<1>1. /\ UNCHANGED <<error_status, out, varbind_count, req>>
      /\ pc = "bulkFirst" /\ pc' = "bulkLoop" /\ bulk \in Bulks /\ Len(out) \in Nat
      /\ varbind_count \in 0 .. Len(req.varbinds)
      /\ req.version # "v1" /\ Prefix /\ Len(out) <= Through(req.maxRepetitions)
      /\ error_status = "tooBig" => NextTooBig
      /\ error_status = "noError" => Len(out) = varbind_count /\ FirstPart(varbind_count)
  BY DEF BulkFirstEnd, loopVars, outerVars, given, TypeOK, BulkLoopInv, BulkPhases
<1>2. /\ \A k : Through(k)' = Through(k)
      /\ N' = N /\ R' = R
      /\ Prefix' /\ (Len(out) <= Through(req.maxRepetitions))'
      /\ error_status' = "tooBig" => NextTooBig'
  BY <1>1, BulkStays, PrefixStays
<1>3. error_status = "noError" => BetweenRepetitions'
  <2> SUFFICES ASSUME error_status = "noError" PROVE BetweenRepetitions'
    OBVIOUS
  <2>1. /\ bulk.nonrep = 0 /\ bulk.reps = 0 => Len(out) = Through(req.maxRepetitions)
        /\ bulk.nonrep >= 0 /\ EndOfVarbinds => Len(out) = Through(req.maxRepetitions)
        /\ bulk.nonrep >= 0 => bulk.off = HeaderOffset
        /\ bulk.nonrep < 0 /\ EndOfVarbinds =>
             R > 0 /\ Begun = 1 /\ Len(out) = Through(Begun) /\ bulk.off = Through(Begun - 1) + 1
    BY <1>1, FirstPartEnds DEF EndOfVarbinds
  <2>2. bulk.nonrep \in Int /\ bulk.reps \in Nat
    BY <1>1, BulkFields
  <2>3. CASE bulk.nonrep = 0
    <3>1. bulk'.off = OutOffset' /\ Len(out) = Through(req.maxRepetitions)
      <4>1. bulk' = [bulk EXCEPT !.off = OutOffset] \/ bulk' = EnterRepeaters
        BY DEF BulkFirstEnd
      <4>2. bulk'.off = OutOffset
        BY <1>1, <2>3, <4>1 DEF EnterRepeaters, AtRepeaters, Bulks
      <4>3. (bulk.reps = 0 \/ EndOfVarbinds) /\ bulk.nonrep >= 0
        BY <2>2, <2>3 DEF BulkFirstEnd, NoRepetitions
      <4> QED
        BY <1>1, <2>1, <2>3, <4>2, <4>3 DEF OutOffset
    <3> QED
      BY <1>1, <1>2, <3>1 DEF BetweenRepetitions
  <2>4. CASE bulk.nonrep # 0
    <3>1. bulk' = bulk /\ EndOfVarbinds
      BY <2>4 DEF BulkFirstEnd, NoRepetitions, EnterRepeaters, AtRepeaters
    <3>2. CASE bulk.nonrep < 0
      BY <1>1, <1>2, <2>1, <3>1, <3>2 DEF BetweenRepetitions, Begun
    <3>3. CASE bulk.nonrep >= 0
      BY <1>1, <1>2, <2>1, <3>1, <3>3 DEF BetweenRepetitions
    <3> QED
      BY <2>2, <3>2, <3>3
  <2> QED
    BY <2>3, <2>4
<1> QED
  BY <1>1, <1>2, <1>3 DEF BulkLoopInv, BulkPhases

\* The next repetition begins, or the response is complete.
LEMMA BulkLoopStep ==
  ASSUME TypeOK, req \in Requests, BulkLoopInv, BulkLoop
  PROVE  BulkLoopInv'
<1>1. /\ UNCHANGED <<out, varbind_count, req>>
      /\ pc = "bulkLoop" /\ bulk \in Bulks /\ Len(out) \in Nat
      /\ req.version # "v1" /\ Prefix /\ Len(out) <= Through(req.maxRepetitions)
      /\ error_status = "tooBig" => NextTooBig
      /\ error_status = "noError" => BetweenRepetitions
  BY DEF BulkLoop, outerVars, given, TypeOK, BulkLoopInv, BulkPhases
<1>2. /\ \A k : Through(k)' = Through(k)
      /\ N' = N /\ R' = R
      /\ Prefix' /\ (Len(out) <= Through(req.maxRepetitions))'
      /\ NextTooBig' <=> NextTooBig
      /\ \A status : BulkResult(status, out)' <=> BulkResult(status, out)
  BY <1>1, BulkStays, PrefixStays
<1>3. /\ bulk.reps \in Nat /\ bulk.off \in Nat /\ req.maxRepetitions \in Nat
      /\ N \in Nat /\ R \in Nat
  BY <1>1, BulkFields, Parts
<1>4. CASE /\ error_status = "noError" /\ bulk.reps > 0 /\ OutOffset # bulk.off
           /\ bulk' = [bulk EXCEPT !.first = bulk.off, !.next = bulk.off,
                                   !.last = Len(out), !.off = OutOffset, !.allEnd = TRUE]
           /\ pc' = "bulkInner" /\ UNCHANGED error_status
  <2>1. /\ bulk'.first = bulk.off /\ bulk'.next = bulk.off /\ bulk'.last = Len(out)
        /\ bulk'.off = Len(out) + 1 /\ bulk'.allEnd = TRUE /\ bulk'.reps = bulk.reps
    BY <1>1, <1>4 DEF Bulks, OutOffset
  <2>2. bulk.off # HeaderOffset =>
          R > 0 /\ Begun >= 1 /\ Len(out) = Through(Begun) /\ bulk.off = Through(Begun - 1) + 1
    BY <1>1, <1>3, <1>4 DEF BetweenRepetitions
  <2>3. bulk.off # HeaderOffset => bulk.off <= Len(out) + 1
    <3> SUFFICES ASSUME bulk.off # HeaderOffset PROVE bulk.off <= Len(out) + 1
      OBVIOUS
    <3>1. Begun - 1 \in Nat /\ Begun \in Nat /\ Begun - 1 <= Begun
      BY <1>3, <2>2 DEF Begun
    <3>2. Through(Begun - 1) <= Through(Begun) /\ Through(Begun) \in Nat /\ Through(Begun - 1) \in Nat
      BY <3>1, ThroughGrows
    <3> QED
      BY <2>2, <3>2
  <2>4. bulk'.first # HeaderOffset => Repetition'
    <3> SUFFICES ASSUME bulk.off # HeaderOffset PROVE Repetition'
      BY <2>1
    <3>1. Begun' = Begun
      BY <1>1, <2>1 DEF Begun
    <3>2. bulk.off \in bulk.off .. Len(out) + 1
      BY <1>1, <1>3, <2>3
    <3> QED
      BY <1>1, <1>2, <1>4, <2>1, <2>2, <3>1, <3>2 DEF Repetition
  <2>5. /\ Len(out') = bulk'.last + RepetitionCount'
        /\ PastEnd(bulk.last + 1, Len(out))'
    BY <1>1, <1>3, <2>1 DEF RepetitionCount, PastEnd
  <2> QED
    BY <1>1, <1>2, <1>4, <2>1, <2>4, <2>5 DEF BulkLoopInv, BulkPhases, InnerProgress
<1>5. CASE /\ ~(error_status = "noError" /\ bulk.reps > 0 /\ OutOffset # bulk.off)
           /\ error_status' = IF error_status = "tooBig" THEN "noError" ELSE error_status
           /\ pc' = "complete" /\ UNCHANGED bulk
  <2>1. BulkResult(error_status', out)
    <3>1. CASE error_status = "tooBig"
      BY <1>1, <3>1 DEF BulkResult, Prefix, NextTooBig
    <3>2. CASE error_status = "noError"
      <4>1. Len(out) = Through(req.maxRepetitions)
        <5>1. CASE bulk.reps = 0
          BY <1>1, <1>3, <3>2, <5>1 DEF BetweenRepetitions, Begun
        <5>2. CASE bulk.reps # 0
          <6>1. OutOffset = bulk.off /\ Len(out) + 1 = bulk.off
            BY <1>3, <1>5, <3>2, <5>2 DEF OutOffset
          <6>2. ~(R > 0 /\ Begun >= 1 /\ Len(out) = Through(Begun) /\ bulk.off = Through(Begun - 1) + 1)
            <7> SUFFICES ASSUME R > 0, Begun >= 1, Len(out) = Through(Begun),
                                bulk.off = Through(Begun - 1) + 1
                         PROVE  FALSE
              OBVIOUS
            <7>1. Begun - 1 \in Nat /\ (Begun - 1) + 1 = Begun
              BY <1>3 DEF Begun
            <7>2. Through(Begun) = Through(Begun - 1) + R /\ Through(Begun - 1) \in Nat
              BY <7>1, ThroughGrows
            <7> QED
              BY <1>3, <6>1, <7>2
          <6> QED
            BY <1>1, <3>2, <6>2 DEF BetweenRepetitions
        <5> QED
          BY <5>1, <5>2
      <4>2. Through(req.maxRepetitions) \in Nat
        BY <1>3, ThroughGrows
      <4> QED
        BY <1>1, <4>1, <4>2 DEF BulkResult, Prefix
    <3>3. CASE error_status \notin {"tooBig", "noError"}
      BY <1>5, <3>3 DEF BulkResult
    <3> QED
      BY <3>1, <3>2, <3>3
  <2>2. BulkResult(error_status, out)'
    BY <1>2, <2>1
  <2>3. error_status' # "tooBig"
    BY <1>5
  <2> QED
    BY <1>1, <1>2, <1>5, <2>2, <2>3 DEF BulkLoopInv, BulkPhases
<1> QED
  BY <1>4, <1>5 DEF BulkLoop

\* A repetition continues the varbind it reads next, which is in the response.
LEMMA NextPosition ==
  ASSUME req \in Requests, bulk \in Bulks, Repetition, Len(out) \in Nat,
         bulk.next <= bulk.last, Len(out) = bulk.last + RepetitionCount
  PROVE  /\ bulk.next \in Nat \ {0} /\ bulk.next > N /\ bulk.next \in 1 .. Len(out)
         /\ Len(out) + 1 = bulk.next + R /\ Len(out) + 1 <= Through(req.maxRepetitions)
         /\ RepetitionCount \in Nat /\ Len(out) = bulk.last + (bulk.next - bulk.first)
<1>1. PICK f \in Nat, l \in Nat, p \in Nat, len \in Nat, r \in Nat, n \in Nat, all \in Nat :
        /\ f = bulk.first /\ l = bulk.last /\ p = bulk.next /\ len = Len(out)
        /\ r = R /\ n = N /\ all = Through(req.maxRepetitions)
  BY RepetitionFacts
<1>2. r > 0 /\ f > n /\ l = f + r - 1 /\ f <= p /\ p <= l /\ l + r <= all
  BY <1>1, RepetitionFacts
<1>3. RepetitionCount = p - f
  BY <1>1 DEF RepetitionCount
<1>4. len = l + (p - f)
  BY <1>1, <1>3
<1>5. /\ p \in Nat \ {0} /\ p > n /\ p \in 1 .. len
      /\ len + 1 = p + r /\ len + 1 <= all /\ p - f \in Nat
  BY <1>2, <1>4
<1> QED
  BY <1>1, <1>3, <1>4, <1>5

\* The next varbind of a repetition is looked up from the one it continues.
LEMMA BulkInnerStep ==
  ASSUME TypeOK, req \in Requests, BulkLoopInv, present = DOMAIN Mib, present' = present,
         bulk' \in Bulks, Capacity \in Nat, BulkInnerVarbind
  PROVE  BulkLoopInv'
<1>1. /\ req' = req /\ pc = "bulkInner" /\ bulk.first # HeaderOffset
      /\ bulk' = [bulk EXCEPT !.next = @ + 1] /\ bulk.next <= bulk.last
      /\ LookupVarbind(out[bulk.next].name, TRUE, "bulkAfter")
  BY DEF BulkInnerVarbind, outerVars, given
<1>2. bulk \in Bulks /\ out \in Seq(Varbinds) /\ Len(out) \in Nat
  BY DEF TypeOK
<1>3. /\ req.version # "v1" /\ Prefix /\ Len(out) <= Through(req.maxRepetitions)
      /\ error_status = "noError"
      /\ Repetition /\ Len(out) = bulk.last + RepetitionCount
      /\ bulk.allEnd <=> PastEnd(bulk.last + 1, Len(out))
  BY <1>1 DEF BulkLoopInv, BulkPhases, InnerProgress
<1>4. PICK p : p = bulk.next
  OBVIOUS
<1>5. /\ p \in Nat \ {0} /\ p > N /\ p \in 1 .. Len(out)
      /\ Len(out) + 1 = p + R /\ Len(out) + 1 <= Through(req.maxRepetitions)
      /\ RepetitionCount \in Nat
  BY <1>1, <1>2, <1>3, <1>4, NextPosition
<1>6. BulkVarbind(p) \in Varbinds /\ out[p] = BulkVarbind(p)
  <2>1. R > 0
    BY <1>3 DEF Repetition
  <2> QED
    BY <1>3, <1>5, <2>1, BulkVarbindIs DEF Prefix
<1>7. PICK name : name = out[p].name
  OBVIOUS
<1>8. name \in Nat
  BY <1>6, <1>7 DEF Varbinds
<1>9. BulkVarbind(Len(out) + 1) = Answer(name, TRUE) /\ Answer(name, TRUE) \in Varbinds
  <2>1. BulkVarbind(p + R) = Answer(BulkVarbind(p).name, TRUE)
    BY <1>3, <1>5, BulkVarbindIs DEF Repetition
  <2> QED
    BY <1>5, <1>6, <1>7, <1>8, <2>1, AnswerType
<1>10. /\ \A k : Through(k)' = Through(k)
       /\ \A o, getNext : Served(o, getNext)' = Served(o, getNext)
       /\ N' = N /\ R' = R
  BY <1>1, BulkStays, ReferenceStays
<1>11. /\ bulk'.next = p + 1 /\ bulk'.first = bulk.first /\ bulk'.last = bulk.last
       /\ bulk'.off = bulk.off /\ bulk'.reps = bulk.reps /\ bulk'.allEnd = bulk.allEnd
  BY <1>1, <1>2, <1>4 DEF Bulks
<1>12. /\ bulk'.next \in bulk'.first .. bulk'.last + 1 /\ bulk'.next > bulk'.first
       /\ RepetitionCount' = RepetitionCount + 1
  <2>1. PICK f \in Nat, l \in Nat : f = bulk.first /\ l = bulk.last /\ f <= p /\ p <= l
    BY <1>1, <1>2, <1>3, <1>4, RepetitionFacts
  <2>2. p + 1 \in f .. l + 1 /\ p + 1 > f /\ (p + 1) - f = (p - f) + 1
    <3>1. p \in Nat
      BY <1>5
    <3> QED
      BY <2>1, <3>1
  <2>3. RepetitionCount' = (p + 1) - f /\ RepetitionCount = p - f
    BY <1>4, <1>11, <2>1 DEF RepetitionCount
  <2> QED
    BY <1>11, <2>1, <2>2, <2>3
<1>13. Repetition'
  <2>1. Begun' = Begun
    BY <1>1, <1>11 DEF Begun
  <2> QED
    BY <1>3, <1>10, <1>11, <1>12, <2>1 DEF Repetition
<1>14. RepetitionCount' = Len(out) + 1 - bulk.last
  <2>1. PICK l \in Nat : l = bulk.last
    BY <1>2 DEF Bulks
  <2> QED
    BY <1>2, <1>3, <1>5, <1>12, <2>1
<1>15. \/ /\ pc' = "value" /\ ret' = "bulkAfter"
          /\ Served(name, TRUE) # {} /\ cur' = Min(Served(name, TRUE))
          /\ UNCHANGED <<error_status, out>>
       \/ pc' = "bulkAfter" /\ AppendVarbind(Answer(name, TRUE))
  BY <1>1, <1>3, <1>4, <1>7, <1>8, LookupAnswers
<1>16. CASE /\ pc' = "value" /\ ret' = "bulkAfter"
            /\ Served(name, TRUE) # {} /\ cur' = Min(Served(name, TRUE))
            /\ UNCHANGED <<error_status, out>>
  <2>1. FoundFor(out[bulk.next - 1].name, TRUE)'
    <3>1. bulk'.next - 1 = p
      BY <1>5, <1>11
    <3>2. out'[bulk'.next - 1].name = name
      BY <1>7, <1>16, <3>1
    <3> QED
      BY <1>10, <1>16, <3>2 DEF FoundFor
  <2>2. Len(out') = bulk'.last + RepetitionCount' - 1
    <3>1. PICK l \in Nat, len \in Nat : l = bulk.last /\ len = Len(out)
      BY <1>2 DEF Bulks
    <3>2. Len(out') = len /\ bulk'.last = l /\ RepetitionCount' = len + 1 - l
      BY <1>11, <1>14, <1>16, <3>1
    <3>3. l + (len + 1 - l) - 1 = len
      BY <3>1
    <3> QED
      BY <3>2, <3>3
  <2>3. PastEnd(bulk.last + 1, Len(out))' <=> PastEnd(bulk.last + 1, Len(out))
    BY <1>11, <1>16 DEF PastEnd
  <2>4. BulkValueProgress'
    BY <1>3, <1>11, <1>12, <1>13, <1>16, <2>1, <2>2, <2>3 DEF BulkValueProgress
  <2>5. Prefix' /\ (Len(out) <= Through(req.maxRepetitions))'
    BY <1>1, <1>3, <1>10, <1>16, PrefixStays
  <2> QED
    BY <1>1, <1>3, <1>16, <2>4, <2>5 DEF BulkLoopInv, BulkPhases
<1>17. CASE pc' = "bulkAfter" /\ AppendVarbind(Answer(name, TRUE))
  <2>1. /\ Prefix'
        /\ \/ /\ error_status' = "noError" /\ Len(out') = Len(out) + 1
              /\ out' = Append(out, Answer(name, TRUE))
           \/ error_status' = "tooBig" /\ out' = out /\ NextTooBig'
    BY <1>1, <1>2, <1>3, <1>9, <1>17, AppendNext
  <2>2. (Len(out) <= Through(req.maxRepetitions))'
    BY <1>1, <1>3, <1>5, <1>10, <2>1
  <2>3. AfterProgress'
    <3>1. error_status' = "noError" =>
            Len(out') = Len(out) + 1 /\ \A i \in 1 .. Len(out) : out'[i] = out[i]
      BY <1>2, <2>1
    <3> QED
      BY <1>2, <1>3, <1>11, <1>12, <1>13, <1>14, <3>1, AfterAppend
  <2> QED
    BY <1>1, <1>3, <1>17, <2>1, <2>2, <2>3 DEF BulkLoopInv, BulkPhases
<1> QED
  BY <1>15, <1>16, <1>17

\* After a varbind of a repetition.
LEMMA BulkAfterStep ==
  ASSUME TypeOK, req \in Requests, BulkLoopInv, BulkAfter
  PROVE  BulkLoopInv'
<1>1. /\ UNCHANGED <<error_status, out, varbind_count, req>>
      /\ pc = "bulkAfter" /\ bulk \in Bulks /\ out \in Seq(Varbinds) /\ Len(out) \in Nat
      /\ req.version # "v1" /\ Prefix /\ Len(out) <= Through(req.maxRepetitions)
      /\ error_status = "tooBig" => NextTooBig
      /\ AfterProgress
  BY DEF BulkAfter, outerVars, given, TypeOK, BulkLoopInv, BulkPhases
<1>2. /\ \A k : Through(k)' = Through(k)
      /\ N' = N /\ R' = R
      /\ Prefix' /\ (Len(out) <= Through(req.maxRepetitions))'
      /\ error_status' = "tooBig" => NextTooBig'
  BY <1>1, BulkStays, PrefixStays
<1>3. CASE error_status # "noError" /\ pc' = "bulkLoop"
  BY <1>1, <1>2, <1>3 DEF BulkLoopInv, BulkPhases
<1>4. CASE /\ error_status = "noError" /\ pc' = "bulkInner"
           /\ bulk' = [bulk EXCEPT !.allEnd = @ /\ Last(out).val = "endOfMibView"]
  <2>1. /\ bulk'.next = bulk.next /\ bulk'.first = bulk.first /\ bulk'.last = bulk.last
        /\ bulk'.off = bulk.off /\ bulk'.reps = bulk.reps
        /\ bulk'.allEnd <=> bulk.allEnd /\ out[Len(out)].val = "endOfMibView"
    BY <1>1, <1>4 DEF Bulks, Last
  <2>2. /\ Repetition /\ bulk.next > bulk.first
        /\ Len(out) = bulk.last + RepetitionCount
        /\ bulk.allEnd <=> PastEnd(bulk.last + 1, Len(out) - 1)
    BY <1>1, <1>4 DEF AfterProgress
  <2>3. Repetition' /\ RepetitionCount' = RepetitionCount
    BY <1>1, <1>2, <2>1, <2>2 DEF Repetition, Begun, RepetitionCount
  <2>4. bulk.last + 1 <= Len(out)
    <3>1. PICK f \in Nat, l \in Nat, p \in Nat, len \in Nat :
            f = bulk.first /\ l = bulk.last /\ p = bulk.next /\ len = Len(out) /\ p > f
      BY <1>1, <2>2 DEF Bulks
    <3>2. len = l + (p - f)
      BY <2>2, <3>1 DEF RepetitionCount
    <3>3. l + 1 <= len
      BY <3>1, <3>2
    <3> QED
      BY <3>1, <3>3
  <2>5. PastEnd(bulk.last + 1, Len(out)) <=>
          PastEnd(bulk.last + 1, Len(out) - 1) /\ out[Len(out)].val = "endOfMibView"
    <3>1. bulk.last \in Nat
      BY <1>1 DEF Bulks
    <3> QED
      BY <1>1, <2>4, <3>1 DEF PastEnd
  <2>6. PastEnd(bulk.last + 1, Len(out))' <=> PastEnd(bulk.last + 1, Len(out))
    BY <1>1, <2>1 DEF PastEnd
  <2>7. InnerProgress'
    BY <1>1, <1>4, <2>1, <2>2, <2>3, <2>5, <2>6 DEF InnerProgress
  <2> QED
    BY <1>1, <1>2, <1>4, <2>7 DEF BulkLoopInv, BulkPhases
<1> QED
  BY <1>3, <1>4 DEF BulkAfter

\* The end of a repetition.
LEMMA BulkInnerEndStep ==
  ASSUME TypeOK, req \in Requests, BulkLoopInv, BulkInnerEnd
  PROVE  BulkLoopInv'
<1>1. /\ UNCHANGED <<error_status, out, varbind_count, req>>
      /\ pc = "bulkInner" /\ bulk \in Bulks /\ out \in Seq(Varbinds) /\ Len(out) \in Nat
      /\ bulk.first # HeaderOffset /\ bulk.next > bulk.last
      /\ req.version # "v1" /\ Prefix /\ Len(out) <= Through(req.maxRepetitions)
      /\ InnerProgress
  BY DEF BulkInnerEnd, loopVars, outerVars, given, TypeOK, BulkLoopInv, BulkPhases
<1>2. /\ \A k : Through(k)' = Through(k)
      /\ N' = N /\ R' = R
      /\ Prefix' /\ (Len(out) <= Through(req.maxRepetitions))'
      /\ \A status : BulkResult(status, out)' <=> BulkResult(status, out)
  BY <1>1, BulkStays, PrefixStays
<1>3. /\ error_status = "noError" /\ Repetition /\ Len(out) = bulk.last + RepetitionCount
      /\ bulk.allEnd <=> PastEnd(bulk.last + 1, Len(out))
  BY <1>1 DEF InnerProgress
<1>4. /\ Len(out) = bulk.last + R /\ Len(out) >= N + R /\ Len(out) - R + 1 = bulk.last + 1
  <2>1. PICK f \in Nat, l \in Nat, p \in Nat, len \in Nat, r \in Nat, n \in Nat :
          /\ f = bulk.first /\ l = bulk.last /\ p = bulk.next /\ len = Len(out)
          /\ r = R /\ n = N
    BY <1>1, <1>3, RepetitionFacts
  <2>2. l = f + r - 1 /\ l >= n + r /\ p > l /\ p <= l + 1 /\ r > 0
    BY <1>1, <1>3, <2>1, RepetitionFacts
  <2>3. len = l + (p - f)
    BY <1>3, <2>1 DEF RepetitionCount
  <2>4. len = l + r /\ len >= n + r /\ len - r + 1 = l + 1
    BY <2>2, <2>3
  <2> QED
    BY <2>1, <2>4
<1>5. CASE bulk.allEnd /\ pc' = "complete" /\ bulk' = bulk
  <2>1. BulkResult("noError", out)
    BY <1>1, <1>3, <1>4, <1>5 DEF BulkResult, Prefix, PastEnd
  <2>2. BulkResult(error_status, out)'
    BY <1>1, <1>2, <1>3, <2>1
  <2> QED
    BY <1>1, <1>2, <1>3, <1>5, <2>2 DEF BulkLoopInv, BulkPhases
<1>6. CASE ~bulk.allEnd /\ pc' = "bulkLoop" /\ bulk' = [bulk EXCEPT !.reps = @ - 1]
  <2>1. bulk'.reps = bulk.reps - 1 /\ bulk'.off = bulk.off /\ bulk.reps \in Nat
    BY <1>1, <1>6 DEF Bulks
  <2>2. PICK b \in Nat : b = Begun
    BY <1>1, <1>3, RepetitionFacts
  <2>3. Begun' = b + 1 /\ Begun' - 1 = b /\ Begun' >= 1
    <3>1. PICK m \in Nat, k \in Nat : m = req.maxRepetitions /\ k = bulk.reps
      BY <2>1, RequestType
    <3>2. b = m - k /\ Begun' = m - (k - 1)
      BY <1>1, <2>1, <2>2, <3>1 DEF Begun
    <3>3. m - (k - 1) = (m - k) + 1 /\ b \in Nat
      BY <2>2, <3>1
    <3> QED
      BY <3>2, <3>3
  <2>4. Len(out) = Through(b + 1) /\ bulk.off = Through(b) + 1 /\ R > 0
    BY <1>1, <1>3, <1>4, <2>2, RepetitionFacts
  <2>5. BetweenRepetitions'
    BY <1>1, <1>2, <2>1, <2>3, <2>4 DEF BetweenRepetitions
  <2> QED
    BY <1>1, <1>2, <1>3, <1>6, <2>5 DEF BulkLoopInv, BulkPhases
<1> QED
  BY <1>5, <1>6 DEF BulkInnerEnd

\* What GETBULK completes is sent as it is.
LEMMA BulkCompleteStep ==
  ASSUME TypeOK, req \in Requests, req.type = "getBulk", BulkLoopInv, Complete
  PROVE  BulkLoopInv'
<1>1. /\ req' = req /\ pc = "complete" /\ pc' \in {"free", "send"}
      /\ req.version # "v1" /\ BulkResult(error_status, out)
      /\ error_status' = error_status
      /\ error_status = "noError" => out' = out
  BY DEF Complete, outerVars, given, BulkLoopInv, BulkPhases, FinalStatus
<1>2. BulkResult(error_status, out)'
  <2>1. CASE error_status = "noError"
    BY <1>1, <2>1, PrefixStays
  <2>2. CASE error_status # "noError"
    BY <1>1, <2>2 DEF BulkResult
  <2> QED
    BY <2>1, <2>2
<1> QED
  BY <1>1, <1>2 DEF BulkLoopInv, BulkPhases

\* Before the first varbind.
LEMMA BulkBeginStep ==
  ASSUME TypeOK, req \in Requests, req.type = "getBulk", BulkLoopInv, ParseAccept \/ Prepare
  PROVE  BulkLoopInv'
<1>1. /\ req.nonRepeaters \in Nat /\ req.maxRepetitions \in Nat
      /\ bulk \in Bulks
  BY RequestType DEF TypeOK
<1>2. CASE ParseAccept
  <2>1. /\ UNCHANGED <<req, out, varbind_count>> /\ pc' = "prepare" /\ error_status' = "noError"
        /\ req.version # "v1" /\ bulk.off = HeaderOffset /\ out = <<>> /\ varbind_count = 0
        /\ bulk' = [bulk EXCEPT !.nonrep = req.nonRepeaters, !.reps = req.maxRepetitions]
    BY <1>2 DEF ParseAccept, ParsedStatus, AllReadOnly, outerVars, given, BulkLoopInv
  <2>2. bulk'.nonrep = req.nonRepeaters /\ bulk'.reps = req.maxRepetitions /\ bulk'.off = bulk.off
    BY <1>1, <2>1 DEF Bulks
  <2>3. FirstPart(0)'
    BY <1>1, <2>1, <2>2 DEF FirstPart
  <2> QED
    BY <2>1, <2>2, <2>3 DEF BulkLoopInv, BulkPhases
<1>3. CASE Prepare
  <2>1. /\ UNCHANGED <<req, out, varbind_count, bulk, error_status>> /\ pc' \in {"bulkFirst", "done"}
        /\ error_status = "noError" /\ FirstPart(0)
        /\ req.version # "v1" /\ out = <<>> /\ varbind_count = 0
    BY <1>3 DEF Prepare, PhaseOf, loopVars, outerVars, given, BulkLoopInv
  <2>2. Prefix' /\ Len(out') = varbind_count'
    BY <2>1 DEF Prefix
  <2>3. (Len(out) <= Through(req.maxRepetitions))'
    <3>1. Through(req.maxRepetitions)' = Through(req.maxRepetitions)
      BY <2>1, BulkStays
    <3>2. Through(req.maxRepetitions) \in Nat
      BY <1>1, ThroughGrows
    <3> QED
      BY <2>1, <3>1, <3>2
  <2>4. FirstPart(varbind_count)'
    <3>1. N' = N
      BY <2>1, BulkStays
    <3> QED
      BY <2>1, <3>1 DEF FirstPart, Begun
  <2> QED
    BY <2>1, <2>2, <2>3, <2>4 DEF BulkLoopInv, BulkPhases
<1> QED
  BY <1>2, <1>3

\* The steps of a GETBULK.
LEMMA BulkAnswerStep ==
  ASSUME TypeOK, TypeOK', AuthInv, HeldInv, req \in Requests, BulkAnswerInv,
         present = DOMAIN Mib, present' = present, Capacity \in Nat, [Next]_vars
  PROVE  BulkAnswerInv'
<1>1. req' = req
  BY RequestStays
<1> SUFFICES ASSUME req.type = "getBulk"
             PROVE  BulkLoopInv'
  BY <1>1 DEF BulkAnswerInv
<1>2. BulkLoopInv /\ bulk' \in Bulks
  BY DEF BulkAnswerInv, TypeOK
<1>3. CASE ParseBadCommunity \/ ParseV1Bulk \/ MalformedVarbind \/ Send \/ WriteCallbacks \/ Free
  <2>1. pc' = "done" \/ (pc' = "free" /\ pc \notin {"parse", "done"})
    BY <1>3 DEF ParseBadCommunity, ParseV1Bulk, MalformedVarbind, Send, WriteCallbacks,
                Free, WriteCallbacksFollow
  <2> QED
    BY <1>1, <1>2, <2>1 DEF BulkLoopInv, BulkPhases
<1>4. CASE ParseAccept \/ Prepare
  BY <1>2, <1>4, BulkBeginStep
<1>5. CASE BulkFirstVarbind
  BY <1>2, <1>5, BulkFirstStep
<1>6. CASE VarbindValue
  BY <1>2, <1>6, BulkValueStep
<1>7. CASE BulkFirstBadVarbind
  <2>1. /\ UNCHANGED <<req, out, pc>> /\ error_status' = "genErr" /\ pc = "bulkFirst"
    BY <1>7 DEF BulkFirstBadVarbind, outerVars, given
  <2>2. Prefix' /\ (Len(out) <= Through(req.maxRepetitions))'
    BY <1>2, <2>1, PrefixStays, BulkStays DEF BulkLoopInv, BulkPhases
  <2> QED
    BY <1>2, <2>1, <2>2 DEF BulkLoopInv, BulkPhases
<1>8. CASE BulkFirstEnd
  BY <1>2, <1>8, BulkFirstEndStep
<1>9. CASE BulkLoop
  BY <1>2, <1>9, BulkLoopStep
<1>10. CASE BulkInnerVarbind
  BY <1>2, <1>10, BulkInnerStep
<1>11. CASE BulkInnerHeader
  <2>1. /\ UNCHANGED <<req, out>> /\ error_status' = "genErr" /\ pc = "bulkInner" /\ pc' = "bulkLoop"
    BY <1>11 DEF BulkInnerHeader, outerVars, given
  <2>2. Prefix' /\ (Len(out) <= Through(req.maxRepetitions))'
    BY <1>2, <2>1, PrefixStays, BulkStays DEF BulkLoopInv, BulkPhases
  <2> QED
    BY <1>2, <2>1, <2>2 DEF BulkLoopInv, BulkPhases
<1>12. CASE BulkAfter
  BY <1>2, <1>12, BulkAfterStep
<1>13. CASE BulkInnerEnd
  BY <1>2, <1>13, BulkInnerEndStep
<1>14. CASE Complete
  BY <1>2, <1>14, BulkCompleteStep
<1>15. CASE \/ InformVarbind \/ GetVarbind \/ ValidateVarbind \/ GetBadVarbind \/ GetLoopEnd
            \/ SetTestVarbind \/ SetTest \/ SetTestTooLong \/ SetTestEnd
            \/ SetCommitVarbind \/ SetCommit \/ SetCommitEnd
  BY <1>2, <1>15 DEF BulkLoopInv, BulkPhases, InformVarbind, GetVarbind, ValidateVarbind,
       GetBadVarbind, GetLoopEnd, SetTestVarbind, SetTest, SetTestTooLong, SetTestEnd,
       SetCommitVarbind, SetCommit, SetCommitEnd
<1>16. CASE Vanish
  BY <1>16 DEF Vanish
<1>17. CASE UNCHANGED vars
  <2>1. UNCHANGED <<req, pc, ret, error_status, out, varbind_count, cur, bulk>>
    BY <1>17 DEF vars, loopVars, outerVars, given
  <2>2. /\ Prefix' <=> Prefix
        /\ NextTooBig' <=> NextTooBig
        /\ BulkResult(error_status, out)' <=> BulkResult(error_status, out)
        /\ \A k : Through(k)' = Through(k)
        /\ N' = N /\ R' = R /\ Names' = Names
        /\ \A o, getNext : Served(o, getNext)' = Served(o, getNext)
    BY <2>1, PrefixStays, BulkStays, ReferenceStays
  <2>3. /\ FirstPart(0)' <=> FirstPart(0)
        /\ FirstPart(varbind_count)' <=> FirstPart(varbind_count)
        /\ Repetition' <=> Repetition
        /\ BetweenRepetitions' <=> BetweenRepetitions
        /\ RepetitionCount' = RepetitionCount
    BY <2>1, <2>2 DEF FirstPart, Repetition, BetweenRepetitions, Begun, RepetitionCount, OutOffset
  <2>4. /\ InnerProgress' <=> InnerProgress
        /\ AfterProgress' <=> AfterProgress
        /\ BulkValueProgress' <=> BulkValueProgress
    BY <2>1, <2>2, <2>3 DEF InnerProgress, AfterProgress, BulkValueProgress, PastEnd, FoundFor
  <2> QED
    BY <1>2, <2>1, <2>2, <2>3, <2>4 DEF BulkLoopInv, BulkPhases
<1> QED
  BY <1>3, <1>4, <1>5, <1>6, <1>7, <1>8, <1>9, <1>10, <1>11, <1>12, <1>13, <1>14, <1>15,
     <1>16, <1>17 DEF Next, Receive

\* The responses to a GETBULK are right.
BulkRepliesRight ==
  \A r \in ToSet(reply) : req.type = "getBulk" => BulkResult(r.status, r.varbinds)

\* The steps of a GETBULK and what they send.
LEMMA BulkRepliesRightStep ==
  ASSUME ~MibChanges, IInv, req \in Requests, BulkAnswerInv, BulkRepliesRight, [Next]_vars
  PROVE  BulkAnswerInv' /\ BulkRepliesRight'
<1>1. /\ TypeOK /\ HeldInv /\ AuthInv /\ TypeOK'
      /\ present = DOMAIN Mib /\ present' = present /\ Capacity \in Nat
  BY MibStays, IInvStep, ConstantsAssumption DEF IInv, ConstantsAssumption
<1>2. BulkAnswerInv'
  BY <1>1, BulkAnswerStep
<1>3. req' = req
  BY RequestStays
<1>4. \A status, varbinds : BulkResult(status, varbinds)' <=> BulkResult(status, varbinds)
  <2>1. /\ \A p : BulkVarbind(p)' = BulkVarbind(p)
        /\ \A k : Through(k)' = Through(k)
        /\ N' = N /\ R' = R
    BY <1>3, BulkStays
  <2> QED
    BY <1>3, <2>1 DEF BulkResult
<1>5. ASSUME \A r \in ToSet(reply') : req.type = "getBulk" => BulkResult(r.status, r.varbinds)
      PROVE  BulkRepliesRight'
  <2>1. ASSUME NEW r \in ToSet(reply')
        PROVE  req'.type = "getBulk" => BulkResult(r.status, r.varbinds)'
    BY <1>3, <1>4, <1>5, <2>1
  <2> QED
    BY <2>1 DEF BulkRepliesRight
<1>6. CASE reply' = reply
  BY <1>2, <1>5, <1>6 DEF BulkRepliesRight
<1>7. CASE Send
  <2>1. pc = "send"
    BY <1>7 DEF Send
  <2>2. req.type = "getBulk" => BulkResult(error_status, out)
    BY <2>1 DEF BulkAnswerInv, BulkLoopInv
  <2>3. ToSet(reply') \subseteq {[status |-> error_status, index |-> error_index, varbinds |-> out]}
    BY <1>1, <1>7, SentResponse
  <2> QED
    BY <1>2, <1>5, <2>2, <2>3
<1> QED
  BY <1>2, <1>6, <1>7
     DEF Next, Receive, vars, loopVars, outerVars, given,
         ParseBadCommunity, ParseV1Bulk, ParseAccept, InformVarbind, Prepare,
         ValidateVarbind, VarbindValue, MalformedVarbind, GetVarbind, GetBadVarbind, GetLoopEnd,
         BulkFirstVarbind, BulkFirstBadVarbind, BulkFirstEnd, BulkLoop,
         BulkInnerVarbind, BulkInnerHeader, BulkAfter, BulkInnerEnd,
         SetTestVarbind, SetTest, SetTestTooLong, SetTestEnd, SetCommitVarbind,
         SetCommit, SetCommitEnd, Complete, WriteCallbacks, Free, Vanish

\* At first nothing is answered.
LEMMA BulkRepliesRightInit == Init => BulkAnswerInv /\ BulkRepliesRight
<1>1. ToSet(<<>>) = {}
  BY DEF ToSet
<1> QED
  BY <1>1 DEF Init, BulkAnswerInv, BulkLoopInv, BulkPhases, BulkRepliesRight

BulksInv == ~MibChanges => BulkAnswerInv /\ BulkRepliesRight

\* For every MIB, any numbers of non-repeaters, of repetitions and of varbinds and
\* any room for the response, unless the MIB changes during the request: a GETBULK is
\* answered with the varbinds RFC 1905 asks for, in order and no more, and the response
\* ends early only where the next one does not fit or a whole repetition was past the
\* end of the MIB (snmp_process_getbulk_request()).
THEOREM BulkAnswersAreMaximal == Spec => []BulkAnswerIsMaximalPrefix
<1>1. Init => IInv /\ req \in Requests
  BY IInvInit
<1>2. IInv /\ req \in Requests /\ [Next]_vars => (IInv /\ req \in Requests)'
  BY IInvStep
<1>3. Init => BulksInv
  BY BulkRepliesRightInit DEF BulksInv
<1>4. IInv /\ req \in Requests /\ BulksInv /\ [Next]_vars => BulksInv'
  BY BulkRepliesRightStep, RequestStays DEF BulksInv
<1>5. BulksInv => BulkAnswerIsMaximalPrefix
  BY DEF BulksInv, BulkRepliesRight, BulkResult, BulkAnswerIsMaximalPrefix, Through
<1> QED
  BY <1>1, <1>2, <1>3, <1>4, <1>5, PTL DEF Spec

-----------------------------------------------------------------------------
(* The error-index.                                                        *)

\* An answer adds one varbind at most to the response.
LEMMA AppendLength ==
  ASSUME out \in Seq(Varbinds), NEW vb, vb \in Varbinds, AppendVarbind(vb)
  PROVE  Len(out') = Len(out) \/ Len(out') = Len(out) + 1
BY DEF AppendVarbind

\* A lookup goes on with the value, or with one answer more at most.
LEMMA LookupLength ==
  ASSUME out \in Seq(Varbinds), NEW name \in Nat, NEW phase, LookupVarbind(name, TRUE, phase)
  PROVE  \/ pc' = "value" /\ ret' = phase /\ out' = out
         \/ pc' = phase /\ (Len(out') = Len(out) \/ Len(out') = Len(out) + 1)
<1> DEFINE vb == [name |-> name, val |-> NextResult(name), size |-> 1]
<1>1. NextResult(name) \in Exceptions => vb \in Varbinds
  BY DEF Varbinds
<1>2. \/ pc' = "value" /\ ret' = phase /\ out' = out
      \/ pc' = phase /\ (out' = out \/ (NextResult(name) \in Exceptions /\ AppendVarbind(vb)))
  BY DEF LookupVarbind, NoVarbind
<1> QED
  BY <1>1, <1>2, AppendLength

\* So does the value of an instance.
LEMMA ValueLength ==
  ASSUME TypeOK, BulkInv, VarbindValue
  PROVE  Len(out') = Len(out) \/ Len(out') = Len(out) + 1
<1> DEFINE vb == [name |-> cur, val |-> "value", size |-> Mib[cur].size]
<1>1. cur \in DOMAIN Mib
  BY DEF VarbindValue, BulkInv, Holding
<1>2. cur \in Nat /\ Mib[cur].size \in Nat
  BY <1>1, ConstantsAssumption DEF ConstantsAssumption
<1>3. vb \in Varbinds
  BY <1>2 DEF Varbinds
<1>4. AppendVarbind(vb) \/ out' = out
  BY DEF VarbindValue
<1> QED
  BY <1>3, <1>4, AppendLength DEF TypeOK

\* The steps of a request that is no GETBULK: none changes the index.
LEMMA RequestIndexStep ==
  ASSUME TypeOK, AuthInv, HeldInv, req \in Requests, IndexInv, req.type # "getBulk", [Next]_vars
  PROVE  IndexInv'
<1>1. /\ req' = req
      /\ pc \notin {"bulkFirst", "bulkLoop", "bulkInner", "bulkAfter"}
      /\ pc \in {"validate", "value"} => ret = "get"
      /\ pc \in IndexKept => error_index = req.errorIndex
  BY RequestStays DEF IndexInv
<1>2. CASE /\ error_index' = error_index /\ {pc, pc'} \subseteq {"get", "validate", "value"}
           /\ pc' \in {"validate", "value"} => ret' = "get"
  BY <1>1, <1>2 DEF IndexInv, IndexKept
<1>3. CASE pc' \in {"done", "free", "send", "callbacks"}
  BY <1>1, <1>3 DEF IndexInv, IndexKept
<1>4. CASE ParseAccept
  BY <1>1, <1>4 DEF ParseAccept, IndexInv, IndexKept
<1>5. CASE Prepare
  <2>1. req.type \in {"get", "getNext", "set"}
    BY <1>5, RequestType DEF Prepare, AuthInv
  <2> QED
    BY <1>1, <1>5, <2>1 DEF Prepare, PhaseOf, IndexInv, IndexKept, loopVars
<1>6. CASE GetVarbind
  <2>1. /\ pc' \in {"value", "validate", "get"}
        /\ pc' \in {"value", "validate"} => ret' = "get"
        /\ error_index' = error_index /\ pc = "get"
    BY <1>6 DEF GetVarbind, LookupVarbind
  <2> QED
    BY <1>2, <2>1
<1>7. CASE VarbindValue
  BY <1>1, <1>2, <1>7 DEF VarbindValue
<1>8. CASE UNCHANGED <<pc, ret, error_index>>
  BY <1>1, <1>8 DEF IndexInv
<1>9. CASE InformVarbind
  BY <1>1, <1>9 DEF InformVarbind, IndexInv, IndexKept
<1>10. CASE SetTestEnd
  BY <1>1, <1>10 DEF SetTestEnd, IndexInv, IndexKept
<1>11. CASE GetLoopEnd \/ SetCommitEnd
  BY <1>1, <1>11 DEF GetLoopEnd, SetCommitEnd, IndexInv, IndexKept, loopVars
<1>12. CASE MalformedVarbind \/ ParseBadCommunity \/ ParseV1Bulk \/ Complete \/ Send \/ WriteCallbacks \/ Free
  BY <1>3, <1>12 DEF MalformedVarbind, ParseBadCommunity, ParseV1Bulk, Complete, Send,
                     WriteCallbacks, Free
<1>13. CASE GetBadVarbind \/ SetTestTooLong \/ Vanish
  BY <1>8, <1>13 DEF GetBadVarbind, SetTestTooLong, Vanish, loopVars
<1>16. CASE SetTestVarbind \/ SetTest \/ SetCommitVarbind \/ SetCommit
  <2>1. /\ error_index' = error_index /\ ret' = ret
        /\ {pc, pc'} \subseteq {"setTest", "test", "setCommit", "commit"}
    BY <1>16 DEF SetTestVarbind, SetTest, SetCommitVarbind, SetCommit, SetLookup
  <2> QED
    BY <1>1, <2>1 DEF IndexInv, IndexKept
<1>17. CASE ValidateVarbind
  BY <1>1, <1>2, <1>17 DEF ValidateVarbind
<1>14. CASE UNCHANGED vars
  BY <1>8, <1>14 DEF vars, loopVars
<1>15. CASE \/ BulkFirstVarbind \/ BulkFirstBadVarbind \/ BulkFirstEnd \/ BulkLoop
            \/ BulkInnerVarbind \/ BulkInnerHeader \/ BulkAfter \/ BulkInnerEnd
  BY <1>1, <1>15 DEF BulkFirstVarbind, BulkFirstBadVarbind, BulkFirstEnd, BulkLoop,
       BulkInnerVarbind, BulkInnerHeader, BulkAfter, BulkInnerEnd
<1> QED
  BY <1>4, <1>5, <1>6, <1>7, <1>9, <1>10, <1>11, <1>12, <1>13, <1>14, <1>15,
     <1>16, <1>17 DEF Next, Receive

\* The first loop of a GETBULK reads a varbind for every answer.
LEMMA FirstCountsStep ==
  ASSUME TypeOK, TypeOK', BulkInv, req \in Requests, req' = req, BulkCounts,
         \/ BulkFirstVarbind \/ BulkFirstBadVarbind \/ BulkFirstEnd
         \/ VarbindValue /\ ret = "bulkFirst"
  PROVE  BulkCounts'
<1>1. /\ out \in Seq(Varbinds) /\ Len(out) \in Nat /\ Len(out') \in Nat
      /\ varbind_count \in Nat /\ bulk \in Bulks /\ bulk' \in Bulks
      /\ varbind_count <= Len(req.varbinds) /\ Len(req.varbinds) \in Nat
      /\ bulk.off \in Nat /\ bulk'.off \in Nat
  <2>1. Len(req.varbinds) \in Nat
    BY RequestType
  <2>2. bulk \in Bulks /\ bulk' \in Bulks
    BY DEF TypeOK
  <2>3. bulk.off \in Nat /\ bulk'.off \in Nat
    BY <2>2 DEF Bulks
  <2>4. varbind_count \in 0 .. Len(req.varbinds)
    BY DEF TypeOK
  <2>5. out \in Seq(Varbinds) /\ out' \in Seq(Varbinds)
    BY DEF TypeOK
  <2>6. Len(out) \in Nat /\ Len(out') \in Nat
    BY <2>5
  <2>7. varbind_count \in Nat /\ varbind_count <= Len(req.varbinds)
    BY <2>1, <2>4
  <2> QED
    BY <2>1, <2>2, <2>3, <2>5, <2>6, <2>7
<1>2. EnterRepeaters.off \in {bulk.off, Len(out) + 1}
  BY <1>1 DEF EnterRepeaters, OutOffset, Bulks
<1>3. CASE BulkFirstVarbind
  <2>1. /\ pc = "bulkFirst" /\ varbind_count' = varbind_count + 1
        /\ LookupVarbind(InboundVarbind.name, TRUE, "bulkFirst")
        /\ ~EndOfVarbinds /\ bulk' = [EnterRepeaters EXCEPT !.nonrep = @ - 1]
    BY <1>3 DEF BulkFirstVarbind, NextInbound, LoopEnds
  <2>2. InboundVarbind.name \in Nat
    BY <2>1, InboundType DEF TypeOK
  <2>3. \/ pc' = "value" /\ ret' = "bulkFirst" /\ Len(out') = Len(out)
        \/ pc' = "bulkFirst" /\ (Len(out') = Len(out) \/ Len(out') = Len(out) + 1)
    BY <1>1, <2>1, <2>2, LookupLength
  <2>4. Len(out) <= varbind_count /\ bulk.off <= Len(out) + 1
    BY <2>1 DEF BulkCounts
  <2>5. bulk'.off <= Len(out') + 1
    <3>1. bulk'.off \in {bulk.off, Len(out) + 1}
      BY <1>1, <1>2, <2>1, EnterRepeatersType DEF Bulks
    <3> QED
      BY <1>1, <2>3, <2>4, <3>1
  <2>6. /\ pc' = "value" => Len(out') < varbind_count'
        /\ pc' = "bulkFirst" => Len(out') <= varbind_count'
    BY <1>1, <2>1, <2>3, <2>4
  <2> QED
    BY <2>3, <2>5, <2>6 DEF BulkCounts
<1>4. CASE BulkFirstBadVarbind
  <2>1. /\ pc = "bulkFirst" /\ pc' = pc /\ out' = out /\ varbind_count' = varbind_count + 1
        /\ bulk' = EnterRepeaters /\ Len(out) <= varbind_count /\ bulk.off <= Len(out) + 1
    BY <1>4 DEF BulkFirstBadVarbind, NextInbound, BulkCounts
  <2>2. bulk'.off <= Len(out') + 1
    <3>1. bulk'.off \in {bulk.off, Len(out) + 1} /\ Len(out') = Len(out)
      BY <1>2, <2>1
    <3> QED
      BY <1>1, <2>1, <3>1
  <2>3. Len(out') <= varbind_count'
    BY <1>1, <2>1
  <2> QED
    BY <2>1, <2>2, <2>3 DEF BulkCounts
<1>5. CASE BulkFirstEnd
  <2>1. /\ pc = "bulkFirst" /\ pc' = "bulkLoop" /\ out' = out
        /\ Len(out) <= varbind_count /\ bulk.off <= Len(out) + 1
        /\ bulk' \in {bulk, [bulk EXCEPT !.off = OutOffset], EnterRepeaters}
    BY <1>5 DEF BulkFirstEnd, BulkCounts, loopVars
  <2>2. bulk'.off \in {bulk.off, Len(out) + 1}
    BY <1>1, <1>2, <2>1 DEF Bulks, OutOffset
  <2>3. bulk'.off <= Len(out) + 1 /\ (bulk'.off = 0 \/ Len(out) < bulk'.off + Len(req.varbinds))
    BY <1>1, <2>1, <2>2
  <2> QED
    BY <2>1, <2>3 DEF BulkCounts, HeaderOffset
<1>6. CASE VarbindValue /\ ret = "bulkFirst"
  <2>1. /\ pc = "value" /\ pc' = "bulkFirst" /\ varbind_count' = varbind_count
        /\ Len(out) < varbind_count /\ bulk' = bulk /\ bulk.off <= Len(out) + 1
    BY <1>6 DEF VarbindValue, BulkCounts
  <2>2. Len(out') = Len(out) \/ Len(out') = Len(out) + 1
    BY <1>6, ValueLength
  <2> QED
    BY <1>1, <2>1, <2>2 DEF BulkCounts
<1> QED
  BY <1>3, <1>4, <1>5, <1>6

\* A repetition of a GETBULK reads a varbind for every answer.
LEMMA RepetitionCountsStep ==
  ASSUME TypeOK, TypeOK', BulkInv, req \in Requests, req' = req, BulkCounts,
         \/ BulkLoop \/ BulkInnerVarbind \/ BulkAfter \/ BulkInnerEnd \/ BulkInnerHeader
         \/ VarbindValue /\ ret = "bulkAfter"
  PROVE  BulkCounts'
<1>1. /\ out \in Seq(Varbinds) /\ Len(out) \in Nat /\ Len(out') \in Nat
      /\ bulk \in Bulks /\ bulk' \in Bulks /\ Len(req.varbinds) \in Nat
  BY RequestType DEF TypeOK
<1>2. PICK f \in Nat, l \in Nat, p \in Nat, off \in Nat, len \in Nat, count \in Nat :
        /\ f = bulk.first /\ l = bulk.last /\ p = bulk.next /\ off = bulk.off
        /\ len = Len(out) /\ count = Len(req.varbinds)
  BY <1>1, BulkFields
<1>3. CASE BulkLoop
  <2>1. \/ pc' = "complete"
        \/ /\ pc = "bulkLoop" /\ error_status = "noError" /\ pc' = "bulkInner" /\ out' = out
           /\ bulk' = [bulk EXCEPT !.first = bulk.off, !.next = bulk.off,
                                   !.last = Len(out), !.off = OutOffset, !.allEnd = TRUE]
    BY <1>3 DEF BulkLoop
  <2>2. CASE pc' = "complete"
    BY <2>2 DEF BulkCounts
  <2>3. CASE pc' # "complete"
    <3>1. /\ bulk'.first = off /\ bulk'.next = off /\ bulk'.last = len
          /\ bulk'.off = len + 1
      BY <1>1, <1>2, <2>1, <2>3 DEF Bulks, OutOffset
    <3>2. off <= len + 1 /\ (off # HeaderOffset => len < off + count)
      BY <1>2, <2>1, <2>3 DEF BulkCounts
    <3>3. len + 1 <= len + (off - off) + 1 /\ off <= off
      BY <1>2
    <3>4. RepetitionCounts(1)'
      BY <1>2, <2>1, <2>3, <3>1, <3>2, <3>3 DEF RepetitionCounts
    <3> QED
      BY <2>1, <2>3, <3>4 DEF BulkCounts
  <2> QED
    BY <2>2, <2>3
<1>4. CASE BulkInnerVarbind
  <2>1. /\ pc = "bulkInner" /\ bulk.first # HeaderOffset /\ p <= l
        /\ bulk' = [bulk EXCEPT !.next = @ + 1]
        /\ LookupVarbind(out[bulk.next].name, TRUE, "bulkAfter")
    BY <1>2, <1>4 DEF BulkInnerVarbind
  <2>2. /\ l < f + count /\ f <= p /\ off = l + 1 /\ len + 1 <= l + (p - f) + 1
        /\ p <= l /\ f # 0
    BY <1>2, <2>1 DEF BulkCounts, RepetitionCounts, HeaderOffset
  <2>3. out[bulk.next].name \in Nat
    <3>1. bulk.next >= 1 /\ bulk.last <= Len(out)
      <4>1. f >= 1 /\ p >= 1
        BY <2>2
      <4> QED
        BY <1>2, <2>1, <4>1 DEF BulkInv
    <3>2. bulk.next \in 1 .. Len(out)
      BY <1>2, <2>1, <3>1
    <3>3. out[bulk.next] \in Varbinds
      BY <1>1, <3>2
    <3> QED
      BY <3>3 DEF Varbinds
  <2>4. \/ pc' = "value" /\ ret' = "bulkAfter" /\ Len(out') = len
        \/ pc' = "bulkAfter" /\ (Len(out') = len \/ Len(out') = len + 1)
    BY <1>1, <1>2, <2>1, <2>3, LookupLength
  <2>5. /\ bulk'.first = f /\ bulk'.next = p + 1 /\ bulk'.last = l /\ bulk'.off = off
    BY <1>1, <1>2, <2>1 DEF Bulks
  <2>6. /\ f <= p + 1 /\ p + 1 <= l + 1 /\ len + 1 <= l + ((p + 1) - f) + 0
        /\ (len + 1) + 1 <= l + ((p + 1) - f) + 1 /\ len + 1 <= l + ((p + 1) - f) + 1
    BY <2>2
  <2>7. /\ pc' = "value" => RepetitionCounts(0)'
        /\ pc' = "bulkAfter" => RepetitionCounts(1)'
    BY <1>2, <2>2, <2>4, <2>5, <2>6 DEF RepetitionCounts
  <2> QED
    BY <1>2, <2>1, <2>4, <2>5, <2>7 DEF BulkCounts
<1>5. CASE BulkAfter
  <2>1. /\ pc = "bulkAfter" /\ out' = out /\ error_status' = error_status
        /\ \/ error_status # "noError" /\ pc' = "bulkLoop"
           \/ pc' = "bulkInner" /\ bulk' = [bulk EXCEPT !.allEnd = @ /\ Last(out).val = "endOfMibView"]
    BY <1>5 DEF BulkAfter
  <2>2. pc' = "bulkInner" => /\ bulk'.first = bulk.first /\ bulk'.next = bulk.next
                             /\ bulk'.last = bulk.last /\ bulk'.off = bulk.off
    BY <1>1, <2>1 DEF Bulks
  <2>3. pc' = "bulkInner" => RepetitionCounts(1)'
    BY <2>1, <2>2 DEF BulkCounts, RepetitionCounts
  <2> QED
    BY <2>1, <2>3 DEF BulkCounts
<1>6. CASE BulkInnerEnd
  <2>1. /\ pc = "bulkInner" /\ out' = out /\ bulk.first # HeaderOffset /\ p > l
        /\ \/ pc' = "complete"
           \/ pc' = "bulkLoop" /\ bulk' = [bulk EXCEPT !.reps = @ - 1]
    BY <1>2, <1>6 DEF BulkInnerEnd, loopVars
  <2>2. /\ l < f + count /\ off = l + 1 /\ p <= l + 1 /\ len + 1 <= l + (p - f) + 1 /\ l <= len
        /\ p > l
    BY <1>2, <2>1 DEF BulkCounts, RepetitionCounts, BulkInv
  <2>3. off <= len + 1 /\ len < off + count
    BY <2>2
  <2>4. pc' = "bulkLoop" => bulk'.off = off
    BY <1>1, <1>2, <2>1 DEF Bulks
  <2> QED
    BY <1>2, <2>1, <2>3, <2>4 DEF BulkCounts
<1>7. CASE BulkInnerHeader
  BY <1>7 DEF BulkInnerHeader, BulkCounts
<1>8. CASE VarbindValue /\ ret = "bulkAfter"
  <2>1. /\ pc = "value" /\ pc' = "bulkAfter" /\ bulk' = bulk
    BY <1>8 DEF VarbindValue
  <2>2. Len(out') = len \/ Len(out') = len + 1
    BY <1>2, <1>8, ValueLength
  <2>3. RepetitionCounts(0)
    BY <1>8, <2>1 DEF BulkCounts
  <2>4. f # HeaderOffset => /\ l < f + count /\ f <= p /\ p <= l + 1 /\ off = l + 1
                            /\ len + 1 <= l + (p - f) + 0
    BY <1>2, <2>3 DEF RepetitionCounts
  <2>5. PICK len2 \in Nat : len2 = Len(out') /\ (len2 = len \/ len2 = len + 1)
    BY <2>2
  <2>6. f # HeaderOffset => len2 + 1 <= l + (p - f) + 1
    BY <2>4, <2>5
  <2>7. RepetitionCounts(1)'
    BY <1>2, <2>1, <2>4, <2>5, <2>6 DEF RepetitionCounts
  <2>8. bulk'.first # HeaderOffset
    BY <1>8, <2>1 DEF BulkCounts
  <2> QED
    BY <2>1, <2>7, <2>8 DEF BulkCounts
<1> QED
  BY <1>3, <1>4, <1>5, <1>6, <1>7, <1>8

\* The steps of a GETBULK: its index counts no more varbinds than it has.
LEMMA BulkIndexStep ==
  ASSUME TypeOK, TypeOK', AuthInv, HeldInv, BulkInv, req \in Requests, IndexInv,
         req.type = "getBulk", [Next]_vars
  PROVE  IndexInv'
<1>1. /\ req' = req /\ BulkCounts
      /\ pc \in BulkPhases \cup {"parse", "prepare", "send", "free", "done"}
      /\ pc = "value" => ret # "get"
      /\ pc \in BulkPhases \cup {"prepare"} =>
           error_index \in 0 .. req.nonRepeaters + Len(req.varbinds) + 1
      /\ req.nonRepeaters \in Nat /\ Len(req.varbinds) \in Nat
  BY RequestStays, RequestType DEF IndexInv
<1>2. ASSUME BulkCounts', pc' \in BulkPhases \cup {"prepare"}, pc' = "value" => ret' # "get",
             \/ error_index' = error_index /\ pc \in BulkPhases \cup {"prepare"}
             \/ error_index' \in 0 .. req.nonRepeaters + Len(req.varbinds) + 1
      PROVE  IndexInv'
  BY <1>1, <1>2 DEF IndexInv
<1>3. CASE ParseAccept \/ Prepare
  <2>1. BulkCounts' /\ pc' # "value"
    <3>1. CASE ParseAccept
      <4>1. /\ pc = "parse" /\ pc' = "prepare" /\ UNCHANGED <<out, varbind_count>>
            /\ bulk' = [bulk EXCEPT !.nonrep = req.nonRepeaters, !.reps = req.maxRepetitions]
        BY <3>1 DEF ParseAccept
      <4>2. bulk'.off = bulk.off
        BY <4>1 DEF Bulks, TypeOK
      <4> QED
        BY <1>1, <4>1, <4>2 DEF BulkCounts
    <3>2. CASE Prepare
      <4>1. /\ pc = "prepare" /\ pc' \in {"bulkFirst", "complete", "done"}
            /\ UNCHANGED <<out, varbind_count, bulk>>
        BY <3>2 DEF Prepare, PhaseOf, loopVars
      <4>2. out = <<>> /\ varbind_count = 0 /\ bulk.off = 0
        BY <1>1, <4>1 DEF BulkCounts, HeaderOffset
      <4>3. Len(out') = 0 /\ varbind_count' = 0 /\ bulk'.off = 0
        BY <4>1, <4>2
      <4> QED
        BY <4>1, <4>3 DEF BulkCounts
    <3> QED
      BY <1>3, <3>1, <3>2
  <2>2. CASE pc' = "done"
    BY <1>1, <2>1, <2>2 DEF IndexInv, BulkPhases
  <2>3. CASE pc' # "done"
    <3>1. /\ pc' \in BulkPhases \cup {"prepare"}
          /\ error_index' = 0 \/ (error_index' = error_index /\ pc = "prepare")
      BY <1>3, <2>3 DEF ParseAccept, Prepare, PhaseOf, loopVars, BulkPhases
    <3>2. 0 \in 0 .. req.nonRepeaters + Len(req.varbinds) + 1
      BY <1>1
    <3> QED
      BY <1>2, <2>1, <3>1, <3>2
  <2> QED
    BY <2>2, <2>3
<1>4. CASE \/ BulkFirstVarbind \/ BulkFirstBadVarbind \/ BulkFirstEnd
           \/ VarbindValue /\ ret = "bulkFirst"
  <2>1. BulkCounts'
    BY <1>1, <1>4, FirstCountsStep
  <2>2. /\ pc' \in BulkPhases /\ (pc' = "value" => ret' # "get")
        /\ error_index' = error_index /\ pc \in BulkPhases
    BY <1>4 DEF BulkFirstVarbind, BulkFirstBadVarbind, BulkFirstEnd, VarbindValue, LookupVarbind,
                loopVars, BulkPhases
  <2> QED
    BY <1>2, <2>1, <2>2
<1>5. CASE BulkLoop \/ BulkInnerVarbind \/ BulkInnerEnd \/ (VarbindValue /\ ret = "bulkAfter")
  <2>1. BulkCounts'
    BY <1>1, <1>5, RepetitionCountsStep
  <2>2. /\ pc' \in BulkPhases /\ (pc' = "value" => ret' # "get")
        /\ error_index' = error_index /\ pc \in BulkPhases
    BY <1>5 DEF BulkLoop, BulkInnerVarbind, BulkInnerEnd, VarbindValue, LookupVarbind,
                loopVars, BulkPhases
  <2> QED
    BY <1>2, <2>1, <2>2
<1>6. CASE BulkInnerHeader \/ BulkAfter
  <2>1. BulkCounts'
    BY <1>1, <1>6, RepetitionCountsStep
  <2>2. /\ pc' \in {"bulkLoop", "bulkInner"} /\ pc \in BulkPhases
        /\ \/ error_index' = error_index \/ error_index' = req.nonRepeaters + 1
           \/ pc = "bulkAfter" /\ error_index' = req.nonRepeaters + RepetitionCount
    BY <1>6 DEF BulkInnerHeader, BulkAfter, BulkPhases
  <2>3. pc = "bulkAfter" => RepetitionCount \in 0 .. Len(req.varbinds)
    <3>1. PICK f \in Nat, l \in Nat, p \in Nat, count \in Nat :
            f = bulk.first /\ l = bulk.last /\ p = bulk.next /\ count = Len(req.varbinds)
      BY <1>1, BulkFields DEF TypeOK
    <3>2. pc = "bulkAfter" => l < f + count /\ f <= p /\ p <= l + 1
      BY <1>1, <3>1 DEF BulkCounts, RepetitionCounts
    <3>3. pc = "bulkAfter" => p - f \in 0 .. count
      BY <3>2
    <3> QED
      BY <3>1, <3>3 DEF RepetitionCount
  <2>4. PICK nonreps \in Nat, count \in Nat :
          nonreps = req.nonRepeaters /\ count = Len(req.varbinds)
    BY <1>1
  <2>5. /\ nonreps + 1 \in 0 .. nonreps + count + 1
        /\ \A k \in 0 .. count : nonreps + k \in 0 .. nonreps + count + 1
    OBVIOUS
  <2>6. error_index' = error_index \/ error_index' \in 0 .. nonreps + count + 1
    BY <2>2, <2>3, <2>4, <2>5
  <2> QED
    BY <1>2, <2>1, <2>2, <2>4, <2>6 DEF BulkPhases
<1>7. CASE pc' \in {"done", "free", "send"}
  BY <1>1, <1>7 DEF IndexInv, BulkCounts, BulkPhases
<1>8. CASE ParseBadCommunity \/ ParseV1Bulk \/ MalformedVarbind \/ Complete \/ Send \/ WriteCallbacks \/ Free
  <2>1. pc' \in {"done", "free", "send"}
    BY <1>1, <1>8 DEF ParseBadCommunity, ParseV1Bulk, MalformedVarbind, Complete, Send,
                      WriteCallbacks, Free, WriteCallbacksFollow
  <2> QED
    BY <1>7, <2>1
<1>9. CASE Vanish \/ UNCHANGED vars
  <2>1. UNCHANGED <<pc, ret, error_index, error_status, varbind_count, out, bulk>>
    BY <1>9 DEF Vanish, vars, loopVars
  <2>2. BulkCounts'
    BY <1>1, <2>1 DEF BulkCounts, RepetitionCounts
  <2> QED
    BY <1>1, <2>1, <2>2 DEF IndexInv
<1>10. CASE \/ InformVarbind \/ GetVarbind \/ GetBadVarbind \/ GetLoopEnd
            \/ ValidateVarbind \/ SetTestVarbind \/ SetTest \/ SetTestTooLong \/ SetTestEnd
            \/ SetCommitVarbind \/ SetCommit \/ SetCommitEnd
  BY <1>1, <1>10 DEF BulkPhases, InformVarbind, GetVarbind, GetBadVarbind, GetLoopEnd,
       ValidateVarbind, SetTestVarbind, SetTest, SetTestTooLong, SetTestEnd, SetCommitVarbind,
       SetCommit, SetCommitEnd
<1>11. pc = "value" => ret \in {"bulkFirst", "bulkAfter"}
  BY <1>1 DEF HeldInv
<1>12. VarbindValue => ret \in {"bulkFirst", "bulkAfter"}
  BY <1>11 DEF VarbindValue
<1> QED
  BY <1>3, <1>4, <1>5, <1>6, <1>8, <1>9, <1>10, <1>12 DEF Next, Receive

\* A request whose index fits can be completed.
LEMMA CompleteAnswers ==
  ASSUME IInv, VersionInv, IndexInv, req \in Requests, IndexFits, IndexIsZero, Complete
  PROVE  pc' = "send"
<1>1. TypeOK /\ AuthInv /\ StatusFits /\ pc = "complete" /\ error_status \in Statuses
  BY DEF IInv, VersionInv, TypeOK, Complete
<1>2. FinalStatus \notin Exceptions
  <2>1. req.version # "v1" /\ req.type # "set" => error_status \notin Exceptions
    BY <1>1 DEF StatusFits
  <2>2. req.version = "v1" => FinalStatus \in V1Statuses
    BY <2>1, FinalStatusFits
  <2>3. V1Statuses \cap Exceptions = {} /\ "notWritable" \notin Exceptions
    BY DEF V1Statuses, Exceptions
  <2> QED
    BY <2>1, <2>2, <2>3 DEF FinalStatus
<1>3. FinalIndex <= MaxErrorIndex
  <2>1. /\ varbind_count \in 0 .. Len(req.varbinds) /\ Len(req.varbinds) \in Nat
        /\ req.nonRepeaters \in Nat /\ MaxErrorIndex \in Nat
    BY <1>1, RequestType, ConstantsAssumption DEF TypeOK, ConstantsAssumption
  <2>2. FinalIndex \in {error_index, 0, varbind_count}
    BY DEF FinalIndex
  <2>3. CASE req.type = "getBulk"
    <3>1. error_index \in 0 .. req.nonRepeaters + Len(req.varbinds) + 1
      BY <1>1, <2>3 DEF IndexInv, BulkPhases
    <3>2. req.nonRepeaters + Len(req.varbinds) < MaxErrorIndex
      BY <2>3 DEF IndexFits
    <3> QED
      BY <2>1, <2>2, <3>1, <3>2
  <2>4. CASE req.type # "getBulk"
    <3>1. error_index = 0 /\ Len(req.varbinds) <= MaxErrorIndex
      BY <1>1, <2>4 DEF IndexInv, IndexKept, IndexFits, IndexIsZero
    <3> QED
      BY <2>1, <2>2, <3>1
  <2> QED
    BY <2>3, <2>4
<1>4. FinalIndex \in Int
  <2>1. FinalIndex \in {error_index, 0, varbind_count}
    BY DEF FinalIndex
  <2>2. error_index \in Int /\ varbind_count \in Int
    <3>1. varbind_count \in 0 .. Len(req.varbinds) /\ Len(req.varbinds) \in Nat
      BY <1>1, RequestType DEF TypeOK
    <3> QED
      BY <1>1, <3>1 DEF TypeOK
  <2> QED
    BY <2>1, <2>2
<1>5. ~(FinalIndex > MaxErrorIndex)
  BY <1>3, <1>4, ConstantsAssumption DEF ConstantsAssumption
<1> QED
  BY <1>2, <1>5 DEF Complete

\* At first nothing is processed.
LEMMA IndexInvInit == Init => VersionInv /\ IndexInv
<1>1. Init => VersionInv
  BY DEF Init, VersionInv, OutFits, StatusFits, ResponseFitsVersion, ToSet, Exceptions
<1>2. Init => IndexInv
  BY DEF Init, IndexInv, BulkCounts, HeaderOffset, BulkPhases, IndexKept
<1> QED
  BY <1>1, <1>2

\* Every step counts right.
LEMMA IndexInvStep ==
  ASSUME IInv, req \in Requests, VersionInv, IndexInv, [Next]_vars
  PROVE  VersionInv' /\ IndexInv'
<1>1. TypeOK /\ AuthInv /\ HeldInv /\ BulkInv
  BY DEF IInv
<1>2. TypeOK'
  BY IInvStep DEF IInv
<1>3. VersionInv'
  BY VersionInvStep
<1>4. CASE req.type = "getBulk"
  BY <1>1, <1>2, <1>3, <1>4, BulkIndexStep
<1>5. CASE req.type # "getBulk"
  BY <1>1, <1>3, <1>5, RequestIndexStep
<1> QED
  BY <1>4, <1>5

\* A step from the end of the processing is the completion of the response.
LEMMA AnswerStep ==
  ASSUME IInv, req \in Requests, VersionInv, IndexInv, [Next]_vars
  PROVE  [pc = "complete" /\ IndexIsZero /\ IndexFits => pc' # "free"]_vars
<1> SUFFICES ASSUME Next, pc = "complete", IndexIsZero, IndexFits
             PROVE  pc' # "free"
  OBVIOUS
<1>1. CASE Complete
  BY <1>1, CompleteAnswers
<1>2. CASE Vanish
  BY <1>2 DEF Vanish
<1> QED
  BY <1>1, <1>2
     DEF Next, Receive,
         ParseBadCommunity, ParseV1Bulk, ParseAccept, InformVarbind, Prepare,
         ValidateVarbind, VarbindValue, MalformedVarbind, GetVarbind, GetBadVarbind, GetLoopEnd,
         BulkFirstVarbind, BulkFirstBadVarbind, BulkFirstEnd, BulkLoop,
         BulkInnerVarbind, BulkInnerHeader, BulkAfter, BulkInnerEnd,
         SetTestVarbind, SetTest, SetTestTooLong, SetTestEnd, SetCommitVarbind,
         SetCommit, SetCommitEnd, Send, WriteCallbacks, Free

\* For every MIB, changing or not, and every request with the error-index 0 whose
\* varbinds can be counted in the byte of the index, whatever the largest number it
\* holds: once it is processed it gets to snmp_sendto(), and no index or status the
\* loops leave behind makes the response fail to encode
\* (snmp_complete_outbound_frame()).
THEOREM ProcessedRequestsAreAnswered == Spec => ProcessedIsAnswered
<1>1. Init => IInv /\ req \in Requests
  BY IInvInit
<1>2. IInv /\ req \in Requests /\ [Next]_vars => (IInv /\ req \in Requests)'
  BY IInvStep
<1>3. Init => VersionInv /\ IndexInv
  BY IndexInvInit
<1>4. IInv /\ req \in Requests /\ VersionInv /\ IndexInv /\ [Next]_vars => (VersionInv /\ IndexInv)'
  BY IndexInvStep
<1>5. IInv /\ req \in Requests /\ VersionInv /\ IndexInv /\ [Next]_vars =>
        [pc = "complete" /\ IndexIsZero /\ IndexFits => pc' # "free"]_vars
  BY AnswerStep
<1> QED
  BY <1>1, <1>2, <1>3, <1>4, <1>5, PTL DEF Spec, ProcessedIsAnswered
=============================================================================
