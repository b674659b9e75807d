--------------------------- MODULE IncrementalProofs ---------------------------
(***************************************************************************)
(* Proofs about IncrementalCompressor, of callers that answer an error     *)
(* with restore or reset (~Retries): for every input, way of cutting it,   *)
(* parser, window and hash, the compressor uses its match finder only as   *)
(* MatchFinder allows, what the finder returns is a match, and no offset   *)
(* is without a slot; and for every room the calls are given, a block      *)
(* whose cost passes the check is written completely.                      *)
(***************************************************************************)
EXTENDS IncrementalCompressor, TLAPS, WellFoundedInduction, NaturalsInduction

NoTrees == [c \in (0 .. (WINDOW_SIZE - 1)) \X {"less", "greater"} |-> INITVAL]
NoHashes == [b \in Bucket |-> INITVAL]
NoWalk ==
  [nice_match |-> NICE_LEN, record |-> FALSE, len |-> 0, best_lt |-> 0, best_gt |-> 0,
   pending_lt |-> <<0, "less">>, pending_gt |-> <<0, "greater">>]

(* The compressor's finder as one of those FinderProofs is about; it has   *)
(* no trees.                                                               *)
Family ==
  INSTANCE FinderProofs WITH
    Kinds <- {"ht", "hc"}, WholeTexts <- {}, NiceLens <- {NICE_LEN}, MaxDepth <- DEPTH,
    DEPTH_LIMIT <- 1, SKIP_UPDATE_LIMIT <- 2,
    hash3_old <- NoHashes, child_tab <- NoTrees, walk <- NoWalk

(* The finder as it was when the snapshot was taken. *)
Saved ==
  INSTANCE FinderProofs WITH
    Kinds <- {"ht", "hc"}, WholeTexts <- {}, NiceLens <- {NICE_LEN}, MaxDepth <- DEPTH,
    DEPTH_LIMIT <- 1, SKIP_UPDATE_LIMIT <- 2,
    hash3_old <- NoHashes, child_tab <- NoTrees, walk <- NoWalk,
    data <- snapshot.data, in_next <- snapshot.kept.pos,
    in_base_offset <- snapshot.kept.base,
    next_hashes <- [short |-> FirstBucket, long |-> FirstBucket],
    found <- Nothing, search <- Ready,
    bucket0 <- snapshot.tables.ht[1], bucket1 <- snapshot.tables.ht[2],
    hash3_tab <- snapshot.tables.hc[1], hash4_tab <- snapshot.tables.hc[2],
    next_tab <- snapshot.tables.hc[3], linked <- snapshot.tables.hc[4]

-------------------------------------------------------------------------------

KeptOK ==
  /\ DOMAIN kept = {"pos", "base", "bits"}
  /\ kept.pos \in Nat /\ kept.base \in Nat

CallOK ==
  /\ DOMAIN call = {"pc", "what", "final", "start", "block", "min_len", "length", "offset"}
  /\ call.pc \in {"idle", "blocks", "parse", "judge", "lazy", "compare"}

CallerOK ==
  /\ DOMAIN caller = {"decoder", "ended", "may"}
  /\ caller.may \in {"go on", "recover", "estimated"}

(* Where in a call the finder may be busy. *)
FinderRests ==
  /\ call.pc \in {"idle", "blocks", "lazy"} => search.pc = "ready"
  /\ call.pc = "parse" => search.pc \in {"ready", "ht_skip", "hc_skip"}
  /\ call.pc \in {"judge", "compare"} => search.pc \in {"ready", "chain", "extend"}

(* What a search in progress or just over has to beat. *)
ToBeat ==
  IF call.pc = "compare" THEN call.length - 1
  ELSE IF kind = "ht" THEN 0 ELSE call.min_len - 1

(* A result without an offset is no longer than what was to be beaten, so  *)
(* it is not taken for a match.                                            *)
ResultHolds ==
  /\ call.pc # "idle" /\ call.pc # "blocks" => call.min_len \in MinLens
  /\ call.pc \in {"judge", "compare"} =>
       /\ found.at + 1 = in_next
       /\ found.length <= MAX_MATCH_LEN
       /\ found.offset = 0 => found.length = ToBeat
       /\ search.pc # "ready" => search.max <= MAX_MATCH_LEN

(* The match in hand while the lazy parser looks one position further.     *)
MatchHeld ==
  call.pc \in {"lazy", "compare"} =>
    /\ kind = "hc"
    /\ call.offset \in 1 .. WINDOW_SIZE
    /\ call.length \in 2 .. MAX_MATCH_LEN
    /\ in_next + call.length <= Len(data) + (IF call.pc = "lazy" THEN 1 ELSE 2)

(* Between calls that went well the finder is where the next begins.       *)
FinderWaits ==
  call.pc = "idle" /\ caller.may = "go on" /\ kept.pos > 0 =>
    /\ in_next = kept.pos /\ in_next = Len(data)
    /\ in_base_offset = kept.base

SnapshotHolds ==
  snapshot # NoSnapshot =>
    /\ Saved!FinderInv
    /\ DOMAIN snapshot.kept = {"pos", "base", "bits"}
    /\ snapshot.kept.pos = Len(snapshot.data)
    /\ DOMAIN snapshot.caller = {"decoder", "ended", "may"}
    /\ snapshot.caller.may = "go on"

CompressorInv ==
  /\ Family!FinderInv
  /\ MatchIsReal
  /\ KeptOK
  /\ CallOK
  /\ CallerOK
  /\ FinderRests
  /\ ResultHolds
  /\ MatchHeld
  /\ FinderWaits
  /\ SnapshotHolds

-------------------------------------------------------------------------------
(* The finder of the compressor is that of MatchFinder and of FinderProofs. *)

LEMMA FamilyAssumed ==
  /\ Family!MatchAssumption /\ Family!FinderAssumption /\ Family!FamilyAssumption
  /\ Family!TreeAssumption /\ Family!LimitAssumption
<1>1. Family!MatchAssumption
  BY MatchAssumption DEF Family!MatchAssumption
<1>2. Family!FinderAssumption
  BY MatchAssumption, CompressorAssumption DEF Family!FinderAssumption
<1>3. Family!FamilyAssumption
  BY CompressorAssumption DEF Family!FamilyAssumption
<1>4. Family!TreeAssumption
  BY CompressorAssumption DEF Family!TreeAssumption
<1>5. Family!LimitAssumption
  BY DEF Family!LimitAssumption
<1>6. QED BY <1>1, <1>2, <1>3, <1>4, <1>5

LEMMA FinderIsFamily == Finder!Next => Family!Next
BY DEF Finder!Next, Family!Next, Finder!Feed, Family!Feed, Finder!FirstHashes,
       Family!FirstHashes, Finder!Search, Family!Search, Finder!Follow,
       Family!Follow, Finder!PassOver, Family!PassOver, Finder!Skip,
       Family!Skip, Finder!StartOver, Family!StartOver, Finder!AtRest,
       Family!AtRest, Finder!OnlyHt, Family!OnlyHt, Finder!OnlyHc,
       Family!OnlyHc, Finder!htVars, Family!htVars, Finder!hcVars,
       Family!hcVars, Finder!Remaining, Family!Remaining, Finder!AtMost,
       Family!AtMost, Finder!AtLeast, Family!AtLeast, Finder!HtFirstHash,
       Family!HtFirstHash, Finder!LongHashAt, Family!LongHashAt,
       Finder!ShortHashAt, Family!ShortHashAt, Finder!Bytes, Family!Bytes,
       Finder!HtLongestMatch, Family!HtLongestMatch, Finder!HtSkip,
       Family!HtSkip, Finder!HtSkipOne, Family!HtSkipOne, Finder!HtSlides,
       Family!HtSlides, Finder!HcLongestMatch, Family!HcLongestMatch,
       Finder!HcChain, Family!HcChain, Finder!HcExtend, Family!HcExtend,
       Finder!HcSkip, Family!HcSkip, Finder!HcSkipOne, Family!HcSkipOne,
       Finder!HcInsert, Family!HcInsert, Finder!HtInit, Family!HtInit,
       Finder!HcInit, Family!HcInit, Finder!Nothing, Family!Nothing,
       Finder!Ready, Family!Ready, Finder!INITVAL, Family!INITVAL,
       Finder!AsEntry, Family!AsEntry, Finder!Slid, Family!Slid,
       Finder!Rebased, Family!Rebased, Finder!Slides, Family!Slides,
       Finder!Base, Family!Base, Finder!CurPos, Family!CurPos, Finder!Live,
       Family!Live, Finder!Agree, Family!Agree, Finder!Extent, Family!Extent,
       Finder!NextHashes, Family!NextHashes, Finder!FoundThis,
       Family!FoundThis, Finder!Slot, Family!Slot, Finder!At, Family!At,
       Finder!Candidate, Family!Candidate, Finder!Better, Family!Better,
       Finder!NextLink, Family!NextLink, Finder!GoodEnough, Family!GoodEnough,
       Finder!Shallower, Family!Shallower

LEMMA SameActions ==
  ASSUME NEW a, NEW b, NEW c, NEW d
  PROVE  /\ HtLongestMatch(a, b) => Finder!HtLongestMatch(a, b)
         /\ HcLongestMatch(a, b, c, d) => Finder!HcLongestMatch(a, b, c, d)
         /\ HcChain => Finder!HcChain
         /\ HcExtend => Finder!HcExtend
         /\ HtSkip(a) => Finder!HtSkip(a)
         /\ HtSkipOne => Finder!HtSkipOne
         /\ HcSkip(a) => Finder!HcSkip(a)
         /\ HcSkipOne => Finder!HcSkipOne
BY DEF htVars, Finder!htVars, hcVars, Finder!hcVars, Remaining,
       Finder!Remaining, AtMost, Finder!AtMost, AtLeast, Finder!AtLeast,
       HtFirstHash, Finder!HtFirstHash, LongHashAt, Finder!LongHashAt,
       ShortHashAt, Finder!ShortHashAt, Bytes, Finder!Bytes, HtLongestMatch,
       Finder!HtLongestMatch, HtSkip, Finder!HtSkip, HtSkipOne,
       Finder!HtSkipOne, HtSlides, Finder!HtSlides, HcLongestMatch,
       Finder!HcLongestMatch, HcChain, Finder!HcChain, HcExtend,
       Finder!HcExtend, HcSkip, Finder!HcSkip, HcSkipOne, Finder!HcSkipOne,
       HcInsert, Finder!HcInsert, HtInit, Finder!HtInit, HcInit,
       Finder!HcInit, Nothing, Finder!Nothing, Ready, Finder!Ready, INITVAL,
       Finder!INITVAL, AsEntry, Finder!AsEntry, Slid, Finder!Slid, Rebased,
       Finder!Rebased, Slides, Finder!Slides, Base, Finder!Base, CurPos,
       Finder!CurPos, Live, Finder!Live, Agree, Finder!Agree, Extent,
       Finder!Extent, NextHashes, Finder!NextHashes, FoundThis,
       Finder!FoundThis, Slot, Finder!Slot, At, Finder!At, Candidate,
       Finder!Candidate, Better, Finder!Better, NextLink, Finder!NextLink,
       GoodEnough, Finder!GoodEnough, Shallower, Finder!Shallower

LEMMA SameSearches ==
  ASSUME NEW a, NEW b, NEW c, NEW d
  PROVE  /\ HtLongestMatch(a, b) => Family!HtLongestMatch(a, b)
         /\ HcLongestMatch(a, b, c, d) => Family!HcLongestMatch(a, b, c, d)
         /\ HcChain => Family!HcChain
         /\ HcExtend => Family!HcExtend
BY DEF htVars, Family!htVars, hcVars, Family!hcVars, Remaining,
       Family!Remaining, AtMost, Family!AtMost, AtLeast, Family!AtLeast,
       HtFirstHash, Family!HtFirstHash, LongHashAt, Family!LongHashAt,
       ShortHashAt, Family!ShortHashAt, Bytes, Family!Bytes, HtLongestMatch,
       Family!HtLongestMatch, HtSkip, Family!HtSkip, HtSkipOne,
       Family!HtSkipOne, HtSlides, Family!HtSlides, HcLongestMatch,
       Family!HcLongestMatch, HcChain, Family!HcChain, HcExtend,
       Family!HcExtend, HcSkip, Family!HcSkip, HcSkipOne, Family!HcSkipOne,
       HcInsert, Family!HcInsert, HtInit, Family!HtInit, HcInit,
       Family!HcInit, Nothing, Family!Nothing, Ready, Family!Ready, INITVAL,
       Family!INITVAL, AsEntry, Family!AsEntry, Slid, Family!Slid, Rebased,
       Family!Rebased, Slides, Family!Slides, Base, Family!Base, CurPos,
       Family!CurPos, Live, Family!Live, Agree, Family!Agree, Extent,
       Family!Extent, NextHashes, Family!NextHashes, FoundThis,
       Family!FoundThis, Slot, Family!Slot, At, Family!At, Candidate,
       Family!Candidate, Better, Family!Better, NextLink, Family!NextLink,
       GoodEnough, Family!GoodEnough, Shallower, Family!Shallower

LEMMA SameMatch == MatchIsReal <=> Family!MatchIsReal
BY DEF MatchIsReal, Family!MatchIsReal, Agree, Family!Agree

(* What the finder's invariant says in the compressor's terms. *)
LEMMA FinderFacts ==
  ASSUME Family!FinderInv
  PROVE  /\ data \in Seq(Byte) /\ Len(data) \in Nat
         /\ in_next \in Nat /\ in_next <= Len(data)
         /\ in_base_offset \in Nat
         /\ found \in [length : Nat, offset : Nat, at : Nat]
         /\ search.max \in Nat
         /\ search.pc \in {"ready", "chain", "extend", "ht_skip", "hc_skip"}
         /\ search.pc = "ht_skip" => kind = "ht" /\ Remaining >= 1
         /\ search.pc = "hc_skip" => kind = "hc" /\ Remaining >= 1
         /\ search.pc \in {"chain", "extend"} =>
              /\ kind = "hc"
              /\ in_base_offset + search.cur_pos + 1 = in_next
              /\ found.at + 1 = in_next
<1> USE DEF Family!FinderInv
<1>1. /\ data \in Seq(Byte) /\ in_next \in 0 .. Len(data)
      /\ in_base_offset \in Nat
      /\ found \in [length : Nat, offset : Nat, at : Nat]
      /\ search \in Family!Searches
  BY DEF Family!TypesHold, Family!FamilyTypeOK
<1>2. /\ search.max \in Nat /\ search.cur_pos \in Nat /\ search.left \in Nat
      /\ search.pc \in {"ready", "chain", "extend", "ht_skip", "hc_skip", "tree", "branch"}
  BY <1>1 DEF Family!Searches
<1>3. Len(data) \in Nat /\ in_next \in Nat /\ in_next <= Len(data)
  BY <1>1
<1>4. REQUIRED_NBYTES \in Nat
  BY MatchAssumption
<1>5. search.pc \notin {"tree", "branch"}
  BY DEF Family!PlacesHold, Family!Walking, kind
<1>6. /\ search.pc = "ht_skip" => kind = "ht" /\ Remaining >= 1
      /\ search.pc = "hc_skip" => kind = "hc" /\ Remaining >= 1
  BY <1>2, <1>3, <1>4 DEF Family!PlacesHold, Remaining
<1>7. search.pc \in {"chain", "extend"} =>
        /\ kind = "hc"
        /\ in_base_offset + search.cur_pos + 1 = in_next
        /\ found.at + 1 = in_next
  BY DEF Family!PlacesHold, Family!SearchHolds, Family!Following, Family!At
<1>8. QED BY <1>1, <1>2, <1>3, <1>5, <1>6, <1>7

FinderMoves == Finder!Next \/ UNCHANGED <<windowVars, htVars, hcVars>>

(* A legal step of the finder keeps what holds of it. *)
LEMMA FinderKept ==
  ASSUME Family!FinderInv, MatchIsReal, FinderMoves, UNCHANGED strategy
  PROVE  Family!FinderInv' /\ MatchIsReal'
<1>1. UNCHANGED kind /\ UNCHANGED Family!btVars
  BY DEF kind, Family!btVars, NoHashes, NoTrees, NoWalk, INITVAL
<1>2. CASE Finder!Next
  <2>1. Family!FinderInv' /\ (Family!MatchIsReal => Family!MatchIsReal')
    BY <1>1, <1>2, FinderIsFamily, FamilyAssumed, Family!NextKeeps
  <2>2. MatchIsReal' <=> Family!MatchIsReal'
    BY DEF MatchIsReal, Family!MatchIsReal, Agree, Family!Agree
  <2>3. QED BY <2>1, <2>2, SameMatch
<1>3. CASE UNCHANGED <<windowVars, htVars, hcVars>>
  <2>1. UNCHANGED Family!familyVars
    BY <1>1, <1>3 DEF Family!familyVars, Family!finderVars, Family!windowVars,
       Family!htVars, Family!hcVars, windowVars, htVars, hcVars
  <2>2. Family!FinderInv'
    BY <2>1, FamilyAssumed, Family!StepKeeps
  <2>3. MatchIsReal'
    BY <1>3 DEF MatchIsReal, Agree, windowVars
  <2>4. QED BY <2>2, <2>3
<1>4. QED BY <1>2, <1>3 DEF FinderMoves

(* A new compressor. *)
LEMMA InitHolds == Init => CompressorInv
<1> SUFFICES ASSUME Init PROVE CompressorInv
  OBVIOUS
<1>1. Finder!NewFinder /\ kind \in {"ht", "hc"}
  BY DEF Init, Finder!Init
<1>2. Family!FamilyInit
  <2>1. Family!NewFinder
    BY <1>1 DEF Finder!NewFinder, Family!NewFinder, Finder!INITVAL, Family!INITVAL,
       Finder!Nothing, Family!Nothing, Finder!Ready, Family!Ready
  <2>2. NoWalk = Family!AtRoot(NICE_LEN)
    <3>1. Family!Slot(0) = 0
      BY MatchAssumption DEF Family!Slot
    <3>2. QED BY <3>1 DEF NoWalk, Family!AtRoot, Family!LessThan, Family!GreaterThan
  <2>3. NoTrees = [c \in Family!Child |-> Family!INITVAL]
    BY DEF NoTrees, Family!Child, Family!Side, Family!INITVAL, INITVAL
  <2>4. NoHashes = [b \in Bucket |-> Family!INITVAL]
    BY DEF NoHashes, Family!INITVAL, INITVAL
  <2>5. QED BY <1>1, <2>1, <2>2, <2>3, <2>4 DEF Family!FamilyInit
<1>3. Family!FinderInv /\ MatchIsReal
  BY <1>2, FamilyAssumed, Family!InitKeeps, SameMatch
<1>4. search.pc = "ready"
  BY <1>1 DEF Finder!NewFinder, Finder!Ready
<1>5. KeptOK /\ CallerOK
  BY DEF Init, KeptOK, CallerOK, NewCaller
<1>6. call.pc = "idle" /\ CallOK
  BY DEF Init, CallOK, Idle
<1>7. FinderRests /\ ResultHolds /\ MatchHeld
  BY <1>4, <1>6 DEF FinderRests, ResultHolds, MatchHeld
<1>8. FinderWaits /\ SnapshotHolds
  BY DEF Init, FinderWaits, SnapshotHolds
<1>9. QED BY <1>3, <1>5, <1>6, <1>7, <1>8 DEF CompressorInv

-------------------------------------------------------------------------------
(* Snapshots. *)

LEMMA SavedAssumed ==
  /\ Saved!MatchAssumption /\ Saved!FinderAssumption /\ Saved!FamilyAssumption
  /\ Saved!TreeAssumption /\ Saved!LimitAssumption
<1>1. Saved!MatchAssumption
  BY MatchAssumption DEF Saved!MatchAssumption
<1>2. Saved!FinderAssumption
  BY MatchAssumption, CompressorAssumption DEF Saved!FinderAssumption
<1>3. Saved!FamilyAssumption
  BY CompressorAssumption DEF Saved!FamilyAssumption
<1>4. Saved!TreeAssumption
  BY CompressorAssumption DEF Saved!TreeAssumption
<1>5. Saved!LimitAssumption
  BY DEF Saved!LimitAssumption
<1>6. QED BY <1>1, <1>2, <1>3, <1>4, <1>5

LEMMA SnapshotStays ==
  ASSUME SnapshotHolds, UNCHANGED <<strategy, snapshot>>
  PROVE  SnapshotHolds'
<1>1. CASE snapshot = NoSnapshot
  BY <1>1 DEF SnapshotHolds, NoSnapshot
<1>2. CASE snapshot # NoSnapshot
  <2>1. UNCHANGED Saved!familyVars
    BY DEF Saved!familyVars, Saved!finderVars, Saved!windowVars, Saved!htVars, Saved!hcVars,
           Saved!btVars, kind, Nothing, Ready, NoHashes, NoTrees, NoWalk, INITVAL
  <2>2. Saved!FinderInv'
    BY <1>2, <2>1, SavedAssumed, Saved!StepKeeps DEF SnapshotHolds
  <2>3. QED BY <1>2, <2>2 DEF SnapshotHolds
<1>3. QED BY <1>1, <1>2

LEMMA NoSnapshotHolds ==
  ASSUME snapshot' = NoSnapshot
  PROVE  SnapshotHolds'
BY DEF SnapshotHolds, NoSnapshot, NewCaller

(* A snapshot between calls has a finder at rest. *)
LEMMA SnapshotTaken ==
  ASSUME CompressorInv, TakeSnapshot
  PROVE  SnapshotHolds'
<1>1. /\ call.pc = "idle" /\ caller.may = "go on" /\ kept.pos > 0
      /\ snapshot' = Snapshot /\ UNCHANGED strategy
  BY DEF TakeSnapshot
<1>2. /\ Family!FinderInv /\ search.pc = "ready"
      /\ in_next = kept.pos /\ in_next = Len(data) /\ in_base_offset = kept.base
  BY <1>1 DEF CompressorInv, FinderRests, FinderWaits
<1>3. data \in Seq(Byte) /\ SubSeq(data, 1, kept.pos) = data
  BY <1>2, FinderFacts
<1>4. /\ snapshot'.data = data /\ snapshot'.kept = kept /\ snapshot'.caller = caller
      /\ snapshot'.tables = Tables
  BY <1>1, <1>3 DEF Snapshot
<1>5. /\ snapshot'.tables.ht[1] = bucket0 /\ snapshot'.tables.ht[2] = bucket1
      /\ snapshot'.tables.hc[1] = hash3_tab /\ snapshot'.tables.hc[2] = hash4_tab
      /\ snapshot'.tables.hc[3] = next_tab /\ snapshot'.tables.hc[4] = linked
  BY <1>4 DEF Tables, htVars, hcVars
<1>6. kind' = kind /\ kind \in {"ht", "hc"}
  BY <1>1 DEF kind
<1>7. Saved!FinderInv'
  <2>1. Saved!FamilyTypeOK'
    <3>1. data \in Seq(Byte) /\ kept.pos \in 0 .. Len(data) /\ kept.base \in Nat
      BY <1>2 DEF Family!FinderInv, Family!TypesHold, Family!FamilyTypeOK
    <3>2. /\ bucket0 \in [Bucket -> Entry] /\ bucket1 \in [Bucket -> Entry]
          /\ hash3_tab \in [Bucket -> Entry] /\ hash4_tab \in [Bucket -> Entry]
          /\ NoHashes \in [Bucket -> Entry]
          /\ next_tab \in [0 .. (WINDOW_SIZE - 1) -> Entry]
          /\ linked \subseteq 0 .. (WINDOW_SIZE - 1)
          /\ NoTrees \in [Saved!Child -> Entry]
      BY <1>2 DEF Family!FinderInv, Family!TypesHold, Family!FamilyTypeOK, Family!Entry,
                  Entry, Family!Child, Saved!Child, Family!Side, Saved!Side
    <3>3. INITVAL \in Entry /\ FirstBucket \in Bucket
      BY MatchAssumption DEF INITVAL, Entry
    <3>4. NoWalk.nice_match \in {NICE_LEN}
      BY DEF NoWalk
    <3>5. /\ UNCHANGED <<NoHashes, NoTrees, NoWalk, Ready, Nothing>>
          /\ Ready.pc = "ready" /\ Ready.node = INITVAL
          /\ Nothing \in [length : Nat, offset : Nat, at : Nat]
      BY DEF NoHashes, NoTrees, NoWalk, INITVAL, Ready, Nothing
    <3>6. Saved!Entry = Entry
      BY DEF Saved!Entry, Entry
    <3> HIDE DEF NoHashes, NoTrees, NoWalk
    <3>7. QED BY <1>4, <1>5, <1>6, <3>1, <3>2, <3>3, <3>4, <3>5, <3>6
            DEF Saved!FamilyTypeOK
  <2>2. (Ready \in Saved!Searches)' /\ (NoWalk \in Saved!Walks)'
    <3>1. NoWalk \in Family!Walks
      BY <1>2 DEF Family!FinderInv, Family!TypesHold
    <3>2. QED BY <3>1, MatchAssumption
            DEF Saved!Searches, Saved!Walks, Family!Walks, Ready, Saved!Entry, INITVAL,
                Family!Child, Saved!Child, Family!Side, Saved!Side, NoWalk
  <2>3. Saved!PlacesHold'
    BY <1>2, <1>4, <1>6
       DEF Family!FinderInv, Family!PlacesHold, Saved!PlacesHold, Ready,
           Saved!Following, Saved!Walking
  <2>4. Saved!BucketsHold'
    BY <1>2, <1>4, <1>5, <1>6
       DEF Family!FinderInv, Family!BucketsHold, Saved!BucketsHold,
           Family!Sound, Saved!Sound, Family!INITVAL, Saved!INITVAL
  <2>5. Saved!ChainsHold'
    BY <1>2, <1>4, <1>5, <1>6
       DEF Family!FinderInv, Family!ChainsHold, Saved!ChainsHold,
           Family!Sound, Saved!Sound, Family!Strict, Saved!Strict,
           Family!Planted, Saved!Planted, Family!Slot, Saved!Slot,
           Family!INITVAL, Saved!INITVAL
  <2>6. Saved!TreesHold' /\ Saved!SearchHolds' /\ Saved!WalkHolds'
    BY <1>6 DEF Saved!TreesHold, Saved!SearchHolds, Saved!WalkHolds,
                Saved!Following, Saved!Walking, Ready
  <2>7. QED BY <2>1, <2>2, <2>3, <2>4, <2>5, <2>6 DEF Saved!FinderInv, Saved!TypesHold
<1>8. QED BY <1>1, <1>2, <1>4, <1>7 DEF SnapshotHolds, CompressorInv, KeptOK, CallerOK

(* Going back to a snapshot brings back a finder at rest where the next    *)
(* call begins.                                                            *)
LEMMA RestoreKeeps ==
  ASSUME CompressorInv, Restore
  PROVE  CompressorInv'
<1>1. /\ call.pc = "idle" /\ snapshot # NoSnapshot
      /\ kept' = snapshot.kept /\ caller' = snapshot.caller
      /\ snapshot' = NoSnapshot
      /\ UNCHANGED <<strategy, call, next_hashes, search>>
  BY DEF Restore, Restored
<1>2. /\ bucket0' = snapshot.tables.ht[1] /\ bucket1' = snapshot.tables.ht[2]
      /\ hash3_tab' = snapshot.tables.hc[1] /\ hash4_tab' = snapshot.tables.hc[2]
      /\ next_tab' = snapshot.tables.hc[3] /\ linked' = snapshot.tables.hc[4]
      /\ data' = snapshot.data
      /\ in_next' = snapshot.kept.pos
      /\ in_base_offset' = snapshot.kept.base
      /\ found' = Nothing
  BY DEF Restore
<1>3. /\ Saved!FinderInv
      /\ DOMAIN snapshot.kept = {"pos", "base", "bits"}
      /\ snapshot.kept.pos = Len(snapshot.data)
      /\ DOMAIN snapshot.caller = {"decoder", "ended", "may"}
      /\ snapshot.caller.may = "go on"
  BY <1>1 DEF CompressorInv, SnapshotHolds
<1>4. search.pc = "ready"
  BY <1>1 DEF CompressorInv, FinderRests
<1>5. kind' = kind
  BY <1>1 DEF kind
<1>6. /\ snapshot.data \in Seq(Byte)
      /\ snapshot.kept.pos \in 0 .. Len(snapshot.data) /\ snapshot.kept.base \in Nat
  BY <1>3 DEF Saved!FinderInv, Saved!TypesHold, Saved!FamilyTypeOK
<1>7. Family!FinderInv'
  <2>1. Family!TypesHold'
    <3>1. /\ search \in Family!Searches /\ NoWalk \in Family!Walks
          /\ search.pc \in {"ready", "chain", "extend", "ht_skip", "hc_skip", "tree", "branch"}
          /\ search.node \in Family!Entry
          /\ next_hashes \in [short : Bucket, long : Bucket]
          /\ kind \in {"ht", "hc"}
          /\ NoHashes \in [Bucket -> Family!Entry]
          /\ NoTrees \in [Family!Child -> Family!Entry]
          /\ NoWalk.nice_match \in {NICE_LEN}
      BY DEF CompressorInv, Family!FinderInv, Family!TypesHold, Family!FamilyTypeOK
    <3>2. Saved!Entry = Family!Entry
      BY DEF Saved!Entry, Family!Entry
    <3>3. /\ bucket0' \in [Bucket -> Family!Entry] /\ bucket1' \in [Bucket -> Family!Entry]
          /\ hash3_tab' \in [Bucket -> Family!Entry] /\ hash4_tab' \in [Bucket -> Family!Entry]
          /\ next_tab' \in [0 .. (WINDOW_SIZE - 1) -> Family!Entry]
          /\ linked' \subseteq 0 .. (WINDOW_SIZE - 1)
      BY <1>2, <1>3, <3>2 DEF Saved!FinderInv, Saved!TypesHold, Saved!FamilyTypeOK
    <3>4. /\ UNCHANGED <<NoHashes, NoTrees, NoWalk>>
          /\ Nothing \in [length : Nat, offset : Nat, at : Nat]
      BY DEF NoHashes, NoTrees, NoWalk, INITVAL, Nothing
    <3>5. (search \in Family!Searches)' /\ (NoWalk \in Family!Walks)'
      BY <1>1, <3>1, <3>4 DEF Family!Searches, Family!Walks, Family!Entry, Family!Child,
                              Family!Side
    <3>6. /\ UNCHANGED <<search, next_hashes, kind>>
          /\ (Family!Entry)' = Family!Entry /\ (Family!Child)' = Family!Child
      BY <1>1, <1>5 DEF Family!Entry, Family!Child, Family!Side
    <3>7. data' \in Seq(Byte) /\ in_next' \in 0 .. Len(data') /\ in_base_offset' \in Nat
          /\ found' \in [length : Nat, offset : Nat, at : Nat]
      BY <1>2, <1>6, <3>4
    <3> HIDE DEF NoHashes, NoTrees, NoWalk
    <3>8. Family!FamilyTypeOK'
      BY <3>1, <3>3, <3>4, <3>6, <3>7 DEF Family!FamilyTypeOK
    <3>9. QED BY <3>5, <3>8 DEF Family!TypesHold
  <2>2. Family!PlacesHold'
    BY <1>1, <1>2, <1>3, <1>4, <1>5
       DEF Saved!FinderInv, Family!PlacesHold, Saved!PlacesHold, Ready,
           Family!Following, Family!Walking
  <2>3. Family!BucketsHold'
    BY <1>2, <1>3, <1>5
       DEF Saved!FinderInv, Family!BucketsHold, Saved!BucketsHold,
           Family!Sound, Saved!Sound, Family!INITVAL, Saved!INITVAL
  <2>4. Family!ChainsHold'
    BY <1>2, <1>3, <1>5
       DEF Saved!FinderInv, Family!ChainsHold, Saved!ChainsHold,
           Family!Sound, Saved!Sound, Family!Strict, Saved!Strict,
           Family!Planted, Saved!Planted, Family!Slot, Saved!Slot,
           Family!INITVAL, Saved!INITVAL
  <2>5. Family!TreesHold' /\ Family!SearchHolds' /\ Family!WalkHolds'
    BY <1>1, <1>4, <1>5 DEF Family!TreesHold, Family!SearchHolds, Family!WalkHolds,
                            Family!Following, Family!Walking, kind
  <2>6. QED BY <2>1, <2>2, <2>3, <2>4, <2>5 DEF Family!FinderInv
<1>8. MatchIsReal'
  BY <1>2 DEF MatchIsReal, Nothing
<1>9. KeptOK' /\ CallOK' /\ CallerOK'
  <2>1. CallOK'
    BY <1>1 DEF CompressorInv, CallOK
  <2>2. snapshot.kept.pos \in Nat
    <3>1. Len(snapshot.data) \in Nat
      BY <1>6
    <3>2. QED BY <1>6, <3>1
  <2>3. KeptOK'
    BY <1>1, <1>3, <1>6, <2>2 DEF KeptOK
  <2>4. CallerOK'
    BY <1>1, <1>3 DEF CallerOK
  <2>5. QED BY <2>1, <2>3, <2>4
<1>10. FinderRests' /\ ResultHolds' /\ MatchHeld'
  BY <1>1, <1>4 DEF FinderRests, ResultHolds, MatchHeld
<1>11. FinderWaits'
  BY <1>1, <1>2, <1>3, <1>6 DEF FinderWaits
<1>12. QED BY <1>1, <1>7, <1>8, <1>9, <1>10, <1>11, NoSnapshotHolds DEF CompressorInv
-------------------------------------------------------------------------------
(* The actions.  Each moves the finder legally and keeps the invariant.    *)

LEMMA Sizes ==
  /\ WINDOW_SIZE \in Nat /\ WINDOW_SIZE > 0
  /\ MAX_MATCH_LEN \in Nat /\ MAX_MATCH_LEN <= WINDOW_SIZE
  /\ REQUIRED_NBYTES \in Nat /\ REQUIRED_NBYTES > 1
  /\ NICE_LEN \in Nat /\ REQUIRED_NBYTES <= NICE_LEN /\ NICE_LEN <= MAX_MATCH_LEN
  /\ DEPTH \in Nat /\ DEPTH > 1
  /\ MinLens \subseteq 2 .. (MAX_MATCH_LEN - 1)
BY MatchAssumption, CompressorAssumption

(* What a step keeps that moves the finder and stays within a call.        *)
LEMMA WithinCall ==
  ASSUME CompressorInv, FinderMoves, UNCHANGED <<strategy, kept, caller, snapshot>>,
         call'.pc # "idle",
         CallOK', FinderRests', ResultHolds', MatchHeld'
  PROVE  CompressorInv'
<1>1. Family!FinderInv' /\ MatchIsReal'
  BY FinderKept DEF CompressorInv
<1>2. KeptOK' /\ CallerOK'
  BY DEF CompressorInv, KeptOK, CallerOK
<1>3. FinderWaits'
  BY DEF FinderWaits
<1>4. SnapshotHolds'
  BY SnapshotStays DEF CompressorInv
<1>5. QED BY <1>1, <1>2, <1>3, <1>4 DEF CompressorInv

(* What a step keeps that ends a call, or is none of a call.               *)
LEMMA OutsideCalls ==
  ASSUME CompressorInv, FinderMoves, UNCHANGED strategy,
         call'.pc = "idle", search'.pc = "ready",
         CallOK', KeptOK', CallerOK', FinderWaits', SnapshotHolds'
  PROVE  CompressorInv'
<1>1. Family!FinderInv' /\ MatchIsReal'
  BY FinderKept DEF CompressorInv
<1>2. FinderRests' /\ ResultHolds' /\ MatchHeld'
  BY DEF FinderRests, ResultHolds, MatchHeld
<1>3. QED BY <1>1, <1>2 DEF CompressorInv

(* Searches of the compressor are searches of the finder.                  *)
LEMMA HtSearches ==
  ASSUME Family!FinderInv, kind = "ht", REQUIRED_NBYTES <= MaxLen,
         HtLongestMatch(MaxLen, NiceLen), UNCHANGED <<strategy, hcVars>>
  PROVE  Finder!Search
<1>1. Finder!HtLongestMatch(MaxLen, NiceLen)
  BY SameActions
<1>2. Remaining > 0
  BY FinderFacts, Sizes DEF MaxLen, AtMost, Remaining
<1>3. Finder!OnlyHt
  BY DEF Finder!OnlyHt, kind, hcVars, Finder!hcVars
<1>4. /\ Finder!Remaining = Remaining
      /\ Finder!AtMost(Finder!Remaining, MAX_MATCH_LEN) = MaxLen
      /\ Finder!AtMost(NICE_LEN, MaxLen) = NiceLen
  BY DEF Finder!Remaining, Remaining, Finder!AtMost, AtMost, MaxLen, NiceLen
<1>5. QED BY <1>1, <1>2, <1>3, <1>4, Zenon DEF Finder!Search

LEMMA HcSearches ==
  ASSUME Family!FinderInv, kind = "hc", Remaining > 0,
         NEW best_len \in 0 .. (MAX_MATCH_LEN - 1), NEW depth \in 1 .. DEPTH,
         HcLongestMatch(best_len, MaxLen, NiceLen, depth), UNCHANGED <<strategy, htVars>>
  PROVE  Finder!Search
<1>1. Finder!HcLongestMatch(best_len, MaxLen, NiceLen, depth)
  BY SameActions
<1>2. Finder!OnlyHc
  BY DEF Finder!OnlyHc, kind, htVars, Finder!htVars
<1>3. /\ Finder!Remaining = Remaining
      /\ Finder!AtMost(Finder!Remaining, MAX_MATCH_LEN) = MaxLen
      /\ Finder!AtMost(NICE_LEN, MaxLen) = NiceLen
  BY DEF Finder!Remaining, Remaining, Finder!AtMost, AtMost, MaxLen, NiceLen
<1>4. MaxLen \in 1 .. MaxLen
  BY FinderFacts, Sizes DEF MaxLen, AtMost, Remaining
<1>5. QED BY <1>1, <1>2, <1>3, <1>4, Zenon DEF Finder!Search

(* So are skips that stay inside the input.                                *)
LEMMA Skips ==
  ASSUME UNCHANGED strategy, NEW count \in Nat, 1 <= count, count <= Remaining,
         count <= WINDOW_SIZE, Remaining \in Nat
  PROVE  /\ kind = "ht" /\ (HtSkip(count) \/ HtSkipOne) /\ UNCHANGED hcVars => Finder!Skip
         /\ kind = "hc" /\ (HcSkip(count) \/ HcSkipOne) /\ UNCHANGED htVars => Finder!Skip
<1>1. count \in 1 .. Finder!AtMost(Finder!Remaining, WINDOW_SIZE)
  BY Sizes DEF Finder!AtMost, Finder!Remaining, Remaining
<1>2. ASSUME kind = "ht", HtSkip(count) \/ HtSkipOne, UNCHANGED hcVars
      PROVE  Finder!Skip
  <2>1. Finder!HtSkip(count) \/ Finder!HtSkipOne
    BY <1>2, SameActions
  <2>2. Finder!OnlyHt
    BY <1>2 DEF Finder!OnlyHt, kind, hcVars, Finder!hcVars
  <2>3. QED BY <1>1, <1>2, <2>1, <2>2, Zenon DEF Finder!Skip
<1>3. ASSUME kind = "hc", HcSkip(count) \/ HcSkipOne, UNCHANGED htVars
      PROVE  Finder!Skip
  <2>1. Finder!HcSkip(count) \/ Finder!HcSkipOne
    BY <1>3, SameActions
  <2>2. Finder!OnlyHc
    BY <1>3 DEF Finder!OnlyHc, kind, htVars, Finder!htVars
  <2>3. QED BY <1>1, <1>3, <2>1, <2>2, Zenon DEF Finder!Skip
<1>4. QED BY <1>2, <1>3

LEMMA BeginBlockKeeps ==
  ASSUME CompressorInv, NEW min_len \in MinLens, BeginBlock(min_len)
  PROVE  FinderMoves /\ CompressorInv'
<1>1. /\ call.pc = "blocks" /\ Remaining > 0
      /\ call' = [call EXCEPT !.pc = "parse", !.block = in_next, !.min_len = min_len]
      /\ UNCHANGED <<strategy, kept, os, caller, snapshot, data, in_next,
                      in_base_offset, found, search, htVars, hcVars>>
  BY DEF BeginBlock
<1>2. search.pc = "ready" /\ CallOK /\ in_next \in Nat /\ UNCHANGED kind
  BY <1>1, FinderFacts DEF CompressorInv, FinderRests, kind
<1>3. FinderMoves
  <2>1. CASE kind = "ht"
    <3>1. next_hashes' = HtFirstHash
      BY <2>1 DEF BeginBlock
    <3>2. Finder!HtFirstHash = HtFirstHash
      BY DEF Finder!HtFirstHash, HtFirstHash, Finder!LongHashAt, LongHashAt,
             Finder!Bytes, Bytes
    <3>3. Finder!FirstHashes
      BY <1>1, <1>2, <2>1, <3>1, <3>2
         DEF Finder!FirstHashes, Finder!AtRest, Finder!Remaining, Remaining,
             htVars, hcVars, Finder!htVars, Finder!hcVars
    <3>4. QED BY <3>3 DEF FinderMoves, Finder!Next
  <2>2. CASE kind # "ht" /\ in_next = call.start
    <3>1. /\ kind = "hc"
          /\ next_hashes' = [short |-> FirstBucket, long |-> FirstBucket]
      BY <2>2 DEF BeginBlock, kind
    <3>2. Finder!FirstHashes
      BY <1>1, <1>2, <3>1
         DEF Finder!FirstHashes, Finder!AtRest, Finder!Remaining, Remaining,
             htVars, hcVars, Finder!htVars, Finder!hcVars
    <3>3. QED BY <3>2 DEF FinderMoves, Finder!Next
  <2>3. CASE kind # "ht" /\ in_next # call.start
    <3>1. UNCHANGED next_hashes
      BY <2>3 DEF BeginBlock
    <3>2. QED BY <1>1, <3>1 DEF FinderMoves, windowVars
  <2>4. QED BY <2>1, <2>2, <2>3
<1>4. CallOK' /\ FinderRests' /\ ResultHolds' /\ MatchHeld'
  BY <1>1, <1>2, Sizes DEF CallOK, FinderRests, ResultHolds, MatchHeld
<1>5. QED BY <1>1, <1>2, <1>3, <1>4, WithinCall DEF CallOK

LEMMA EndBlockKeeps ==
  ASSUME CompressorInv, NEW type, EndBlock(type)
  PROVE  FinderMoves /\ CompressorInv'
<1>1. /\ call.pc = "parse" /\ search.pc = "ready"
      /\ call' = [call EXCEPT !.pc = "blocks"]
      /\ UNCHANGED <<strategy, kept, caller, snapshot, windowVars, htVars, hcVars>>
  BY DEF EndBlock, Goto
<1>2. FinderMoves /\ UNCHANGED search
  BY <1>1 DEF FinderMoves, windowVars
<1>3. CallOK
  BY DEF CompressorInv
<1>4. CallOK' /\ FinderRests' /\ ResultHolds' /\ MatchHeld'
  BY <1>1, <1>2, <1>3 DEF CallOK, FinderRests, ResultHolds, MatchHeld
<1>5. QED BY <1>1, <1>2, <1>3, <1>4, WithinCall DEF CallOK

LEMMA IdleOK == Idle.pc = "idle" /\ (call' = Idle => CallOK')
BY DEF Idle, CallOK

LEMMA StoppedKeeps ==
  ASSUME CompressorInv, Stopped
  PROVE  FinderMoves /\ CompressorInv'
<1>1. /\ search.pc = "ready" /\ call' = Idle
      /\ caller' = [caller EXCEPT !.may = "recover"]
      /\ UNCHANGED <<strategy, kept, snapshot, windowVars, htVars, hcVars>>
  BY DEF Stopped, Fails
<1>2. FinderMoves /\ search'.pc = "ready"
  BY <1>1 DEF FinderMoves, windowVars
<1>3. KeptOK /\ CallerOK /\ SnapshotHolds
  BY DEF CompressorInv
<1>4. KeptOK' /\ CallerOK' /\ FinderWaits'
  BY <1>1, <1>3 DEF KeptOK, CallerOK, FinderWaits
<1>5. SnapshotHolds'
  BY <1>1, <1>3, SnapshotStays
<1>6. QED BY <1>1, <1>2, <1>4, <1>5, IdleOK, OutsideCalls

(* What a call commits is where the finder stands, unless it fails.        *)
LEMMA EndCallKeeps ==
  ASSUME CompressorInv, EndCall
  PROVE  FinderMoves /\ CompressorInv'
<1>1. /\ call.pc = "blocks" /\ Remaining = 0 /\ call' = Idle
      /\ UNCHANGED <<strategy, snapshot, windowVars, htVars, hcVars>>
  BY DEF EndCall, Fails
<1>2. /\ FinderMoves /\ search.pc = "ready" /\ search'.pc = "ready"
      /\ UNCHANGED <<data, in_next, in_base_offset>>
  BY <1>1 DEF FinderMoves, windowVars, CompressorInv, FinderRests
<1>3. KeptOK /\ CallerOK /\ SnapshotHolds
  BY DEF CompressorInv
<1>4. Len(data) \in Nat /\ in_next \in Nat /\ in_base_offset \in Nat /\ in_next = Len(data)
  BY <1>1, FinderFacts DEF CompressorInv, Remaining
<1>5. DOMAIN BaseKept = {"pos", "base", "bits"} /\ BaseKept.pos = kept.pos
      /\ BaseKept.base = in_base_offset
  BY <1>3 DEF BaseKept, KeptOK
<1>6. \/ /\ DOMAIN kept' = {"pos", "base", "bits"}
         /\ kept'.pos = Len(data) /\ kept'.base = in_base_offset
         /\ DOMAIN caller' = {"decoder", "ended", "may"}
         /\ caller'.may \in {"go on", "estimated"}
      \/ /\ kept' = BaseKept
         /\ caller' = [caller EXCEPT !.may = "recover"]
  <2>1. CASE call.what = "estimate"
    BY <1>3, <1>5, <2>1 DEF EndCall, CallerOK
  <2>2. CASE call.what # "estimate"
    <3> DEFINE done == IF call.final THEN PadLastByte(Terminated) ELSE Terminated
    <3>1. \/ Fails /\ kept' = BaseKept
          \/ /\ kept' = [BaseKept EXCEPT !.pos = Len(data),
                                         !.bits = KeptBits(Terminated.bits)]
             /\ caller' = [decoder |-> Decoded(caller.decoder, done.out),
                           ended |-> call.final, may |-> "go on"]
      BY <2>2, Zenon DEF EndCall
    <3>2. CASE Fails /\ kept' = BaseKept
      BY <3>2 DEF Fails
    <3>3. CASE /\ kept' = [BaseKept EXCEPT !.pos = Len(data),
                                          !.bits = KeptBits(Terminated.bits)]
               /\ caller' = [decoder |-> Decoded(caller.decoder, done.out),
                             ended |-> call.final, may |-> "go on"]
      <4> DEFINE bits == KeptBits(Terminated.bits)
                 decoder == Decoded(caller.decoder, done.out)
      <4> HIDE DEF bits, decoder, done
      <4> QED BY <1>5, <3>3 DEF bits, decoder
    <3>4. QED BY <3>1, <3>2, <3>3
  <2>3. QED BY <2>1, <2>2
<1>7. KeptOK' /\ CallerOK' /\ FinderWaits'
  BY <1>2, <1>3, <1>4, <1>5, <1>6 DEF KeptOK, CallerOK, FinderWaits
<1>8. SnapshotHolds'
  BY <1>1, <1>3, SnapshotStays
<1>9. QED BY <1>1, <1>2, <1>7, <1>8, IdleOK, OutsideCalls

(* A first call starts the finder over; any other feeds it, or brings      *)
(* nothing new.                                                            *)
LEMMA BeginCallKeeps ==
  ASSUME ~Retries, CompressorInv, NEW what \in {"compress", "estimate"},
         NEW final \in BOOLEAN, NEW room, BeginCall(what, final, room)
  PROVE  FinderMoves /\ CompressorInv'
<1>1. /\ call.pc = "idle" /\ MayCall
      /\ in_next' = kept.pos
      /\ kept' = [kept EXCEPT !.base = in_base_offset']
      /\ call' = [Idle EXCEPT !.pc = "blocks", !.what = what, !.final = final,
                              !.start = kept.pos]
      /\ snapshot' \in {snapshot, NoSnapshot}
      /\ UNCHANGED <<strategy, caller, next_hashes, search>>
  BY DEF BeginCall
<1>2. /\ KeptOK /\ CallerOK /\ SnapshotHolds /\ FinderWaits /\ search.pc = "ready"
      /\ UNCHANGED kind /\ kind \in {"ht", "hc"}
  BY <1>1 DEF CompressorInv, FinderRests, kind
<1>3. FinderMoves
  <2>1. CASE kept.pos = 0
    <3>1. \E text \in Texts : \E n \in 0 .. Len(text) : data' = SubSeq(text, 1, n)
      BY <2>1 DEF BeginCall
    <3>2. FirstCall /\ found' = Nothing /\ in_base_offset' = 0 /\ in_next' = 0
      BY <1>1, <2>1 DEF BeginCall
    <3>3. \/ Finder!HtInit /\ Finder!OnlyHt
          \/ Finder!HcInit /\ Finder!OnlyHc
      BY <1>2, <3>2 DEF FirstCall, HtInit, HcInit, Finder!HtInit, Finder!HcInit, INITVAL,
         Finder!INITVAL, Finder!OnlyHt, Finder!OnlyHc, htVars, hcVars, Finder!htVars,
         Finder!hcVars
    <3>4. Finder!StartOver
      BY <1>1, <1>2, <3>1, <3>2, <3>3
         DEF Finder!StartOver, Finder!AtRest, Nothing, Finder!Nothing
    <3>5. QED BY <3>4 DEF FinderMoves, Finder!Next
  <2>2. CASE kept.pos # 0
    <3>1. /\ in_next = kept.pos /\ in_next = Len(data) /\ in_base_offset = kept.base
      <4>1. caller.may = "go on"
        BY <1>1, <2>2 DEF MayCall
      <4>2. kept.pos > 0
        BY <1>2, <2>2 DEF KeptOK
      <4>3. QED BY <1>1, <1>2, <4>1, <4>2 DEF FinderWaits
    <3>2. PICK text \in Texts : \E n \in Len(data) .. Len(text) :
            /\ SubSeq(text, 1, Len(data)) = data
            /\ data' = SubSeq(text, 1, n)
      BY <2>2 DEF BeginCall
    <3>3. UNCHANGED <<htVars, hcVars, found, in_next, in_base_offset>>
      BY <1>1, <2>2, <3>1 DEF BeginCall
    <3>4. data \in Seq(Byte) /\ Len(data) \in Nat /\ Len(text) \in Nat
      <4>1. text \in Seq(Byte)
        BY CompressorAssumption
      <4>2. Len(text) \in Nat
        BY <4>1
      <4>3. QED BY <4>2, FinderFacts DEF CompressorInv
    <3> PICK n \in Len(data) .. Len(text) :
               SubSeq(text, 1, Len(data)) = data /\ data' = SubSeq(text, 1, n)
      BY <3>2
    <3>5. CASE n = Len(data)
      BY <1>1, <3>3, <3>5 DEF FinderMoves, windowVars
    <3>6. CASE n # Len(data)
      <4>1. n \in (Len(data) + 1) .. Len(text)
        <5>1. \A a, b \in Nat : \A m \in a .. b : m # a => m \in (a + 1) .. b
          OBVIOUS
        <5>2. QED BY <3>4, <3>6, <5>1, Zenon
      <4>2. Finder!Remaining = 0
        BY <3>1, <3>4 DEF Finder!Remaining
      <4>3. Finder!Feed
        BY <1>1, <1>2, <3>1, <3>3, <4>1, <4>2
           DEF Finder!Feed, Finder!AtRest, htVars, hcVars, Finder!htVars, Finder!hcVars
      <4>4. QED BY <4>3 DEF FinderMoves, Finder!Next
    <3>7. QED BY <3>5, <3>6
  <2>3. QED BY <2>1, <2>2
<1>4. Family!FinderInv' /\ MatchIsReal'
  BY <1>1, <1>3, FinderKept DEF CompressorInv
<1>5. in_base_offset' \in Nat
  BY <1>4 DEF Family!FinderInv, Family!TypesHold, Family!FamilyTypeOK
<1>6. KeptOK' /\ CallerOK'
  BY <1>1, <1>2, <1>5 DEF KeptOK, CallerOK
<1>7. call'.pc = "blocks" /\ CallOK'
  BY <1>1, <1>2 DEF CallOK, Idle, KeptOK
<1>8. FinderRests' /\ ResultHolds' /\ MatchHeld' /\ FinderWaits'
  BY <1>1, <1>2, <1>7 DEF FinderRests, ResultHolds, MatchHeld, FinderWaits
<1>9. SnapshotHolds'
  BY <1>1, <1>2, SnapshotStays, NoSnapshotHolds
<1>10. QED BY <1>3, <1>4, <1>6, <1>7, <1>8, <1>9 DEF CompressorInv

LEMMA TakeSnapshotKeeps ==
  ASSUME CompressorInv, TakeSnapshot
  PROVE  FinderMoves /\ CompressorInv'
<1>1. /\ call.pc = "idle"
      /\ UNCHANGED <<strategy, kept, call, caller, windowVars, htVars, hcVars>>
  BY DEF TakeSnapshot
<1>2. FinderMoves /\ search'.pc = "ready" /\ UNCHANGED <<data, in_next, in_base_offset>>
  BY <1>1 DEF FinderMoves, windowVars, CompressorInv, FinderRests
<1>3. CallOK' /\ KeptOK' /\ CallerOK' /\ FinderWaits'
  BY <1>1, <1>2 DEF CompressorInv, CallOK, KeptOK, CallerOK, FinderWaits
<1>4. QED BY <1>1, <1>2, <1>3, SnapshotTaken, OutsideCalls

LEMMA IncrementalResetKeeps ==
  ASSUME CompressorInv, IncrementalReset
  PROVE  FinderMoves /\ CompressorInv'
<1>1. /\ call.pc = "idle" /\ snapshot' = NoSnapshot /\ caller' = NewCaller
      /\ kept' = [pos |-> 0, base |-> 0, bits |-> <<>>]
      /\ UNCHANGED <<strategy, call, windowVars, htVars, hcVars>>
  BY DEF IncrementalReset
<1>2. FinderMoves /\ search'.pc = "ready"
  BY <1>1 DEF FinderMoves, windowVars, CompressorInv, FinderRests
<1>3. CallOK'
  BY <1>1 DEF CompressorInv, CallOK
<1>4. KeptOK' /\ FinderWaits'
  BY <1>1 DEF KeptOK, FinderWaits
<1>5. CallerOK'
  BY <1>1 DEF CallerOK, NewCaller
<1>6. QED BY <1>1, <1>2, <1>3, <1>4, <1>5, NoSnapshotHolds, OutsideCalls

(* A block goes on only where there is input left.                         *)
LEMMA BlockGoesOn ==
  ASSUME CompressorInv, ~BlockOver
  PROVE  Remaining \in Nat /\ Remaining > 0
BY FinderFacts DEF CompressorInv, BlockOver, Remaining

LEMMA ParseHtKeeps ==
  ASSUME CompressorInv, ParseHt
  PROVE  FinderMoves /\ CompressorInv'
<1>1. /\ call.pc = "parse" /\ kind = "ht" /\ ~BlockOver
      /\ UNCHANGED <<strategy, kept, caller, snapshot, hcVars>>
  BY DEF ParseHt, Parsing
<1>2. /\ Remaining \in Nat /\ Remaining > 0 /\ in_next \in Nat /\ CallOK /\ UNCHANGED kind
      /\ call.min_len \in MinLens /\ search.pc \in {"ready", "ht_skip", "hc_skip"}
  BY <1>1, BlockGoesOn, FinderFacts
     DEF CompressorInv, ResultHolds, FinderRests, kind
<1>3. CASE MaxLen >= REQUIRED_NBYTES
  <2>1. HtLongestMatch(MaxLen, NiceLen) /\ call' = [call EXCEPT !.pc = "judge"]
    BY <1>3 DEF ParseHt, Goto
  <2>2. FinderMoves
    BY <1>1, <1>3, <2>1, HtSearches, Sizes
       DEF CompressorInv, FinderMoves, Finder!Next, MaxLen, AtMost
  <2>3. MaxLen \in Nat /\ MaxLen <= Remaining /\ MaxLen <= MAX_MATCH_LEN
    BY <1>2, Sizes DEF MaxLen, AtMost
  <2>4. Family!HtLongestMatch(MaxLen, NiceLen) /\ Family!Remaining = Remaining
    BY <2>1, SameSearches DEF Family!Remaining, Remaining
  <2>5. /\ found'.at = in_next /\ found'.length <= MaxLen
        /\ found'.offset = 0 => found'.length = 0
    BY <1>1, <2>3, <2>4, FamilyAssumed, Family!HtFinds DEF CompressorInv
  <2>6. in_next' = in_next + 1 /\ search' = search /\ search.pc = "ready"
    BY <2>1 DEF HtLongestMatch
  <2>7. Family!FinderInv'
    BY <1>1, <2>2, FinderKept DEF CompressorInv
  <2>8. found'.length \in Nat
    BY <2>7 DEF Family!FinderInv, Family!TypesHold, Family!FamilyTypeOK
  <2>9. call'.pc = "judge" /\ CallOK' /\ call'.min_len = call.min_len
    BY <1>2, <2>1 DEF CallOK
  <2>10. FinderRests' /\ MatchHeld'
    BY <2>6, <2>9 DEF FinderRests, MatchHeld
  <2>11. ResultHolds'
    BY <1>1, <1>2, <2>3, <2>5, <2>6, <2>8, <2>9, Sizes DEF ResultHolds, ToBeat
  <2>12. QED BY <1>1, <2>2, <2>9, <2>10, <2>11, WithinCall
<1>4. CASE ~(MaxLen >= REQUIRED_NBYTES)
  <2>1. /\ search.pc = "ready" /\ in_next' = in_next + 1
        /\ UNCHANGED <<call, data, in_base_offset, next_hashes, found, search, htVars>>
    BY <1>4 DEF ParseHt
  <2>2. Remaining \in 1 .. (REQUIRED_NBYTES - 1)
    BY <1>2, <1>4, Sizes DEF MaxLen, AtMost
  <2>3. Finder!PassOver
    BY <1>1, <1>2, <2>1, <2>2
       DEF Finder!PassOver, Finder!AtRest, Finder!Remaining, Remaining,
           htVars, hcVars, Finder!htVars, Finder!hcVars
  <2>4. FinderMoves
    BY <2>3 DEF FinderMoves, Finder!Next
  <2>5. CallOK' /\ FinderRests' /\ ResultHolds' /\ MatchHeld'
    BY <1>1, <1>2, <2>1 DEF CallOK, FinderRests, ResultHolds, MatchHeld
  <2>6. QED BY <1>1, <2>1, <2>4, <2>5, WithinCall
<1>5. QED BY <1>3, <1>4

(* What a search of chains to beat best_len leaves.                        *)
LEMMA HcSearchLeaves ==
  ASSUME CompressorInv, kind = "hc", Remaining > 0,
         NEW best_len \in 0 .. (MAX_MATCH_LEN - 1), NEW depth \in 1 .. DEPTH,
         HcLongestMatch(best_len, MaxLen, NiceLen, depth), UNCHANGED <<strategy, htVars>>
  PROVE  /\ FinderMoves
         /\ in_next' = in_next + 1 /\ UNCHANGED data
         /\ found'.at = in_next
         /\ found'.length <= MAX_MATCH_LEN
         /\ found'.offset = 0 => found'.length = best_len
         /\ search'.pc \in {"ready", "chain", "extend"}
         /\ search'.pc # "ready" => search'.max <= MAX_MATCH_LEN
<1>1. FinderMoves
  BY HcSearches DEF CompressorInv, FinderMoves, Finder!Next
<1>2. Remaining \in Nat
  BY FinderFacts DEF CompressorInv, Remaining
<1>3. /\ MaxLen \in Nat /\ MaxLen <= MAX_MATCH_LEN /\ NiceLen \in Nat
      /\ best_len \in Nat /\ best_len <= MAX_MATCH_LEN /\ depth \in Int
  BY <1>2, Sizes DEF MaxLen, NiceLen, AtMost
<1>4. Family!HcLongestMatch(best_len, MaxLen, NiceLen, depth)
  BY SameSearches
<1>5. /\ found'.at = in_next
      /\ found'.length <= Family!AtLeast(best_len, MaxLen)
      /\ found'.offset = 0 => found'.length = best_len
      /\ search'.pc \in {"ready", "chain", "extend"}
      /\ search'.pc # "ready" => search'.max = MaxLen
  BY <1>3, <1>4, FamilyAssumed, Family!HcFinds DEF CompressorInv
<1>6. Family!FinderInv'
  BY <1>1, FinderKept DEF CompressorInv
<1>7. found'.length \in Nat
  BY <1>6 DEF Family!FinderInv, Family!TypesHold, Family!FamilyTypeOK
<1>8. found'.length <= MAX_MATCH_LEN
  <2>1. Family!AtLeast(best_len, MaxLen) \in {best_len, MaxLen}
    BY DEF Family!AtLeast
  <2>2. QED BY <1>3, <1>5, <1>7, <2>1, Sizes
<1>9. in_next' = in_next + 1 /\ UNCHANGED data
  BY DEF HcLongestMatch
<1>10. QED BY <1>1, <1>3, <1>5, <1>8, <1>9

LEMMA ParseHcKeeps ==
  ASSUME CompressorInv, ParseHc
  PROVE  FinderMoves /\ CompressorInv'
<1>1. /\ call.pc = "parse" /\ kind = "hc" /\ ~BlockOver
      /\ HcLongestMatch(call.min_len - 1, MaxLen, NiceLen, DEPTH)
      /\ call' = [call EXCEPT !.pc = "judge"]
      /\ UNCHANGED <<strategy, kept, caller, snapshot, htVars>>
  BY DEF ParseHc, Parsing, Goto
<1>2. /\ Remaining > 0 /\ in_next \in Nat /\ CallOK /\ UNCHANGED kind
      /\ call.min_len \in MinLens
  BY <1>1, BlockGoesOn, FinderFacts DEF CompressorInv, ResultHolds, kind
<1>3. call.min_len - 1 \in 0 .. (MAX_MATCH_LEN - 1) /\ DEPTH \in 1 .. DEPTH
  <2>1. call.min_len \in 2 .. (MAX_MATCH_LEN - 1)
    BY <1>2, Sizes
  <2>2. QED BY <2>1, Sizes
<1>4. /\ FinderMoves
      /\ in_next' = in_next + 1
      /\ found'.at = in_next
      /\ found'.length <= MAX_MATCH_LEN
      /\ found'.offset = 0 => found'.length = call.min_len - 1
      /\ search'.pc \in {"ready", "chain", "extend"}
      /\ search'.pc # "ready" => search'.max <= MAX_MATCH_LEN
  BY <1>1, <1>2, <1>3, HcSearchLeaves
<1>5. call'.pc = "judge" /\ CallOK' /\ call'.min_len = call.min_len
  BY <1>1, <1>2 DEF CallOK
<1>6. FinderRests' /\ MatchHeld'
  BY <1>4, <1>5 DEF FinderRests, MatchHeld
<1>7. ResultHolds'
  BY <1>1, <1>2, <1>4, <1>5 DEF ResultHolds, ToBeat
<1>8. QED BY <1>1, <1>4, <1>5, <1>6, <1>7, WithinCall

LEMMA FollowKeeps ==
  ASSUME CompressorInv, Follow
  PROVE  FinderMoves /\ CompressorInv'
<1>1. /\ HcChain \/ HcExtend
      /\ UNCHANGED <<strategy, kept, call, caller, snapshot, htVars>>
  BY DEF Follow, compressorVars
<1>2. /\ search.pc \in {"chain", "extend"} /\ UNCHANGED <<data, in_next>>
  BY <1>1 DEF HcChain, HcExtend
<1>3. kind = "hc" /\ UNCHANGED kind
  BY <1>1, <1>2, FinderFacts DEF CompressorInv, kind
<1>4. Finder!Follow
  <2>1. Finder!HcChain \/ Finder!HcExtend
    BY <1>1, SameActions
  <2>2. QED BY <1>1, <1>3, <2>1 DEF Finder!Follow, Finder!OnlyHc, htVars, Finder!htVars
<1>5. FinderMoves
  BY <1>4 DEF FinderMoves, Finder!Next
<1>6. call.pc \in {"judge", "compare"}
  BY <1>2 DEF CompressorInv, FinderRests, CallOK
<1>7. /\ found.at + 1 = in_next /\ found.length <= MAX_MATCH_LEN
      /\ found.offset = 0 => found.length = ToBeat
      /\ search.max <= MAX_MATCH_LEN /\ search.max \in Nat
      /\ call.min_len \in MinLens
  BY <1>2, <1>6, FinderFacts DEF CompressorInv, ResultHolds
<1>8. /\ found'.at = found.at
      /\ found' = found \/ (found'.offset # 0 /\ found'.length <= search.max)
      /\ search'.pc \in {"ready", "chain", "extend"}
      /\ search'.pc # "ready" => search'.max = search.max
  <2>1. Family!HcChain \/ Family!HcExtend
    BY <1>1, SameSearches
  <2>2. QED BY <2>1, FamilyAssumed, Family!FollowFinds DEF CompressorInv
<1>9. Family!FinderInv'
  BY <1>1, <1>5, FinderKept DEF CompressorInv
<1>10. found'.length \in Nat
  BY <1>9 DEF Family!FinderInv, Family!TypesHold, Family!FamilyTypeOK
<1>11. ResultHolds'
  <2>1. ToBeat' = ToBeat
    BY <1>1, <1>3 DEF ToBeat
  <2>2. found'.length <= MAX_MATCH_LEN
    BY <1>7, <1>8, <1>10, Sizes
  <2>3. found'.offset = 0 => found'.length = ToBeat
    BY <1>7, <1>8
  <2>4. QED BY <1>1, <1>2, <1>6, <1>7, <1>8, <2>1, <2>2, <2>3 DEF ResultHolds
<1>12. CallOK' /\ FinderRests' /\ MatchHeld'
  BY <1>1, <1>2, <1>3, <1>6, <1>8 DEF CompressorInv, CallOK, FinderRests, MatchHeld
<1>13. QED BY <1>1, <1>5, <1>6, <1>11, <1>12, WithinCall

LEMMA SkipOneKeeps ==
  ASSUME CompressorInv, SkipOne
  PROVE  FinderMoves /\ CompressorInv'
<1>1. /\ (HtSkipOne /\ UNCHANGED hcVars) \/ (HcSkipOne /\ UNCHANGED htVars)
      /\ UNCHANGED <<strategy, kept, call, caller, snapshot>>
  BY DEF SkipOne, compressorVars
<1>2. /\ HtSkipOne => kind = "ht" /\ Remaining >= 1
      /\ HcSkipOne => kind = "hc" /\ Remaining >= 1
      /\ Remaining \in Int
  BY FinderFacts DEF CompressorInv, HtSkipOne, HcSkipOne, Remaining
<1>3. FinderMoves
  <2>1. Remaining \in Nat /\ 1 <= Remaining
    BY <1>1, <1>2
  <2>2. Finder!Skip
    BY <1>1, <1>2, <2>1, Skips, Sizes
  <2>3. QED BY <2>2 DEF FinderMoves, Finder!Next
<1>4. /\ search.pc \in {"ht_skip", "hc_skip"}
      /\ search'.pc \in {"ready", search.pc}
  <2>1. search \in Family!Searches
    BY DEF CompressorInv, Family!FinderInv, Family!TypesHold
  <2>2. QED BY <1>1, <2>1 DEF HtSkipOne, HcSkipOne, Ready, Family!Searches
<1>5. call.pc = "parse"
  BY <1>4 DEF CompressorInv, FinderRests, CallOK
<1>6. CallOK' /\ FinderRests' /\ ResultHolds' /\ MatchHeld'
  BY <1>1, <1>4, <1>5 DEF CompressorInv, CallOK, FinderRests, ResultHolds, MatchHeld
<1>7. QED BY <1>1, <1>3, <1>5, <1>6, WithinCall

(* A match that is real, in the window and still ahead can be taken: its   *)
(* offset has a slot, and the skip over the rest of it is legal.           *)
LEMMA TakeKeeps ==
  ASSUME CompressorInv, search.pc = "ready", call.pc # "idle",
         NEW length, NEW offset \in 1 .. WINDOW_SIZE, NEW count \in Nat,
         count <= Remaining, count <= WINDOW_SIZE, call.min_len \in MinLens,
         Take(length, offset, count)
  PROVE  FinderMoves /\ CompressorInv'
<1>1. /\ UNCHANGED <<strategy, kept, caller, snapshot>>
      /\ call' = [call EXCEPT !.pc = "parse"]
      /\ IF count = 0 THEN UNCHANGED <<windowVars, htVars, hcVars>>
         ELSE IF kind = "ht" THEN HtSkip(count) /\ UNCHANGED hcVars
                             ELSE HcSkip(count) /\ UNCHANGED htVars
  BY DEF Take, Parsing, HasSlot, Goto
<1>2. Remaining \in Nat /\ kind \in {"ht", "hc"} /\ CallOK
  BY FinderFacts DEF CompressorInv, Remaining, kind
<1>3. FinderMoves /\ search'.pc \in {"ready", "ht_skip", "hc_skip"}
  <2>1. CASE count = 0
    BY <1>1, <2>1 DEF FinderMoves, windowVars
  <2>2. CASE count # 0 /\ kind = "ht"
    <3>1. HtSkip(count) /\ UNCHANGED hcVars
      BY <1>1, <2>2
    <3>2. Finder!Skip
      BY <1>1, <1>2, <2>2, <3>1, Skips
    <3>3. search'.pc \in {"ready", "ht_skip"}
      BY <3>1 DEF HtSkip, Ready
    <3>4. QED BY <3>2, <3>3 DEF FinderMoves, Finder!Next
  <2>3. CASE count # 0 /\ kind = "hc"
    <3>1. HcSkip(count) /\ UNCHANGED htVars
      BY <1>1, <2>3
    <3>2. Finder!Skip
      BY <1>1, <1>2, <2>3, <3>1, Skips
    <3>3. search'.pc \in {"ready", "hc_skip"}
      BY <3>1 DEF HcSkip, Ready
    <3>4. QED BY <3>2, <3>3 DEF FinderMoves, Finder!Next
  <2>4. QED BY <1>2, <2>1, <2>2, <2>3
<1>4. call'.pc = "parse" /\ CallOK' /\ call'.min_len = call.min_len
  BY <1>1, <1>2 DEF CallOK
<1>5. FinderRests' /\ ResultHolds' /\ MatchHeld'
  BY <1>3, <1>4 DEF FinderRests, ResultHolds, MatchHeld
<1>6. QED BY <1>1, <1>3, <1>4, <1>5, WithinCall

(* What is worth taking is a match.                                        *)
LEMMA WorthIsReal ==
  ASSUME CompressorInv, call.pc \in {"judge", "compare"}, found.length > ToBeat
  PROVE  /\ found.offset \in 1 .. WINDOW_SIZE
         /\ found.length \in Nat /\ found.length <= MAX_MATCH_LEN
         /\ in_next + found.length <= Len(data) + 1
         /\ found.at + 1 = in_next
<1>1. /\ data \in Seq(Byte) /\ Len(data) \in Nat /\ in_next \in Nat
      /\ found.length \in Nat /\ found.offset \in Nat /\ found.at \in Nat
  BY FinderFacts DEF CompressorInv
<1>2. found.offset # 0 /\ found.length <= MAX_MATCH_LEN /\ found.at + 1 = in_next
  BY <1>1 DEF CompressorInv, ResultHolds
<1>3. /\ found.offset \in 1 .. found.at /\ found.offset < WINDOW_SIZE
      /\ found.at + found.length <= Len(data)
  BY <1>2 DEF CompressorInv, MatchIsReal
<1>4. QED BY <1>1, <1>2, <1>3, Sizes

LEMMA JudgeMatchKeeps ==
  ASSUME CompressorInv, JudgeMatch
  PROVE  FinderMoves /\ CompressorInv'
<1>1. call.pc = "judge" /\ search.pc = "ready" /\ Worth
  BY DEF JudgeMatch
<1>2. /\ call.min_len \in MinLens /\ CallOK
      /\ call.min_len \in Nat /\ call.min_len >= 2
  <2>1. call.min_len \in MinLens /\ CallOK
    BY <1>1 DEF CompressorInv, ResultHolds
  <2>2. call.min_len \in 2 .. (MAX_MATCH_LEN - 1)
    BY <2>1, Sizes
  <2>3. call.min_len \in Nat /\ call.min_len >= 2
    BY <2>2, Sizes
  <2>4. QED BY <2>1, <2>3
<1>3. /\ found.length \in Nat /\ Len(data) \in Nat /\ in_next \in Nat
      /\ in_next <= Len(data)
  BY FinderFacts DEF CompressorInv
<1>4. /\ found.length > ToBeat /\ found.length >= 1
      /\ strategy # "ht" => found.length >= 2
  BY <1>1, <1>2, <1>3 DEF Worth, ToBeat, kind
<1>5. /\ found.offset \in 1 .. WINDOW_SIZE /\ found.length <= MAX_MATCH_LEN
      /\ in_next + found.length <= Len(data) + 1
  BY <1>1, <1>4, WorthIsReal
<1>6. CASE strategy = "lazy"
  <2>1. /\ call' = [call EXCEPT !.pc = "lazy", !.length = found.length,
                                !.offset = found.offset]
        /\ UNCHANGED <<strategy, kept, caller, snapshot, windowVars, htVars, hcVars>>
    BY <1>6 DEF JudgeMatch, Parsing
  <2>2. /\ FinderMoves /\ UNCHANGED <<kind, data, in_next, search>> /\ kind = "hc"
    BY <1>6, <2>1 DEF FinderMoves, windowVars, kind
  <2>3. /\ call'.pc = "lazy" /\ CallOK' /\ call'.min_len = call.min_len
        /\ call'.length = found.length /\ call'.offset = found.offset
    BY <1>2, <1>3, <1>5, <2>1, Sizes DEF CallOK
  <2>4. FinderRests' /\ ResultHolds'
    BY <1>1, <1>2, <2>2, <2>3 DEF FinderRests, ResultHolds
  <2>5. MatchHeld'
    BY <1>3, <1>4, <1>5, <1>6, <2>2, <2>3, Sizes DEF MatchHeld
  <2>6. QED BY <2>1, <2>2, <2>3, <2>4, <2>5, WithinCall
<1>7. CASE strategy # "lazy"
  <2>1. Take(found.length, found.offset, found.length - 1)
    BY <1>7 DEF JudgeMatch
  <2>2. /\ found.length - 1 \in Nat /\ found.length - 1 <= Remaining
        /\ found.length - 1 <= WINDOW_SIZE
    BY <1>3, <1>4, <1>5, Sizes DEF Remaining
  <2>3. QED BY <1>1, <1>2, <1>5, <2>1, <2>2, TakeKeeps
<1>8. QED BY <1>6, <1>7

LEMMA JudgeLiteralKeeps ==
  ASSUME CompressorInv, JudgeLiteral
  PROVE  FinderMoves /\ CompressorInv'
<1>1. /\ call.pc = "judge" /\ search.pc = "ready"
      /\ call' = [call EXCEPT !.pc = "parse"]
      /\ UNCHANGED <<strategy, kept, caller, snapshot, windowVars, htVars, hcVars>>
  BY DEF JudgeLiteral, Parsing, Goto
<1>2. FinderMoves /\ UNCHANGED search
  BY <1>1 DEF FinderMoves, windowVars
<1>3. call'.pc = "parse" /\ CallOK'
  BY <1>1 DEF CompressorInv, CallOK
<1>4. FinderRests' /\ ResultHolds' /\ MatchHeld'
  BY <1>1, <1>2, <1>3 DEF CompressorInv, CallOK, FinderRests, ResultHolds, MatchHeld
<1>5. QED BY <1>1, <1>2, <1>3, <1>4, WithinCall

LEMMA LazyTakeKeeps ==
  ASSUME CompressorInv, LazyTake
  PROVE  FinderMoves /\ CompressorInv'
<1>1. call.pc = "lazy" /\ Take(call.length, call.offset, call.length - 1)
  BY DEF LazyTake
<1>2. /\ search.pc = "ready" /\ call.min_len \in MinLens
      /\ call.offset \in 1 .. WINDOW_SIZE /\ call.length \in 2 .. MAX_MATCH_LEN
      /\ in_next + call.length <= Len(data) + 1
      /\ Len(data) \in Nat /\ in_next \in Nat
  BY <1>1, FinderFacts DEF CompressorInv, FinderRests, ResultHolds, MatchHeld
<1>3. /\ call.length - 1 \in Nat /\ call.length - 1 <= Remaining
      /\ call.length - 1 <= WINDOW_SIZE
  BY <1>2, Sizes DEF Remaining
<1>4. QED BY <1>1, <1>2, <1>3, TakeKeeps

LEMMA LazyLookKeeps ==
  ASSUME CompressorInv, LazyLook
  PROVE  FinderMoves /\ CompressorInv'
<1>1. /\ call.pc = "lazy"
      /\ call.length < AtMost(NICE_LEN, Remaining + 1)
      /\ HcLongestMatch(call.length - 1, MaxLen, NiceLen, DEPTH \div 2)
      /\ call' = [call EXCEPT !.pc = "compare"]
      /\ UNCHANGED <<strategy, kept, caller, snapshot, htVars>>
  BY DEF LazyLook, Parsing, Goto
<1>2. /\ kind = "hc" /\ UNCHANGED kind /\ CallOK /\ call.min_len \in MinLens
      /\ call.offset \in 1 .. WINDOW_SIZE /\ call.length \in 2 .. MAX_MATCH_LEN
      /\ in_next + call.length <= Len(data) + 1
      /\ Len(data) \in Nat /\ in_next \in Nat
  BY <1>1, FinderFacts DEF CompressorInv, ResultHolds, MatchHeld, kind
<1>3. Remaining > 0
  BY <1>1, <1>2, Sizes DEF AtMost, Remaining
<1>4. call.length - 1 \in 0 .. (MAX_MATCH_LEN - 1) /\ DEPTH \div 2 \in 1 .. DEPTH
  BY <1>2, Sizes
<1>5. /\ FinderMoves
      /\ in_next' = in_next + 1 /\ UNCHANGED data
      /\ found'.at = in_next
      /\ found'.length <= MAX_MATCH_LEN
      /\ found'.offset = 0 => found'.length = call.length - 1
      /\ search'.pc \in {"ready", "chain", "extend"}
      /\ search'.pc # "ready" => search'.max <= MAX_MATCH_LEN
  BY <1>1, <1>2, <1>3, <1>4, HcSearchLeaves
<1>6. /\ call'.pc = "compare" /\ CallOK' /\ call'.min_len = call.min_len
      /\ call'.length = call.length /\ call'.offset = call.offset
  BY <1>1, <1>2 DEF CallOK
<1>7. FinderRests' /\ ResultHolds'
  BY <1>2, <1>5, <1>6 DEF FinderRests, ResultHolds, ToBeat
<1>8. MatchHeld'
  BY <1>2, <1>5, <1>6 DEF MatchHeld
<1>9. QED BY <1>1, <1>5, <1>6, <1>7, <1>8, WithinCall

LEMMA LazyBetterKeeps ==
  ASSUME CompressorInv, LazyBetter
  PROVE  FinderMoves /\ CompressorInv'
<1>1. /\ call.pc = "compare" /\ search.pc = "ready"
      /\ found.length >= call.length
      /\ call' = [call EXCEPT !.pc = "lazy", !.length = found.length,
                              !.offset = found.offset]
      /\ UNCHANGED <<strategy, kept, caller, snapshot, windowVars, htVars, hcVars>>
  BY DEF LazyBetter, Parsing
<1>2. /\ kind = "hc" /\ CallOK /\ call.min_len \in MinLens
      /\ call.length \in 2 .. MAX_MATCH_LEN
      /\ Len(data) \in Nat /\ in_next \in Nat /\ found.length \in Nat
  BY <1>1, FinderFacts DEF CompressorInv, ResultHolds, MatchHeld
<1>3. found.length > ToBeat
  BY <1>1, <1>2 DEF ToBeat
<1>4. /\ found.offset \in 1 .. WINDOW_SIZE /\ found.length <= MAX_MATCH_LEN
      /\ in_next + found.length <= Len(data) + 1
  BY <1>1, <1>3, WorthIsReal
<1>5. FinderMoves /\ UNCHANGED <<kind, data, in_next, search>>
  BY <1>1 DEF FinderMoves, windowVars, kind
<1>6. /\ call'.pc = "lazy" /\ CallOK' /\ call'.min_len = call.min_len
      /\ call'.length = found.length /\ call'.offset = found.offset
  BY <1>1, <1>2, <1>4, Sizes DEF CallOK
<1>7. FinderRests' /\ ResultHolds'
  BY <1>1, <1>2, <1>5, <1>6 DEF FinderRests, ResultHolds
<1>8. MatchHeld'
  BY <1>1, <1>2, <1>4, <1>5, <1>6, Sizes DEF MatchHeld
<1>9. QED BY <1>1, <1>5, <1>6, <1>7, <1>8, WithinCall

LEMMA LazyKeepKeeps ==
  ASSUME CompressorInv, LazyKeep
  PROVE  FinderMoves /\ CompressorInv'
<1>1. /\ call.pc = "compare" /\ search.pc = "ready"
      /\ Take(call.length, call.offset, call.length - 2)
  BY DEF LazyKeep, LazySkip
<1>2. /\ call.min_len \in MinLens
      /\ call.offset \in 1 .. WINDOW_SIZE /\ call.length \in 2 .. MAX_MATCH_LEN
      /\ in_next + call.length <= Len(data) + 2
      /\ Len(data) \in Nat /\ in_next \in Nat
  BY <1>1, FinderFacts DEF CompressorInv, ResultHolds, MatchHeld
<1>3. /\ call.length - 2 \in Nat /\ call.length - 2 <= Remaining
      /\ call.length - 2 <= WINDOW_SIZE
  BY <1>2, Sizes DEF Remaining
<1>4. QED BY <1>1, <1>2, <1>3, TakeKeeps

-------------------------------------------------------------------------------

(* Every step moves the finder legally or restores it, and keeps the       *)
(* invariant.                                                              *)
LEMMA StepKeeps ==
  ASSUME ~Retries, CompressorInv, Next
  PROVE  (FinderMoves \/ Restore) /\ CompressorInv'
<1>1. CASE CallStep
  <2>1. CASE Stopped
    BY <2>1, StoppedKeeps
  <2>2. CASE EndCall
    BY <2>2, EndCallKeeps
  <2>3. CASE \E min_len \in MinLens : BeginBlock(min_len)
    BY <2>3, BeginBlockKeeps
  <2>4. CASE \E type \in {"block", "stored"} : EndBlock(type)
    BY <2>4, EndBlockKeeps
  <2>5. CASE ParseHt
    BY <2>5, ParseHtKeeps
  <2>6. CASE ParseHc
    BY <2>6, ParseHcKeeps
  <2>7. CASE Follow
    BY <2>7, FollowKeeps
  <2>8. CASE SkipOne
    BY <2>8, SkipOneKeeps
  <2>9. CASE JudgeMatch
    BY <2>9, JudgeMatchKeeps
  <2>10. CASE JudgeLiteral
    BY <2>10, JudgeLiteralKeeps
  <2>11. CASE LazyTake
    BY <2>11, LazyTakeKeeps
  <2>12. CASE LazyLook
    BY <2>12, LazyLookKeeps
  <2>13. CASE LazyBetter
    BY <2>13, LazyBetterKeeps
  <2>14. CASE LazyKeep
    BY <2>14, LazyKeepKeeps
  <2>15. QED BY <1>1, <2>1, <2>2, <2>3, <2>4, <2>5, <2>6, <2>7, <2>8, <2>9, <2>10,
                <2>11, <2>12, <2>13, <2>14, Zenon DEF CallStep
<1>2. CASE \E final \in BOOLEAN, room \in Rooms : BeginCall("compress", final, room)
  BY <1>2, BeginCallKeeps
<1>3. CASE BeginCall("estimate", FALSE, 0)
  BY <1>3, BeginCallKeeps
<1>4. CASE TakeSnapshot
  BY <1>4, TakeSnapshotKeeps
<1>5. CASE Restore
  BY <1>5, RestoreKeeps
<1>6. CASE IncrementalReset
  BY <1>6, IncrementalResetKeeps
<1>7. QED BY <1>1, <1>2, <1>3, <1>4, <1>5, <1>6, Zenon DEF Next

(* A step that changes nothing.                                            *)
LEMMA StutterKeeps ==
  ASSUME CompressorInv, UNCHANGED vars
  PROVE  FinderMoves /\ CompressorInv'
<1>1. UNCHANGED <<strategy, kept, call, caller, snapshot, windowVars, htVars, hcVars>>
  BY DEF vars, compressorVars
<1>2. FinderMoves /\ UNCHANGED <<kind, data, in_next, in_base_offset, found, search>>
  BY <1>1 DEF FinderMoves, windowVars, kind
<1>3. Family!FinderInv' /\ MatchIsReal'
  BY <1>1, <1>2, FinderKept DEF CompressorInv
<1>4. KeptOK' /\ CallOK' /\ CallerOK' /\ FinderRests' /\ MatchHeld' /\ FinderWaits'
  BY <1>1, <1>2 DEF CompressorInv, KeptOK, CallOK, CallerOK, FinderRests, MatchHeld,
                    FinderWaits
<1>5. ResultHolds'
  BY <1>1, <1>2 DEF CompressorInv, ResultHolds, ToBeat
<1>6. SnapshotHolds'
  BY <1>1, SnapshotStays DEF CompressorInv
<1>7. QED BY <1>2, <1>3, <1>4, <1>5, <1>6 DEF CompressorInv

LEMMA CompressorInvHolds == ~Retries => (Spec => []CompressorInv)
<1> SUFFICES ASSUME ~Retries PROVE Spec => []CompressorInv
  OBVIOUS
<1>1. Init => CompressorInv
  BY InitHolds
<1>2. CompressorInv /\ [Next]_vars => CompressorInv'
  BY StepKeeps, StutterKeeps
<1>3. QED BY <1>1, <1>2, PTL DEF Spec

(* Calls with more input, blocks, the three parsers, errors, estimates,    *)
(* snapshots and resets use the match finder only as MatchFinder allows:   *)
(* every search is inside the input and every skip behind a match stays    *)
(* there; only a restore puts the finder back.  So what FinderProofs shows *)
(* of its tables holds for the compressor.                                 *)
THEOREM CompressorUsesFinder == ~Retries => (Spec => UsesFinder)
<1> SUFFICES ASSUME ~Retries PROVE Spec => UsesFinder
  OBVIOUS
<1>1. CompressorInv /\ [Next]_vars => [Finder!Next \/ Restore]_<<windowVars, htVars, hcVars>>
  BY StepKeeps, StutterKeeps DEF FinderMoves
<1>2. QED BY <1>1, CompressorInvHolds, PTL DEF Spec, UsesFinder

(* No token asks for the slot of an offset that has none (block.rs 125), if *)
(* callers answer an error with restore or reset.                          *)
THEOREM CompressorNeverPanics == ~Retries => (Spec => []NeverPanics)
<1> SUFFICES ASSUME ~Retries PROVE Spec => []NeverPanics
  OBVIOUS
<1>1. CompressorInv => NeverPanics
  BY DEF CompressorInv, CallOK, NeverPanics
<1>2. QED BY <1>1, CompressorInvHolds, PTL

(* And what the parsers are handed is a match: the bytes it stands for are *)
(* those at its offset, whatever calls, pieces and snapshots went before.  *)
THEOREM CompressorMatchesAreReal == ~Retries => (Spec => []MatchIsReal)
<1> SUFFICES ASSUME ~Retries PROVE Spec => []MatchIsReal
  OBVIOUS
<1>1. CompressorInv => MatchIsReal
  BY DEF CompressorInv
<1>2. QED BY <1>1, CompressorInvHolds, PTL

-------------------------------------------------------------------------------
(* A writer of blocks: what is in hand, what is written, and the room.     *)

(* A sequence, of whatever. *)
IsSeq(s) == \E S : s \in Seq(S)

(* Bytes a writer has written. *)
Written(o) == Len(o.out) \div BYTE

(* A writer between writes: less than a byte in hand, whole bytes written, *)
(* no more than the room.                                                  *)
WriterOK(o) ==
  /\ o = [bits |-> o.bits, out |-> o.out, room |-> o.room,
          overflow |-> o.overflow, torn |-> o.torn]
  /\ IsSeq(o.bits) /\ Len(o.bits) < BYTE
  /\ IsSeq(o.out) /\ Len(o.out) = BYTE * Written(o)
  /\ o.room \in Nat /\ Written(o) <= o.room
  /\ o.overflow \in BOOLEAN

(* Multiples of a byte. *)
LEMMA Multiples ==
  /\ BYTE \in Nat /\ BYTE > 1
  /\ \A n \in Nat : (BYTE * n) \div BYTE = n
  /\ \A m, n \in Nat : m <= n => BYTE * m <= BYTE * n
  /\ \A m, n \in Nat : BYTE * (m + n) = BYTE * m + BYTE * n
  /\ \A m, n \in Nat : BYTE * m < BYTE * n + BYTE => m <= n
  /\ \A n \in Nat : /\ n \div BYTE \in Nat
                    /\ BYTE * (n \div BYTE) <= n /\ n < BYTE * (n \div BYTE) + BYTE
<1>1. BYTE \in Nat /\ BYTE > 1
  BY WriterAssumption
<1>2. ASSUME NEW n \in Nat PROVE (BYTE * n) \div BYTE = n
  BY <1>1
<1>3. ASSUME NEW m \in Nat, NEW n \in Nat, m <= n PROVE BYTE * m <= BYTE * n
  BY <1>1, <1>3
<1>4. ASSUME NEW m \in Nat, NEW n \in Nat PROVE BYTE * (m + n) = BYTE * m + BYTE * n
  BY <1>1
<1>5. ASSUME NEW m \in Nat, NEW n \in Nat, BYTE * m < BYTE * n + BYTE PROVE m <= n
  <2> SUFFICES ASSUME ~(m <= n) PROVE FALSE
    OBVIOUS
  <2>1. n + 1 \in Nat /\ n + 1 <= m
    OBVIOUS
  <2>2. BYTE * (n + 1) <= BYTE * m
    BY <1>3, <2>1
  <2>3. BYTE * (n + 1) = BYTE * n + BYTE
    BY <1>1
  <2>4. BYTE * n \in Nat /\ BYTE * m \in Nat
    BY <1>1
  <2>5. QED BY <1>1, <1>5, <2>2, <2>3, <2>4
<1>6. ASSUME NEW n \in Nat
      PROVE  /\ n \div BYTE \in Nat
             /\ BYTE * (n \div BYTE) <= n /\ n < BYTE * (n \div BYTE) + BYTE
  BY <1>1
<1>7. QED BY <1>1, <1>2, <1>3, <1>4, <1>5, <1>6

(* What sequences are put together and cut to. *)
LEMMA SeqFacts ==
  ASSUME NEW s, IsSeq(s)
  PROVE  /\ Len(s) \in Nat
         /\ \A t : IsSeq(t) => IsSeq(s \o t) /\ Len(s \o t) = Len(s) + Len(t)
         /\ \A e : IsSeq(Append(s, e))
         /\ \A m, n \in Nat :
              m >= 1 /\ n <= Len(s) =>
                /\ IsSeq(SubSeq(s, m, n))
                /\ Len(SubSeq(s, m, n)) = IF m <= n THEN n - m + 1 ELSE 0
<1>1. PICK S : s \in Seq(S)
  BY DEF IsSeq
<1>2. Len(s) \in Nat
  BY <1>1
<1>3. ASSUME NEW t, IsSeq(t)
      PROVE  IsSeq(s \o t) /\ Len(s \o t) = Len(s) + Len(t)
  <2>1. PICK T : t \in Seq(T)
    BY <1>3 DEF IsSeq
  <2>2. s \in Seq(S \cup T) /\ t \in Seq(S \cup T)
    BY <1>1, <2>1
  <2>3. s \o t \in Seq(S \cup T) /\ Len(s \o t) = Len(s) + Len(t)
    BY <2>2
  <2>4. QED BY <2>3 DEF IsSeq
<1>4. ASSUME NEW e PROVE IsSeq(Append(s, e))
  <2>1. s \in Seq(S \cup {e}) /\ e \in S \cup {e}
    BY <1>1
  <2>2. Append(s, e) \in Seq(S \cup {e})
    BY <2>1
  <2>3. QED BY <2>2 DEF IsSeq
<1>5. ASSUME NEW m \in Nat, NEW n \in Nat, m >= 1, n <= Len(s)
      PROVE  /\ IsSeq(SubSeq(s, m, n))
             /\ Len(SubSeq(s, m, n)) = IF m <= n THEN n - m + 1 ELSE 0
  <2>1. SubSeq(s, m, n) \in Seq(S) /\ Len(SubSeq(s, m, n)) = IF m <= n THEN n - m + 1 ELSE 0
    BY <1>1, <1>5
  <2>2. QED BY <2>1 DEF IsSeq
<1>6. QED BY <1>2, <1>3, <1>4, <1>5

(* Sequences written out. *)
LEMMA Lists ==
  /\ IsSeq(<<>>) /\ Len(<<>>) = 0
  /\ \A e : IsSeq(<<e>>) /\ Len(<<e>>) = 1
  /\ \A n \in Nat : IsSeq(Fill(n)) /\ Len(Fill(n)) = n
<1>1. <<>> \in Seq({}) /\ Len(<<>>) = 0
  OBVIOUS
<1>2. ASSUME NEW e PROVE <<e>> \in Seq({e}) /\ Len(<<e>>) = 1
  OBVIOUS
<1>3. ASSUME NEW n \in Nat PROVE Fill(n) \in Seq({<<"fill", 0, 0>>}) /\ Len(Fill(n)) = n
  BY DEF Fill
<1>4. QED BY <1>1, <1>2, <1>3 DEF IsSeq

(* What a writer with other fields is. *)
LEMMA WriterFields ==
  ASSUME NEW o, WriterOK(o)
  PROVE  /\ BytesLeft(o) = o.room - Written(o)
         /\ Written(o) \in Nat /\ BytesLeft(o) \in Nat
         /\ \A bits : [o EXCEPT !.bits = bits] =
                        [bits |-> bits, out |-> o.out, room |-> o.room,
                         overflow |-> o.overflow, torn |-> o.torn]
<1>1. Len(o.out) \in Nat
  BY SeqFacts DEF WriterOK
<1>2. Written(o) \in Nat
  BY <1>1, Multiples DEF Written
<1>3. ASSUME NEW bits
      PROVE  [o EXCEPT !.bits = bits] =
               [bits |-> bits, out |-> o.out, room |-> o.room,
                overflow |-> o.overflow, torn |-> o.torn]
  BY DEF WriterOK
<1>4. BytesLeft(o) = o.room - Written(o)
  BY DEF BytesLeft, Written
<1>5. o.room \in Nat /\ Written(o) <= o.room
  BY DEF WriterOK
<1>6. QED BY <1>2, <1>3, <1>4, <1>5

(* More bytes at the end of the output, and other bits in hand.            *)
Grown(o, syms, bits) ==
  [bits |-> bits, out |-> o.out \o syms, room |-> o.room,
   overflow |-> o.overflow, torn |-> o.torn]

(* Bytes added to the output, within the room. *)
LEMMA OutputGrows ==
  ASSUME NEW o, WriterOK(o), NEW n \in Nat, n <= BytesLeft(o),
         NEW syms, IsSeq(syms), Len(syms) = BYTE * n,
         NEW bits, IsSeq(bits), Len(bits) < BYTE
  PROVE  LET w == Grown(o, syms, bits)
         IN  /\ WriterOK(w) /\ w.bits = bits /\ w.torn = o.torn
             /\ Written(w) = Written(o) + n /\ BytesLeft(w) = BytesLeft(o) - n
<1> DEFINE w == Grown(o, syms, bits)
<1>1. /\ w.bits = bits /\ w.torn = o.torn /\ w.room = o.room /\ w.out = o.out \o syms
      /\ w.overflow = o.overflow
  BY DEF Grown
<1>2. /\ IsSeq(o.out) /\ Len(o.out) = BYTE * Written(o)
      /\ o.room \in Nat /\ o.overflow \in BOOLEAN
  BY DEF WriterOK
<1>3. /\ BytesLeft(o) = o.room - Written(o) /\ Written(o) \in Nat
  BY WriterFields
<1>4. IsSeq(w.out) /\ Len(w.out) = BYTE * Written(o) + BYTE * n
  <2>1. IsSeq(o.out \o syms) /\ Len(o.out \o syms) = Len(o.out) + Len(syms)
    BY <1>2, SeqFacts
  <2>2. QED BY <1>1, <1>2, <2>1
<1>5. Written(o) + n \in Nat /\ Len(w.out) = BYTE * (Written(o) + n)
  <2>1. BYTE * (Written(o) + n) = BYTE * Written(o) + BYTE * n
    BY <1>3, Multiples
  <2>2. QED BY <1>3, <1>4, <2>1
<1>6. Written(w) = Written(o) + n
  BY <1>5, Multiples DEF Written
<1>7. Written(w) <= w.room
  BY <1>1, <1>2, <1>3, <1>6
<1>8. w = [bits |-> w.bits, out |-> w.out, room |-> w.room,
           overflow |-> w.overflow, torn |-> w.torn]
  BY <1>1 DEF Grown
<1> HIDE DEF w
<1>9. WriterOK(w)
  BY <1>1, <1>2, <1>4, <1>5, <1>6, <1>7, <1>8 DEF WriterOK
<1>10. BytesLeft(w) = BytesLeft(o) - n
  <2>1. BytesLeft(w) = w.room - Written(w)
    BY DEF BytesLeft, Written
  <2>2. QED BY <1>1, <1>2, <1>3, <1>6, <2>1
<1>11. QED BY <1>1, <1>6, <1>9, <1>10 DEF w

(* Other bits in hand. *)
LEMMA BitsReplaced ==
  ASSUME NEW o, WriterOK(o), NEW bits, IsSeq(bits), Len(bits) < BYTE,
         NEW w, w = [o EXCEPT !.bits = bits]
  PROVE  /\ WriterOK(w) /\ w.bits = bits /\ w.torn = o.torn
         /\ Written(w) = Written(o) /\ BytesLeft(w) = BytesLeft(o)
<1>1. w = [bits |-> bits, out |-> o.out, room |-> o.room,
           overflow |-> o.overflow, torn |-> o.torn]
  BY WriterFields
<1>2. /\ w.bits = bits /\ w.torn = o.torn /\ w.room = o.room /\ w.out = o.out
      /\ w.overflow = o.overflow
  BY <1>1
<1>3. Written(w) = Written(o) /\ BytesLeft(w) = BytesLeft(o)
  BY <1>2 DEF Written, BytesLeft
<1>4. QED BY <1>1, <1>2, <1>3 DEF WriterOK

(* Whole bytes that fit are written.                                       *)
LEMMA BytesFit ==
  ASSUME NEW o, WriterOK(o), NEW n \in Nat, n <= BytesLeft(o),
         NEW syms, IsSeq(syms), Len(syms) = BYTE * n,
         NEW w, w = WriteBytes(o, syms)
  PROVE  /\ WriterOK(w) /\ w.bits = o.bits /\ w.torn = o.torn
         /\ Written(w) = Written(o) + n /\ BytesLeft(w) = BytesLeft(o) - n
<1>1. BytesLeft(o) \in Nat
  BY WriterFields
<1>2. Len(syms) <= BYTE * BytesLeft(o)
  BY <1>1, Multiples
<1>3. w = [o EXCEPT !.out = @ \o syms]
  BY <1>2 DEF WriteBytes
<1>4. o = [bits |-> o.bits, out |-> o.out, room |-> o.room,
           overflow |-> o.overflow, torn |-> o.torn]
  BY DEF WriterOK
<1>5. w = Grown(o, syms, o.bits)
  BY <1>3, <1>4 DEF Grown
<1>6. IsSeq(o.bits) /\ Len(o.bits) < BYTE
  BY DEF WriterOK
<1>7. QED BY <1>5, <1>6, OutputGrows

(* flush_bits leaves less than a byte, and loses nothing when there is     *)
(* room for the whole bytes.                                               *)
LEMMA FlushLeaves ==
  ASSUME NEW o, WriterOK(o), NEW syms, IsSeq(syms),
         NEW w, w = FlushBits(AddBits(o, syms))
  PROVE  /\ WriterOK(w)
         /\ (Len(o.bits) + Len(syms)) \div BYTE <= BytesLeft(o) => w.torn = o.torn
<1> DEFINE bits == o.bits \o syms
           a == AddBits(o, syms)
           whole == Len(bits) \div BYTE
<1>1. /\ IsSeq(o.bits) /\ Len(o.bits) \in Nat /\ IsSeq(bits)
      /\ Len(bits) = Len(o.bits) + Len(syms)
  BY SeqFacts DEF WriterOK
<1>2. Len(bits) \in Nat
  BY <1>1, SeqFacts
<1>3. a = [o EXCEPT !.bits = bits]
  BY DEF AddBits
<1>4. a = [bits |-> bits, out |-> o.out, room |-> o.room,
           overflow |-> o.overflow, torn |-> o.torn]
  BY <1>3, WriterFields
<1> HIDE DEF a, bits
<1>5. /\ a.bits = bits /\ a.out = o.out /\ a.room = o.room
      /\ a.overflow = o.overflow /\ a.torn = o.torn
  BY <1>4
<1>6. BytesLeft(a) = BytesLeft(o) /\ BytesLeft(o) \in Nat
  BY <1>5, WriterFields DEF BytesLeft
<1>7. /\ whole \in Nat /\ BYTE * whole \in Nat
      /\ BYTE * whole <= Len(bits) /\ Len(bits) < BYTE * whole + BYTE
  BY <1>2, Multiples
<1>8. w = IF whole <= BytesLeft(a)
            THEN [a EXCEPT !.out = @ \o SubSeq(a.bits, 1, BYTE * whole),
                           !.bits = SubSeq(a.bits, BYTE * whole + 1, Len(a.bits))]
            ELSE [a EXCEPT !.overflow = TRUE, !.torn = TRUE, !.bits = <<>>]
  BY <1>5 DEF FlushBits, a
<1> HIDE DEF whole
<1>9. CASE whole <= BytesLeft(o)
  <2> DEFINE out == SubSeq(bits, 1, BYTE * whole)
             rest == SubSeq(bits, BYTE * whole + 1, Len(bits))
  <2>1. w = Grown(o, out, rest)
    <3>1. w = [a EXCEPT !.out = @ \o out, !.bits = rest]
      BY <1>5, <1>6, <1>8, <1>9
    <3> HIDE DEF out, rest
    <3>2. QED BY <1>4, <3>1 DEF Grown
  <2>2. IsSeq(out) /\ Len(out) = BYTE * whole
    <3>1. Len(out) = IF 1 <= BYTE * whole THEN BYTE * whole - 1 + 1 ELSE 0
      BY <1>1, <1>7, SeqFacts
    <3>2. IsSeq(out)
      <4>1. 1 \in Nat /\ 1 >= 1 /\ BYTE * whole <= Len(bits)
        BY <1>7
      <4>2. QED BY <1>1, <1>7, <4>1, SeqFacts, Zenon
    <3> HIDE DEF out
    <3>3. QED BY <1>7, <3>1, <3>2
  <2>3. IsSeq(rest) /\ Len(rest) < BYTE
    <3>1. BYTE * whole + 1 \in Nat /\ BYTE * whole + 1 >= 1 /\ Len(bits) <= Len(bits)
      BY <1>2, <1>7
    <3>2. /\ IsSeq(rest)
          /\ Len(rest) = IF BYTE * whole + 1 <= Len(bits)
                         THEN Len(bits) - (BYTE * whole + 1) + 1 ELSE 0
      BY <1>1, <1>2, <3>1, SeqFacts
    <3> HIDE DEF rest
    <3>3. Len(rest) < BYTE
      BY <1>2, <1>7, <3>2, Multiples
    <3>4. QED BY <3>2, <3>3
  <2> HIDE DEF out, rest
  <2>4. WriterOK(w) /\ w.torn = o.torn
    BY <1>7, <1>9, <2>1, <2>2, <2>3, OutputGrows
  <2>5. QED BY <2>4
<1>10. CASE ~(whole <= BytesLeft(o))
  <2>1. w = [bits |-> <<>>, out |-> o.out, room |-> o.room, overflow |-> TRUE, torn |-> TRUE]
    BY <1>4, <1>6, <1>8, <1>10
  <2>2. /\ w.bits = <<>> /\ w.out = o.out /\ w.room = o.room /\ w.overflow = TRUE
        /\ w = [bits |-> w.bits, out |-> w.out, room |-> w.room,
                overflow |-> w.overflow, torn |-> w.torn]
    BY <2>1
  <2>3. Written(w) = Written(o)
    BY <2>2 DEF Written
  <2>4. WriterOK(w)
    <3>1. IsSeq(w.bits) /\ Len(w.bits) < BYTE /\ w.overflow \in BOOLEAN
      <4>1. IsSeq(<<>>) /\ Len(<<>>) = 0
        BY Lists, Zenon
      <4>2. w.bits = <<>> /\ w.overflow = TRUE
        BY <2>2
      <4>3. 0 < BYTE
        BY Multiples
      <4>4. QED BY <4>1, <4>2, <4>3, Zenon
    <3>2. /\ IsSeq(w.out) /\ Len(w.out) = BYTE * Written(w)
          /\ w.room \in Nat /\ Written(w) <= w.room
      BY <2>2, <2>3 DEF WriterOK
    <3>3. QED BY <2>2, <3>1, <3>2 DEF WriterOK
  <2>5. ~((Len(o.bits) + Len(syms)) \div BYTE <= BytesLeft(o))
    BY <1>1, <1>10 DEF whole
  <2>6. QED BY <2>4, <2>5
<1>11. QED BY <1>9, <1>10

(* Bytes the header of a stored block takes, and the byte of its length.   *)
HeaderBytes(o) == IF Len(o.bits) > BYTE - HEADER THEN 3 ELSE 2

(* What is written of a stored block are sequences. *)
LEMMA HeaderIsSeq ==
  ASSUME NEW what, NEW final, NEW n
  PROVE  IsSeq(Header(what, final, n)) /\ Len(Header(what, final, n)) = HEADER
<1>1. HEADER \in Nat /\ HEADER >= 1 /\ HEADER - 1 \in Nat
  BY WriterAssumption
<1>2. IsSeq(Fill(HEADER - 1)) /\ Len(Fill(HEADER - 1)) = HEADER - 1
  BY <1>1, Lists, Zenon
<1> DEFINE s == <<what, final, n>>
<1>3. IsSeq(<<s>>) /\ Len(<<s>>) = 1
  BY Lists, Zenon
<1>4. /\ IsSeq(<<s>> \o Fill(HEADER - 1))
      /\ Len(<<s>> \o Fill(HEADER - 1)) = Len(<<s>>) + Len(Fill(HEADER - 1))
  BY <1>2, <1>3, SeqFacts, Zenon
<1>5. Header(what, final, n) = <<s>> \o Fill(HEADER - 1)
  BY DEF Header
<1> HIDE DEF s
<1>6. QED BY <1>1, <1>2, <1>3, <1>4, <1>5

LEMMA RawBytesIsSeq ==
  ASSUME NEW bytes, IsSeq(bytes)
  PROVE  IsSeq(RawBytes(bytes)) /\ Len(RawBytes(bytes)) = BYTE * Len(bytes)
<1> DEFINE n == BYTE * Len(bytes)
           F(k) == WholeByte(<<"raw", bytes[(k - 1) \div BYTE + 1], 0>>)[((k - 1) % BYTE) + 1]
           S == {F(k) : k \in 1 .. n}
           s == [k \in 1 .. n |-> F(k)]
<1>1. n \in Nat
  BY SeqFacts, Multiples
<1> HIDE DEF n
<1>2. s \in Seq(S) /\ Len(s) = n
  <2> HIDE DEF F
  <2>1. QED BY <1>1
<1>3. RawBytes(bytes) = s
  BY DEF RawBytes, n
<1> HIDE DEF s, S
<1>4. QED BY <1>2, <1>3 DEF IsSeq, n

(* A stored block, given room for its header, length and bytes.            *)
LEMMA StoredPieceFits ==
  ASSUME NEW o, WriterOK(o), NEW piece, IsSeq(piece), NEW final,
         HeaderBytes(o) + Len(piece) <= BytesLeft(o)
  PROVE  LET w == WriteStoredPiece(o, piece, final)
         IN  /\ WriterOK(w) /\ w.bits = <<>> /\ w.torn = o.torn
             /\ Written(w) = Written(o) + HeaderBytes(o) + Len(piece)
             /\ BytesLeft(w) = BytesLeft(o) - (HeaderBytes(o) + Len(piece))
<1> DEFINE size == IF Len(o.bits) > BYTE - HEADER THEN 2 * BYTE ELSE BYTE
           start == o.bits \o Header("stored", final, Len(piece))
           head == start \o Fill(size - Len(start))
           header == WriteBytes(o, head)
           aligned == [header EXCEPT !.bits = <<>>]
           length == WriteBytes(aligned, Fill(BYTE))
           w == WriteBytes(length, RawBytes(piece))
           n == HeaderBytes(o) - 1
<1>1. /\ BYTE \in Nat /\ BYTE > 1 /\ HEADER \in Nat /\ 1 <= HEADER /\ HEADER < BYTE
  BY WriterAssumption
<1>2. /\ IsSeq(o.bits) /\ Len(o.bits) \in Nat /\ Len(o.bits) < BYTE
  BY SeqFacts DEF WriterOK
<1>3. IsSeq(start) /\ Len(start) = Len(o.bits) + HEADER
  <2>1. /\ IsSeq(Header("stored", final, Len(piece)))
        /\ Len(Header("stored", final, Len(piece))) = HEADER
    BY HeaderIsSeq
  <2>2. QED BY <1>2, <2>1, SeqFacts
<1>4. n \in 1 .. 2 /\ size = BYTE * n /\ size \in Nat /\ Len(start) <= size
  BY <1>1, <1>2, <1>3 DEF HeaderBytes
<1> HIDE DEF start, size
<1>5. IsSeq(head) /\ Len(head) = BYTE * n
  <2>1. size - Len(start) \in Nat /\ Len(start) \in Nat
    BY <1>1, <1>2, <1>3, <1>4
  <2>2. IsSeq(Fill(size - Len(start))) /\ Len(Fill(size - Len(start))) = size - Len(start)
    BY <2>1, Lists, Zenon
  <2>3. IsSeq(head) /\ Len(head) = Len(start) + Len(Fill(size - Len(start)))
    BY <1>3, <2>2, SeqFacts, Zenon
  <2> HIDE DEF head
  <2>4. QED BY <1>4, <2>1, <2>2, <2>3
<1> HIDE DEF head
<1>6. Len(piece) \in Nat /\ BytesLeft(o) \in Nat /\ Written(o) \in Nat
  BY SeqFacts, WriterFields
<1>7. HeaderBytes(o) = n + 1
  BY DEF HeaderBytes
<1> HIDE DEF n
<1>8. n \in Nat /\ n <= BytesLeft(o)
  BY <1>4, <1>6, <1>7
<1>9. /\ WriterOK(header) /\ header.torn = o.torn
      /\ Written(header) = Written(o) + n /\ BytesLeft(header) = BytesLeft(o) - n
  BY <1>5, <1>8, BytesFit
<1> HIDE DEF header
<1>10. IsSeq(<<>>) /\ Len(<<>>) < BYTE
  <2>1. IsSeq(<<>>) /\ Len(<<>>) = 0
    BY Lists, Zenon
  <2>2. 0 < BYTE
    BY <1>1
  <2>3. QED BY <2>1, <2>2, Zenon
<1>11. /\ WriterOK(aligned) /\ aligned.bits = <<>> /\ aligned.torn = header.torn
       /\ Written(aligned) = Written(header) /\ BytesLeft(aligned) = BytesLeft(header)
  BY <1>9, <1>10, BitsReplaced, Zenon
<1> HIDE DEF aligned
<1>12. IsSeq(Fill(BYTE)) /\ Len(Fill(BYTE)) = BYTE * 1
  <2>1. IsSeq(Fill(BYTE)) /\ Len(Fill(BYTE)) = BYTE
    BY <1>1, Lists, Zenon
  <2>2. BYTE * 1 = BYTE
    BY <1>1
  <2>3. QED BY <2>1, <2>2
<1>13. 1 \in Nat /\ 1 <= BytesLeft(aligned)
  BY <1>4, <1>6, <1>7, <1>8, <1>9, <1>11
<1>14. /\ WriterOK(length) /\ length.bits = aligned.bits /\ length.torn = aligned.torn
       /\ Written(length) = Written(aligned) + 1 /\ BytesLeft(length) = BytesLeft(aligned) - 1
  BY <1>11, <1>12, <1>13, BytesFit
<1> HIDE DEF length
<1>15. IsSeq(RawBytes(piece)) /\ Len(RawBytes(piece)) = BYTE * Len(piece)
  BY RawBytesIsSeq
<1>16. Len(piece) <= BytesLeft(length)
  BY <1>4, <1>6, <1>7, <1>8, <1>9, <1>11, <1>14
<1>17. /\ WriterOK(w) /\ w.bits = length.bits /\ w.torn = length.torn
       /\ Written(w) = Written(length) + Len(piece)
       /\ BytesLeft(w) = BytesLeft(length) - Len(piece)
  BY <1>6, <1>14, <1>15, <1>16, BytesFit
<1>18. WriteStoredPiece(o, piece, final) = w
  BY DEF WriteStoredPiece, length, aligned, header, head, start, size
<1> HIDE DEF w
<1>19. /\ WriterOK(w) /\ w.bits = <<>> /\ w.torn = o.torn
  BY <1>9, <1>11, <1>14, <1>17, Zenon
<1>20. /\ Written(w) = Written(o) + HeaderBytes(o) + Len(piece)
       /\ BytesLeft(w) = BytesLeft(o) - (HeaderBytes(o) + Len(piece))
  BY <1>4, <1>6, <1>7, <1>8, <1>9, <1>11, <1>14, <1>17
<1>21. QED BY <1>18, <1>19, <1>20

-------------------------------------------------------------------------------
(* The pieces of a stored block, one after the other.                      *)

Below == {pair \in Nat \X Nat : pair[1] < pair[2]}

(* A set of naturals has a least member.                                   *)
LEMMA LeastNumber ==
  ASSUME NEW S, S \subseteq Nat, S # {}
  PROVE  \E n \in S : \A m \in S : n <= m
<1>1. IsWellFoundedOn(Below, Nat)
  <2>1. OpToRel(<, Nat) = Below
    BY DEF OpToRel, Below
  <2> QED BY <2>1, NatLessThanWellFounded
<1>2. \A R, U : IsWellFoundedOn(R, U) =>
        \A T : T \subseteq U /\ T # {} => \E n \in T : \A m \in T : <<m, n>> \notin R
  BY WFMin, Zenon
<1>3. PICK n \in S : \A m \in S : <<m, n>> \notin Below
  <2> HIDE DEF Below
  <2> QED BY <1>1, <1>2, Zenon
<1>4. ASSUME NEW m \in S PROVE n <= m
  <2>1. n \in Nat /\ m \in Nat
    OBVIOUS
  <2>2. <<m, n>> \notin Below
    BY <1>3
  <2> QED BY <2>1, <2>2 DEF Below
<1> QED BY <1>4

(* Induction, with the set of the numbers a fact holds of.                 *)
LEMMA InductionUpTo ==
  ASSUME NEW N \in Nat, NEW T, 0 \in T,
         \A k \in 1 .. N : k - 1 \in T => k \in T
  PROVE  0 .. N \subseteq T
<1> SUFFICES ASSUME NEW n \in 0 .. N, n \notin T PROVE FALSE
  OBVIOUS
<1> DEFINE Missing == {k \in 0 .. N : k \notin T}
<1>1. Missing \subseteq Nat /\ Missing # {}
  OBVIOUS
<1>2. PICK m \in Missing : \A k \in Missing : m <= k
  BY <1>1, LeastNumber, Zenon
<1>3. m \in 1 .. N /\ m \notin T
  OBVIOUS
<1>4. m - 1 \in 0 .. N /\ ~(m <= m - 1)
  BY <1>3
<1>5. m - 1 \in T
  BY <1>2, <1>4
<1>6. QED BY <1>3, <1>5

(* Bytes in the first i pieces of n.                                       *)
Upto(n, i) == IF i * MAX_STORED < n THEN i * MAX_STORED ELSE n

LEMMA Quotients ==
  ASSUME NEW b \in Nat \ {0}, NEW q \in Nat, NEW r \in 0 .. (b - 1)
  PROVE  (b * q + r) \div b = q
OBVIOUS

(* The pieces cover the bytes, and none is empty. *)
LEMMA PieceCount ==
  ASSUME NEW n \in Nat, n > 0
  PROVE  LET p == (n + MAX_STORED - 1) \div MAX_STORED
         IN  /\ p \in Nat /\ p >= 1 /\ (n - 1) \div MAX_STORED = p - 1
             /\ Upto(n, 0) = 0 /\ Upto(n, p) = n
             /\ \A i \in 1 .. p : /\ Upto(n, i - 1) = (i - 1) * MAX_STORED
                                  /\ (i - 1) * MAX_STORED \in Nat
                                  /\ Upto(n, i) \in Nat
                                  /\ Upto(n, i - 1) < Upto(n, i) /\ Upto(n, i) <= n
<1> DEFINE b == MAX_STORED
           q == (n - 1) \div b
           r == (n - 1) % b
           p == (n + b - 1) \div b
<1>1. b \in Nat /\ b > 0
  BY WriterAssumption
<1>2. q \in Nat /\ r \in 0 .. (b - 1) /\ n - 1 = b * q + r
  BY <1>1
<1> HIDE DEF b, q, r
<1>3. n + b - 1 = b * (q + 1) + r /\ q + 1 \in Nat
  BY <1>1, <1>2
<1>4. p = q + 1
  BY <1>1, <1>2, <1>3, Quotients
<1> HIDE DEF p
<1>5. b * q \in Nat /\ b * q < n /\ n <= b * q + b
  BY <1>1, <1>2
<1>6. ASSUME NEW i \in 1 .. p
      PROVE  /\ (i - 1) * b \in Nat /\ (i - 1) * b < n /\ i * b = (i - 1) * b + b
  <2>1. i - 1 \in Nat /\ q - (i - 1) \in Nat
    BY <1>2, <1>4
  <2>2. b * (q - (i - 1)) \in Nat /\ (i - 1) * b \in Nat
    BY <1>1, <2>1
  <2>3. b * q = (i - 1) * b + b * (q - (i - 1))
    BY <1>1, <1>2, <2>1
  <2>4. i * b = (i - 1) * b + b
    BY <1>1
  <2>5. QED BY <1>5, <2>2, <2>3, <2>4
<1>7. p * b = b * q + b
  BY <1>1, <1>2, <1>4
<1>8. Upto(n, 0) = 0
  BY <1>1 DEF Upto, b
<1>9. Upto(n, p) = n
  <2>1. ~(p * b < n)
    BY <1>1, <1>2, <1>5, <1>7
  <2>2. QED BY <2>1 DEF Upto, b
<1>10. ASSUME NEW i \in 1 .. p
       PROVE  /\ Upto(n, i - 1) = (i - 1) * b
              /\ (i - 1) * b \in Nat
              /\ Upto(n, i) \in Nat
              /\ Upto(n, i - 1) < Upto(n, i) /\ Upto(n, i) <= n
  <2>1. Upto(n, i - 1) = (i - 1) * b
    BY <1>6 DEF Upto, b
  <2>2. Upto(n, i) = IF i * b < n THEN i * b ELSE n
    BY DEF Upto, b
  <2>3. QED BY <1>1, <1>6, <2>1, <2>2
<1>11. QED BY <1>2, <1>4, <1>8, <1>9, <1>10 DEF p, q, b

LEMMA Pieces ==
  ASSUME NEW bytes, IsSeq(bytes), Len(bytes) > 0
  PROVE  LET n == Len(bytes)
             pieces == StoredPieces(bytes)
         IN  /\ Len(pieces) = (n + MAX_STORED - 1) \div MAX_STORED
             /\ \A i \in 1 .. Len(pieces) :
                  /\ IsSeq(pieces[i])
                  /\ Len(pieces[i]) = Upto(n, i) - Upto(n, i - 1)
<1> DEFINE n == Len(bytes)
           p == (n + MAX_STORED - 1) \div MAX_STORED
           pieces == StoredPieces(bytes)
           F(i) == SubSeq(bytes, (i - 1) * MAX_STORED + 1, Upto(n, i))
<1>1. n \in Nat /\ n > 0
  BY SeqFacts
<1>2. p \in Nat
  BY <1>1, PieceCount
<1>3. pieces = [i \in 1 .. p |-> F(i)]
  BY DEF StoredPieces, Upto
<1> HIDE DEF pieces
<1>4. Len(pieces) = p
  <2> HIDE DEF p, F
  <2>1. QED BY <1>2, <1>3
<1>5. ASSUME NEW i \in 1 .. p
      PROVE  IsSeq(pieces[i]) /\ Len(pieces[i]) = Upto(n, i) - Upto(n, i - 1)
  <2> DEFINE lo == (i - 1) * MAX_STORED
             hi == Upto(n, i)
  <2>1. pieces[i] = SubSeq(bytes, lo + 1, hi)
    BY <1>3
  <2>2. /\ lo \in Nat /\ hi \in Nat /\ lo < hi /\ hi <= n /\ Upto(n, i - 1) = lo
    BY <1>1, PieceCount
  <2> HIDE DEF lo, hi, p
  <2>3. lo + 1 \in Nat /\ lo + 1 >= 1 /\ lo + 1 <= hi
    BY <2>2
  <2>4. IsSeq(SubSeq(bytes, lo + 1, hi)) /\ Len(SubSeq(bytes, lo + 1, hi)) = hi - (lo + 1) + 1
    BY <2>2, <2>3, SeqFacts
  <2>5. hi - (lo + 1) + 1 = hi - lo
    BY <2>2
  <2>6. IsSeq(pieces[i]) /\ Len(pieces[i]) = hi - Upto(n, i - 1)
    BY <2>1, <2>2, <2>4, <2>5
  <2>7. QED BY <2>6 DEF hi
<1> HIDE DEF p
<1>6. QED BY <1>4, <1>5 DEF pieces, p

(* The function of WriteUncompressedBlocks.                                *)
Pieced(f, o, pieces, final) ==
  f = [i \in 0 .. Len(pieces) |->
         IF i = 0 THEN o
         ELSE WriteStoredPiece(f[i - 1], pieces[i], IF i = Len(pieces) THEN final ELSE 0)]

(* The writers after each of the pieces. *)
LEMMA PiecedExists ==
  ASSUME NEW o, NEW pieces, Len(pieces) \in Nat, NEW final
  PROVE  \E f : Pieced(f, o, pieces, final)
<1> DEFINE N == Len(pieces)
           Step(s, i) == WriteStoredPiece(s, pieces[i], IF i = N THEN final ELSE 0)
           Known(f, n) == f = [i \in 0 .. n |-> IF i = 0 THEN o ELSE Step(f[i - 1], i)]
           T == {n \in 0 .. N : \E f : Known(f, n)}
<1> HIDE DEF N, Step
<1>1. N \in Nat
  BY DEF N
<1>2. 0 \in T
  <2> DEFINE f == [i \in 0 .. 0 |-> o]
  <2>1. f = [i \in 0 .. 0 |-> IF i = 0 THEN o ELSE Step(f[i - 1], i)]
    OBVIOUS
  <2> HIDE DEF f
  <2>2. QED BY <1>1, <2>1
<1>3. ASSUME NEW n \in 1 .. N, n - 1 \in T PROVE n \in T
  <2>1. PICK g : Known(g, n - 1)
    BY <1>3
  <2> DEFINE f == [i \in 0 .. n |-> IF i = n THEN Step(g[n - 1], n) ELSE g[i]]
  <2>2. ASSUME NEW i \in 0 .. n PROVE f[i] = IF i = 0 THEN o ELSE Step(f[i - 1], i)
    <3>1. CASE i = n
      <4>1. f[i - 1] = g[n - 1] /\ f[i] = Step(g[n - 1], n) /\ i # 0
        BY <3>1
      <4>2. QED BY <3>1, <4>1
    <3>2. CASE i # n
      <4>1. i \in 0 .. (n - 1) /\ f[i] = g[i]
        BY <3>2
      <4>2. i # 0 => f[i - 1] = g[i - 1]
        BY <3>2
      <4>3. g[i] = IF i = 0 THEN o ELSE Step(g[i - 1], i)
        BY <2>1, <4>1
      <4>4. QED BY <4>1, <4>2, <4>3
    <3>3. QED BY <3>1, <3>2
  <2>3. f = [i \in 0 .. n |-> f[i]]
    OBVIOUS
  <2> HIDE DEF f
  <2>4. Known(f, n)
    BY <2>2, <2>3
  <2>5. QED BY <2>4
<1> HIDE DEF T
<1>4. N \in T
  BY <1>1, <1>2, <1>3, InductionUpTo
<1>5. \E f : Known(f, N)
  BY <1>4 DEF T
<1>6. QED BY <1>5 DEF Pieced, N, Step

LEMMA PiecesWritten ==
  ASSUME NEW o, NEW bytes, Len(StoredPieces(bytes)) \in Nat, NEW final
  PROVE  \E f : /\ WriteUncompressedBlocks(o, bytes, final) = f[Len(StoredPieces(bytes))]
                /\ Pieced(f, o, StoredPieces(bytes), final)
<1> DEFINE pieces == StoredPieces(bytes)
           f == CHOOSE g : Pieced(g, o, pieces, final)
<1>1. Pieced(f, o, pieces, final)
  <2>1. \E g : Pieced(g, o, pieces, final)
    BY PiecedExists
  <2> HIDE DEF pieces
  <2>2. QED BY <2>1
<1>2. WriteUncompressedBlocks(o, bytes, final) = f[Len(pieces)]
  BY DEF WriteUncompressedBlocks, Pieced
<1>3. QED BY <1>1, <1>2

(* The pieces of a stored block are written one after the other: the first *)
(* header may need a byte more than the others.                            *)
LEMMA UncompressedFits ==
  ASSUME NEW o, WriterOK(o), NEW bytes, IsSeq(bytes), NEW final,
         Len(bytes) > 0 =>
           HeaderBytes(o) + 2 * ((Len(bytes) - 1) \div MAX_STORED) + Len(bytes) <= BytesLeft(o)
  PROVE  LET w == WriteUncompressedBlocks(o, bytes, final)
         IN  WriterOK(w) /\ w.torn = o.torn
<1> DEFINE n == Len(bytes)
           pieces == StoredPieces(bytes)
           p == Len(pieces)
<1>1. n \in Nat
  BY SeqFacts
<1>2. MAX_STORED \in Nat /\ MAX_STORED > 0 /\ BYTE \in Nat /\ HEADER < BYTE
      /\ HEADER \in Nat
  BY WriterAssumption
<1>3. CASE n = 0
  <2>1. pieces = [i \in 1 .. 0 |-> SubSeq(bytes, (i - 1) * MAX_STORED + 1, Upto(n, i))]
    <3>1. (n + MAX_STORED - 1) \div MAX_STORED = 0
      BY <1>2, <1>3
    <3>2. pieces = [i \in 1 .. ((n + MAX_STORED - 1) \div MAX_STORED) |->
                      SubSeq(bytes, (i - 1) * MAX_STORED + 1, Upto(n, i))]
      BY DEF StoredPieces, Upto
    <3> HIDE DEF n, pieces
    <3>3. QED BY <3>1, <3>2
  <2>2. p = 0
    <3> HIDE DEF n, pieces
    <3>1. QED BY <2>1
  <2>3. PICK f : /\ WriteUncompressedBlocks(o, bytes, final) = f[p]
                 /\ Pieced(f, o, pieces, final)
    <3>1. p \in Nat
      BY <2>2
    <3>2. QED BY <3>1, PiecesWritten
  <2> HIDE DEF p, pieces
  <2>4. f[0] = o
    BY <2>2, <2>3 DEF Pieced, p
  <2>5. QED BY <2>2, <2>3, <2>4
<1>4. CASE n > 0
  <2>1. /\ p \in Nat /\ p >= 1 /\ (n - 1) \div MAX_STORED = p - 1
        /\ Upto(n, 0) = 0 /\ Upto(n, p) = n
        /\ \A i \in 1 .. p : /\ Upto(n, i) \in Nat /\ Upto(n, i - 1) \in Nat
                             /\ Upto(n, i - 1) < Upto(n, i) /\ Upto(n, i) <= n
    <3>1. p = (n + MAX_STORED - 1) \div MAX_STORED
      BY <1>4, Pieces
    <3> HIDE DEF p, n
    <3>2. QED BY <1>1, <1>4, <3>1, PieceCount
  <2>2. ASSUME NEW i \in 1 .. p
        PROVE  IsSeq(pieces[i]) /\ Len(pieces[i]) = Upto(n, i) - Upto(n, i - 1)
    BY <1>4, Pieces
  <2>3. PICK f : /\ WriteUncompressedBlocks(o, bytes, final) = f[p]
                 /\ Pieced(f, o, pieces, final)
    BY <2>1, PiecesWritten
  <2> DEFINE spent(i) == IF i = 0 THEN 0 ELSE HeaderBytes(o) + 2 * (i - 1) + Upto(n, i)
             T == {i \in 0 .. p : /\ WriterOK(f[i]) /\ f[i].torn = o.torn
                                  /\ i > 0 => f[i].bits = <<>>
                                  /\ BytesLeft(f[i]) = BytesLeft(o) - spent(i)}
  <2>4. spent(p) <= BytesLeft(o)
    BY <1>4, <2>1
  <2>5. HeaderBytes(o) \in {2, 3} /\ BytesLeft(o) \in Nat
    BY WriterFields DEF HeaderBytes
  <2>6. f[0] = o /\ \A i \in 1 .. p :
                      f[i] = WriteStoredPiece(f[i - 1], pieces[i], IF i = p THEN final ELSE 0)
    <3>1. f = [i \in 0 .. p |->
                 IF i = 0 THEN o
                 ELSE WriteStoredPiece(f[i - 1], pieces[i], IF i = p THEN final ELSE 0)]
      BY <2>3 DEF Pieced
    <3> HIDE DEF p, pieces
    <3>2. QED BY <2>1, <3>1
  <2> HIDE DEF n, p, pieces
  <2>7. 0 \in T
    <3>1. BytesLeft(o) = BytesLeft(o) - spent(0)
      BY <2>5
    <3>2. QED BY <2>1, <2>6, <3>1
  <2>8. ASSUME NEW i \in 1 .. p, i - 1 \in T PROVE i \in T
    <3> DEFINE s == f[i - 1]
    <3>1. /\ WriterOK(s) /\ s.torn = o.torn /\ BytesLeft(s) = BytesLeft(o) - spent(i - 1)
          /\ i - 1 > 0 => s.bits = <<>>
      BY <2>8
    <3> HIDE DEF T
    <3>2. HeaderBytes(s) = IF i = 1 THEN HeaderBytes(o) ELSE 2
      <4>1. CASE i = 1
        BY <2>6, <4>1
      <4>2. CASE i # 1
        <5>1. s.bits = <<>> /\ Len(<<>>) = 0
          BY <3>1, <4>2, Lists
        <5>2. Len(s.bits) = 0
          BY <5>1, Zenon
        <5>3. ~(0 > BYTE - HEADER)
          BY <1>2
        <5>4. QED BY <4>2, <5>2, <5>3 DEF HeaderBytes
      <4>3. QED BY <4>1, <4>2
    <3>3. /\ Upto(n, i) \in Nat /\ Upto(n, i - 1) \in Nat /\ Upto(n, i - 1) < Upto(n, i)
          /\ Upto(n, i) <= n /\ IsSeq(pieces[i])
          /\ Len(pieces[i]) = Upto(n, i) - Upto(n, i - 1) /\ i \in Nat /\ 1 <= i /\ i <= p
      BY <2>1, <2>2
    <3>4. spent(i) = spent(i - 1) + (HeaderBytes(s) + Len(pieces[i]))
      <4> DEFINE h == HeaderBytes(s)
                 k == HeaderBytes(o)
                 l == Len(pieces[i])
                 x == Upto(n, i - 1)
                 y == Upto(n, i)
      <4> HIDE DEF s
      <4>1. CASE i = 1
        <5>1. spent(i - 1) = 0 /\ spent(i) = k + y /\ h = k /\ x = 0
          BY <2>1, <2>5, <3>2, <3>3, <4>1
        <5> HIDE DEF spent, h, k, x, y, l
        <5>2. l = y - x
          BY <3>3 DEF l, x, y
        <5>3. k \in Nat /\ y \in Nat
          BY <2>5, <3>3 DEF k, y
        <5>4. spent(i) = spent(i - 1) + (h + l)
          BY <5>1, <5>2, <5>3
        <5>5. QED BY <5>4 DEF h, l
      <4>2. CASE i # 1
        <5>1. /\ spent(i - 1) = k + 2 * ((i - 1) - 1) + x
              /\ spent(i) = k + 2 * (i - 1) + y
              /\ h = 2
          BY <3>2, <3>3, <4>2
        <5> HIDE DEF spent, h, k, x, y, l
        <5>2. l = y - x
          BY <3>3 DEF l, x, y
        <5>3. k \in Nat /\ x \in Nat /\ y \in Nat
          BY <2>5, <3>3 DEF k, x, y
        <5>4. spent(i) = spent(i - 1) + (h + l)
          BY <3>3, <5>1, <5>2, <5>3
        <5>5. QED BY <5>4 DEF h, l
      <4>3. QED BY <4>1, <4>2
    <3>5. spent(i) <= spent(p) /\ spent(i) \in Nat /\ spent(i - 1) \in Nat
      <4>1. /\ spent(p) = HeaderBytes(o) + 2 * (p - 1) + n
            /\ spent(i) = HeaderBytes(o) + 2 * (i - 1) + Upto(n, i)
        BY <2>1, <3>3
      <4>2. /\ spent(i) \in Nat /\ spent(i) <= spent(p)
        <5> HIDE DEF spent
        <5> DEFINE k == HeaderBytes(o)
                   y == Upto(n, i)
        <5>1. k \in Nat /\ y \in Nat /\ y <= n /\ n \in Nat
          BY <1>1, <2>5, <3>3
        <5>2. i - 1 \in Nat /\ p - 1 \in Nat /\ i - 1 <= p - 1
          BY <2>1, <3>3
        <5>3. spent(p) = k + 2 * (p - 1) + n /\ spent(i) = k + 2 * (i - 1) + y
          BY <4>1
        <5> HIDE DEF k, y
        <5>4. QED BY <5>1, <5>2, <5>3
      <4>3. spent(i - 1) \in Nat
        <5>1. CASE i = 1
          BY <5>1
        <5>2. CASE i # 1
          <6>1. spent(i - 1) = HeaderBytes(o) + 2 * ((i - 1) - 1) + Upto(n, i - 1)
            BY <3>3, <5>2
          <6> HIDE DEF spent
          <6>2. (i - 1) - 1 \in Nat
            BY <3>3, <5>2
          <6>3. QED BY <2>5, <3>3, <6>1, <6>2
        <5>3. QED BY <5>1, <5>2
      <4>4. QED BY <4>2, <4>3
    <3>6. HeaderBytes(s) + Len(pieces[i]) \in Nat
      BY <2>5, <3>2, <3>3
    <3>7. HeaderBytes(s) + Len(pieces[i]) <= BytesLeft(s)
      <4> HIDE DEF spent, s
      <4> DEFINE a == HeaderBytes(s) + Len(pieces[i])
      <4>1. a \in Nat /\ spent(i) = spent(i - 1) + a
        BY <3>4, <3>6
      <4> HIDE DEF a
      <4>2. spent(p) \in Int
        <5>1. spent(p) = HeaderBytes(o) + 2 * (p - 1) + n
          BY <2>1 DEF spent
        <5>2. QED BY <1>1, <2>1, <2>5, <5>1 DEF n
      <4>3. a <= BytesLeft(s)
        BY <2>4, <2>5, <3>1, <3>5, <4>1, <4>2
      <4>4. QED BY <4>3 DEF a
    <3>8. f[i] = WriteStoredPiece(s, pieces[i], IF i = p THEN final ELSE 0)
      BY <2>6
    <3> DEFINE w == f[i]
               last == IF i = p THEN final ELSE 0
    <3> HIDE DEF s, spent
    <3>9. /\ WriterOK(w) /\ w.bits = <<>> /\ w.torn = s.torn
          /\ BytesLeft(w) = BytesLeft(s) - (HeaderBytes(s) + Len(pieces[i]))
      <4> HIDE DEF w, last
      <4>1. w = WriteStoredPiece(s, pieces[i], last)
        BY <3>8 DEF w, last
      <4>2. QED BY <3>1, <3>3, <3>7, <4>1, StoredPieceFits
    <3>10. BytesLeft(w) = BytesLeft(o) - spent(i)
      <4> HIDE DEF w
      <4>1. QED BY <2>5, <3>1, <3>4, <3>5, <3>6, <3>9
    <3>11. i \in 0 .. p
      OBVIOUS
    <3>12. QED BY <3>1, <3>9, <3>10, <3>11 DEF T
  <2> HIDE DEF T
  <2>9. p \in T
    <3>1. 0 .. p \subseteq T
      BY <2>1, <2>7, <2>8, InductionUpTo
    <3>2. QED BY <2>1, <3>1
  <2>10. WriterOK(f[p]) /\ f[p].torn = o.torn
    BY <2>9 DEF T
  <2>11. QED BY <2>3, <2>10 DEF p
<1>5. QED BY <1>1, <1>3, <1>4

(* The estimate of a stored block is what is written of it.                *)
LEMMA StoredCostIsExact ==
  ASSUME NEW o, WriterOK(o), NEW n \in Nat, n > 0
  PROVE  BytesNeeded(Len(o.bits), UncompressedCost(Len(o.bits), n)) =
           HeaderBytes(o) + 2 * ((n - 1) \div MAX_STORED) + n
<1> DEFINE b == Len(o.bits)
           q == (n - 1) \div MAX_STORED
           k == HeaderBytes(o) - 1
           pad == (-(b + HEADER)) % BYTE
           cost == UncompressedCost(b, n)
<1>1. /\ BYTE \in Nat /\ BYTE > 1 /\ HEADER \in Nat /\ 1 <= HEADER /\ HEADER < BYTE
      /\ MAX_STORED \in Nat /\ MAX_STORED > 0
  BY WriterAssumption
<1>2. b \in Nat /\ b < BYTE
  BY SeqFacts DEF WriterOK
<1>3. q \in Nat
  BY <1>1
<1>4. k = IF b > BYTE - HEADER THEN 2 ELSE 1
  BY DEF HeaderBytes
<1>5. cost = pad + BYTE + 2 * BYTE * q + BYTE * n
  BY DEF UncompressedCost
<1> HIDE DEF b, q, k, cost
<1>6. b + HEADER + pad = BYTE * k
  <2>1. CASE b > BYTE - HEADER
    <3> DEFINE r == 2 * BYTE - (b + HEADER)
    <3>1. r \in 0 .. (BYTE - 1) /\ -(b + HEADER) = BYTE * (-2) + r
      BY <1>1, <1>2, <2>1
    <3> HIDE DEF r
    <3>2. pad = r
      BY <1>1, <3>1
    <3> HIDE DEF pad
    <3>3. QED BY <1>1, <1>2, <1>4, <2>1, <3>2 DEF r
  <2>2. CASE ~(b > BYTE - HEADER)
    <3> DEFINE r == BYTE - (b + HEADER)
    <3>1. r \in 0 .. (BYTE - 1) /\ -(b + HEADER) = BYTE * (-1) + r
      BY <1>1, <1>2, <2>2
    <3> HIDE DEF r
    <3>2. pad = r
      BY <1>1, <3>1
    <3> HIDE DEF pad
    <3>3. QED BY <1>1, <1>2, <1>4, <2>2, <3>2 DEF r
  <2>3. QED BY <2>1, <2>2
<1>7. pad \in Nat
  BY <1>1, <1>2
<1> HIDE DEF pad
<1>8. k \in Nat
  BY <1>4
<1> DEFINE total == k + 1 + 2 * q + n
<1>9. BYTE * total = BYTE * k + BYTE + 2 * BYTE * q + BYTE * n
  BY <1>1, <1>3, <1>8
<1>10. b + cost + BYTE - 1 = BYTE * total + (BYTE - 1 - HEADER)
  <2> HIDE DEF total
  <2>1. 2 * BYTE * q \in Nat /\ BYTE * n \in Nat /\ BYTE * k \in Nat
    BY <1>1, <1>3, <1>8
  <2>2. QED BY <1>1, <1>2, <1>5, <1>6, <1>7, <1>9, <2>1
<1>11. total \in Nat /\ BYTE - 1 - HEADER \in 0 .. (BYTE - 1)
  BY <1>1, <1>3, <1>8
<1>12. (b + cost + BYTE - 1) \div BYTE = total
  <2> HIDE DEF total
  <2>1. BYTE \in Nat \ {0}
    BY <1>1
  <2>2. QED BY <1>10, <1>11, <2>1, Quotients
<1>13. total = HeaderBytes(o) + 2 * q + n
  BY <1>3 DEF k, HeaderBytes, b
<1>14. QED BY <1>12, <1>13 DEF BytesNeeded, b, q, cost

(* A block is written completely or not begun.                             *)
LEMMA BlockFits ==
  ASSUME NEW o, WriterOK(o), NEW syms, IsSeq(syms), NEW bytes, IsSeq(bytes),
         NEW final, NEW type
  PROVE  LET w == FlushBlock(o, type, syms, bytes, final)
         IN  WriterOK(w) /\ w.torn = o.torn
<1> DEFINE w == FlushBlock(o, type, syms, bytes, final)
           b == Len(o.bits)
           cost == IF type = "stored" THEN UncompressedCost(b, Len(bytes))
                   ELSE Len(CodedBlock(syms, final))
           over == BytesNeeded(b, cost) > BytesLeft(o)
<1>1. BYTE \in Nat /\ BYTE > 1 /\ b \in Nat /\ BytesLeft(o) \in Nat
  BY SeqFacts, WriterFields, Multiples DEF WriterOK
<1>2. CASE over
  <2>1. w = [o EXCEPT !.overflow = TRUE]
    BY <1>2 DEF FlushBlock
  <2>2. o = [bits |-> o.bits, out |-> o.out, room |-> o.room,
             overflow |-> o.overflow, torn |-> o.torn]
    BY DEF WriterOK
  <2> HIDE DEF w
  <2>3. w = [bits |-> o.bits, out |-> o.out, room |-> o.room,
             overflow |-> TRUE, torn |-> o.torn]
    BY <2>1, <2>2
  <2>4. /\ w.bits = o.bits /\ w.out = o.out /\ w.room = o.room /\ w.overflow = TRUE
        /\ w.torn = o.torn
        /\ w = [bits |-> w.bits, out |-> w.out, room |-> w.room,
                overflow |-> w.overflow, torn |-> w.torn]
    BY <2>3
  <2>5. Written(w) = Written(o)
    BY <2>4 DEF Written
  <2>6. WriterOK(w)
    BY <2>4, <2>5 DEF WriterOK
  <2>7. QED BY <2>4, <2>6 DEF w
<1>3. CASE ~over /\ type = "stored"
  <2>1. w = WriteUncompressedBlocks(o, bytes, final)
    BY <1>3 DEF FlushBlock
  <2>2. Len(bytes) \in Nat
    BY SeqFacts
  <2>3. ASSUME Len(bytes) > 0
        PROVE  HeaderBytes(o) + 2 * ((Len(bytes) - 1) \div MAX_STORED) + Len(bytes)
                 <= BytesLeft(o)
    <3> DEFINE need == BytesNeeded(b, UncompressedCost(b, Len(bytes)))
               exact == HeaderBytes(o) + 2 * ((Len(bytes) - 1) \div MAX_STORED) + Len(bytes)
    <3>1. need = exact
      BY <2>2, <2>3, StoredCostIsExact
    <3>2. ~(need > BytesLeft(o))
      BY <1>3
    <3>3. exact \in Nat
      <4>1. (Len(bytes) - 1) \div MAX_STORED \in Nat /\ HeaderBytes(o) \in Nat
        BY <2>2, <2>3, WriterAssumption DEF HeaderBytes
      <4>2. QED BY <2>2, <4>1
    <3> HIDE DEF need, exact
    <3>4. exact <= BytesLeft(o)
      BY <1>1, <3>1, <3>2, <3>3
    <3>5. QED BY <3>4 DEF exact
  <2>4. QED BY <2>1, <2>3, UncompressedFits
<1>4. CASE ~over /\ type # "stored"
  <2> DEFINE block == CodedBlock(syms, final)
  <2>1. w = FlushBits(AddBits(o, block))
    BY <1>4 DEF FlushBlock
  <2>2. IsSeq(block)
    <3>1. IsSeq(Header("block", final, 0)) /\ IsSeq(<<EndOfBlock>>)
      BY HeaderIsSeq, Lists, Zenon
    <3>2. IsSeq(Header("block", final, 0) \o syms)
      BY <3>1, SeqFacts, Zenon
    <3>3. QED BY <3>1, <3>2, SeqFacts, Zenon DEF CodedBlock
  <2> HIDE DEF w
  <2>3. Len(block) \in Nat
    BY <2>2, SeqFacts, Zenon
  <2>4. (b + Len(block)) \div BYTE <= BytesLeft(o)
    <3> DEFINE c == Len(block)
    <3>1. ~(BytesNeeded(b, c) > BytesLeft(o))
      BY <1>4
    <3> HIDE DEF block, b
    <3>2. BytesNeeded(b, c) = (b + c + BYTE - 1) \div BYTE
      BY DEF BytesNeeded
    <3> HIDE DEF c
    <3>3. c \in Nat
      BY <2>3 DEF c
    <3> DEFINE x == (b + c) \div BYTE
               y == (b + c + BYTE - 1) \div BYTE
    <3>4. b + c \in Nat /\ b + c + BYTE - 1 \in Nat
      BY <1>1, <3>3
    <3>5. /\ x \in Nat /\ y \in Nat
          /\ BYTE * x <= b + c /\ b + c + BYTE - 1 < BYTE * y + BYTE
      BY <3>4, Multiples
    <3> HIDE DEF x, y
    <3>6. BYTE * x \in Nat /\ BYTE * y \in Nat
      BY <1>1, <3>5
    <3>7. BYTE * x < BYTE * y + BYTE
      BY <1>1, <3>3, <3>5, <3>6
    <3>8. x <= y
      BY <3>5, <3>7, Multiples
    <3>9. QED BY <1>1, <3>1, <3>2, <3>5, <3>8 DEF x, y, c
  <2>5. WriterOK(w) /\ w.torn = o.torn
    <3> HIDE DEF block
    <3>1. QED BY <2>1, <2>2, <2>4, FlushLeaves
  <2>6. QED BY <2>5 DEF w
<1>5. QED BY <1>2, <1>3, <1>4

-------------------------------------------------------------------------------
(* The writer of the compressor, and where it is in the input.             *)

(* What waits in the writer or between calls is less than a byte; nothing  *)
(* written ran out of room.                                                *)
OutputInv ==
  /\ WriterOK(os) /\ ~os.torn
  /\ IsSeq(kept.bits) /\ Len(kept.bits) < BYTE
  /\ IsSeq(snapshot.kept.bits) /\ Len(snapshot.kept.bits) < BYTE
  /\ IsSeq(tokens)

(* Positions stay inside the input, also when a restore shortens it.       *)
PlacesInv ==
  /\ strategy \in Strategies
  /\ kept.pos <= Len(data) /\ kept.base <= Len(data)
  /\ call.start \in 0 .. Len(data) /\ call.block \in 0 .. in_next
  /\ call.pc = "idle" => call.start = 0 /\ call.block = 0
  /\ snapshot # NoSnapshot => snapshot.kept.base <= Len(snapshot.data)

FitsInv == OutputInv /\ PlacesInv

LEMMA FitsInvSays == CompressorInv /\ FitsInv => FitsAsChecked
<1> SUFFICES ASSUME CompressorInv, FitsInv PROVE FitsAsChecked
  OBVIOUS
<1>1. /\ Len(data) \in Nat /\ kept.pos \in Nat /\ kept.base \in Nat
      /\ call.pc \in {"idle", "blocks", "parse", "judge", "lazy", "compare"}
      /\ caller.may \in {"go on", "recover", "estimated"}
  BY FinderFacts DEF CompressorInv, KeptOK, CallOK, CallerOK
<1>2. kept.pos \in 0 .. Len(data) /\ kept.base \in 0 .. Len(data)
  <2>1. kept.pos <= Len(data) /\ kept.base <= Len(data)
    BY DEF FitsInv, PlacesInv
  <2>2. \A m, n \in Nat : m <= n => m \in 0 .. n
    OBVIOUS
  <2>3. QED BY <1>1, <2>1, <2>2, Zenon
<1>3. /\ strategy \in Strategies
      /\ call.start \in 0 .. Len(data) /\ call.block \in 0 .. in_next
      /\ Len(kept.bits) < BYTE /\ ~os.torn /\ WriterOK(os)
  BY DEF FitsInv, PlacesInv, OutputInv
<1>4. Len(os.bits) < BYTE /\ os.room \in Nat /\ os.overflow \in BOOLEAN
  BY <1>3 DEF WriterOK
<1>5. Len(os.out) <= BYTE * os.room
  <2>1. Len(os.out) = BYTE * Written(os) /\ Written(os) <= os.room
    BY <1>3 DEF WriterOK
  <2>2. Written(os) \in Nat
    BY <1>3, WriterFields
  <2>3. BYTE * Written(os) <= BYTE * os.room
    BY <1>4, <2>1, <2>2, Multiples
  <2>4. QED BY <2>1, <2>3
<1>6. QED BY <1>1, <1>2, <1>3, <1>4, <1>5 DEF FitsAsChecked, TypeOK

(* A writer that has written nothing.                                      *)
LEMMA NewWriter ==
  ASSUME NEW bits, IsSeq(bits), Len(bits) < BYTE, NEW room \in Nat
  PROVE  LET o == OutputBitstream(bits, room) IN WriterOK(o) /\ ~o.torn
<1> DEFINE o == OutputBitstream(bits, room)
<1>1. /\ o.bits = bits /\ o.out = <<>> /\ o.room = room /\ o.overflow = FALSE
      /\ o.torn = FALSE
      /\ o = [bits |-> o.bits, out |-> o.out, room |-> o.room,
              overflow |-> o.overflow, torn |-> o.torn]
  BY DEF OutputBitstream
<1> HIDE DEF o
<1>2. IsSeq(<<>>) /\ Len(<<>>) = 0
  BY Lists, Zenon
<1>3. IsSeq(o.out) /\ Len(o.out) = 0
  BY <1>1, <1>2, Zenon
<1>4. BYTE * 0 = 0
  BY Multiples
<1>5. Written(o) = 0
  <2>1. (BYTE * 0) \div BYTE = 0
    BY Multiples
  <2>2. QED BY <1>3, <1>4, <2>1 DEF Written
<1>6. WriterOK(o)
  <2>1. IsSeq(o.bits) /\ Len(o.bits) < BYTE
    BY <1>1, Zenon
  <2>2. Len(o.out) = BYTE * Written(o) /\ Written(o) <= o.room /\ o.room \in Nat
    BY <1>1, <1>3, <1>4, <1>5
  <2>3. o.overflow \in BOOLEAN
    BY <1>1
  <2>4. QED BY <1>1, <1>3, <2>1, <2>2, <2>3 DEF WriterOK
<1>7. QED BY <1>1, <1>6 DEF o

LEMMA NoBits == IsSeq(<<>>) /\ Len(<<>>) < BYTE
<1>1. IsSeq(<<>>) /\ Len(<<>>) = 0
  BY Lists, Zenon
<1>2. 0 < BYTE
  BY Multiples
<1>3. QED BY <1>1, <1>2, Zenon

LEMMA InitFits == Init => FitsInv
<1> SUFFICES ASSUME Init PROVE FitsInv
  OBVIOUS
<1>1. /\ strategy \in Strategies
      /\ kept = [pos |-> 0, base |-> 0, bits |-> <<>>]
      /\ os = OutputBitstream(<<>>, 0)
      /\ call = Idle /\ tokens = <<>> /\ snapshot = NoSnapshot
  BY DEF Init
<1>2. CompressorInv
  BY InitHolds
<1>3. Len(data) \in Nat /\ in_next \in Nat
  BY <1>2, FinderFacts DEF CompressorInv
<1>4. WriterOK(os) /\ ~os.torn
  BY <1>1, NoBits, NewWriter
<1>5. kept.bits = <<>> /\ snapshot.kept.bits = <<>>
  BY <1>1 DEF NoSnapshot
<1>6. OutputInv
  BY <1>1, <1>4, <1>5, NoBits, Zenon DEF OutputInv
<1>7. PlacesInv
  BY <1>1, <1>3 DEF PlacesInv, Idle
<1>8. QED BY <1>6, <1>7 DEF FitsInv

(* A step of a call that leaves the output alone and goes on in the input. *)
LEMMA WithinCallFits ==
  ASSUME CompressorInv, FitsInv, CompressorInv',
         UNCHANGED <<strategy, kept, os, snapshot, data>>,
         NEW n \in Nat, in_next' = in_next + n,
         call'.start = call.start, call'.block = call.block, call'.pc # "idle",
         IsSeq(tokens')
  PROVE  FitsInv'
<1>1. OutputInv'
  BY DEF FitsInv, OutputInv, WriterOK, Written
<1>2. in_next \in Nat /\ in_next' \in Nat
  BY FinderFacts DEF CompressorInv
<1>3. call'.block \in 0 .. in_next'
  BY <1>2 DEF FitsInv, PlacesInv
<1>4. NoSnapshot' = NoSnapshot
  BY DEF NoSnapshot, NewCaller, Decoder
<1>5. PlacesInv'
  BY <1>3, <1>4 DEF FitsInv, PlacesInv
<1>6. QED BY <1>1, <1>5 DEF FitsInv

-------------------------------------------------------------------------------
(* The parsers write nothing.                                              *)

(* What a parser may do to the tokens and to the place in the input. *)
LEMMA TokenAdded ==
  ASSUME FitsInv, NEW t, AddToken(t)
  PROVE  IsSeq(tokens')
<1>1. IsSeq(tokens)
  BY DEF FitsInv, OutputInv
<1>2. IsSeq(Append(tokens, t))
  BY <1>1, SeqFacts
<1>3. QED BY <1>1, <1>2 DEF AddToken

(* What a step of a parser leaves alone.                                   *)
CallGoesOn ==
  /\ UNCHANGED <<strategy, kept, os, snapshot, data>>
  /\ call'.start = call.start /\ call'.block = call.block /\ call'.pc # "idle"
  /\ IsSeq(tokens')

LEMMA GoesOn ==
  ASSUME CompressorInv, FitsInv, CompressorInv', CallGoesOn,
         NEW n \in Nat, in_next' = in_next + n
  PROVE  FitsInv'
BY WithinCallFits DEF CallGoesOn

LEMMA GotoFacts ==
  ASSUME CompressorInv, NEW pc, Goto(pc)
  PROVE  call'.start = call.start /\ call'.block = call.block /\ call'.pc = pc
BY DEF CompressorInv, CallOK, Goto

LEMMA SkipsAdvance ==
  ASSUME NEW count \in Nat, in_next \in Nat
  PROVE  /\ HtSkip(count) => UNCHANGED data /\ \E n \in Nat : in_next' = in_next + n
         /\ HcSkip(count) => UNCHANGED data /\ \E n \in Nat : in_next' = in_next + n
<1>1. in_next = in_next + 0
  OBVIOUS
<1>2. ASSUME HtSkip(count)
      PROVE  UNCHANGED data /\ \E n \in Nat : in_next' = in_next + n
  <2>1. UNCHANGED data /\ (in_next' = in_next + count \/ in_next' = in_next)
    BY <1>2 DEF HtSkip
  <2>2. QED BY <1>1, <2>1
<1>3. ASSUME HcSkip(count)
      PROVE  UNCHANGED data /\ \E n \in Nat : in_next' = in_next + n
  <2>1. UNCHANGED data /\ (in_next' = in_next + count \/ in_next' = in_next)
    BY <1>3 DEF HcSkip
  <2>2. QED BY <1>1, <2>1
<1>4. QED BY <1>2, <1>3

LEMMA TakeFits ==
  ASSUME CompressorInv, FitsInv, CompressorInv',
         NEW length, NEW offset, NEW count \in Nat, Take(length, offset, count)
  PROVE  FitsInv'
<1>1. in_next \in Nat /\ in_next + 0 = in_next
  BY FinderFacts DEF CompressorInv
<1>2. UNCHANGED <<strategy, kept, os, snapshot>>
  BY DEF Take, Parsing
<1>3. CASE ~HasSlot(offset)
  <2>1. Panic
    BY <1>3 DEF Take
  <2>2. call'.pc = "panicked"
    BY <2>1, GotoFacts DEF Panic
  <2>3. QED BY <2>2 DEF CompressorInv, CallOK
<1>4. CASE HasSlot(offset)
  <2>1. /\ AddMatch(length, offset) /\ Goto("parse")
        /\ IF count = 0 THEN UNCHANGED <<windowVars, htVars, hcVars>>
           ELSE IF kind = "ht" THEN HtSkip(count) /\ UNCHANGED hcVars
                               ELSE HcSkip(count) /\ UNCHANGED htVars
    BY <1>4 DEF Take
  <2>2. IsSeq(tokens')
    BY <2>1, TokenAdded DEF AddMatch
  <2>3. UNCHANGED data /\ \E n \in Nat : in_next' = in_next + n
    <3>1. CASE count = 0
      <4>1. UNCHANGED data /\ in_next' = in_next + 0
        BY <1>1, <2>1, <3>1 DEF windowVars
      <4>2. QED BY <4>1
    <3>2. CASE count # 0
      BY <1>1, <2>1, <3>2, SkipsAdvance
    <3>3. QED BY <3>1, <3>2
  <2>4. CallGoesOn
    BY <1>2, <2>1, <2>2, <2>3, GotoFacts DEF CallGoesOn
  <2>5. QED BY <2>3, <2>4, GoesOn
<1>5. QED BY <1>3, <1>4

LEMMA ParseFits ==
  ASSUME CompressorInv, FitsInv, CompressorInv', ParseHt \/ ParseHc
  PROVE  FitsInv'
<1>1. UNCHANGED <<strategy, kept, os, snapshot>> /\ call.pc = "parse"
  BY DEF ParseHt, ParseHc, Parsing
<1>2. IsSeq(tokens)
  BY DEF FitsInv, OutputInv
<1>3. CASE \/ HtLongestMatch(MaxLen, NiceLen)
           \/ HcLongestMatch(call.min_len - 1, MaxLen, NiceLen, DEPTH)
  <2>1. UNCHANGED data /\ in_next' = in_next + 1
    BY <1>3 DEF HtLongestMatch, HcLongestMatch
  <2>2. (Goto("judge") /\ UNCHANGED tokens) \/ UNCHANGED call
    BY DEF ParseHt, ParseHc
  <2>3. /\ call'.start = call.start /\ call'.block = call.block /\ call'.pc # "idle"
        /\ IsSeq(tokens')
    <3>1. CASE Goto("judge") /\ UNCHANGED tokens
      BY <1>2, <3>1, GotoFacts
    <3>2. CASE UNCHANGED call
      <4>1. AddLiteral(in_next) \/ UNCHANGED tokens
        BY DEF ParseHt, ParseHc
      <4>2. QED BY <1>1, <1>2, <3>2, <4>1, TokenAdded DEF AddLiteral
    <3>3. QED BY <2>2, <3>1, <3>2
  <2>4. CallGoesOn
    BY <1>1, <2>1, <2>3 DEF CallGoesOn
  <2>5. QED BY <2>1, <2>4, GoesOn
<1>4. CASE AddLiteral(in_next) /\ in_next' = in_next + 1 /\ UNCHANGED <<call, data>>
  <2>1. IsSeq(tokens')
    BY <1>4, TokenAdded DEF AddLiteral
  <2>2. CallGoesOn
    BY <1>1, <1>4, <2>1 DEF CallGoesOn
  <2>3. QED BY <1>4, <2>2, GoesOn
<1>5. QED BY <1>3, <1>4 DEF ParseHt, ParseHc

LEMMA FinderStepFits ==
  ASSUME CompressorInv, FitsInv, CompressorInv', Follow \/ SkipOne
  PROVE  FitsInv'
<1>1. UNCHANGED compressorVars
  BY DEF Follow, SkipOne
<1>2. UNCHANGED <<strategy, kept, os, call, tokens, snapshot>>
  BY <1>1 DEF compressorVars
<1>3. in_next \in Nat /\ in_next + 0 = in_next
  BY FinderFacts DEF CompressorInv
<1>4. UNCHANGED data /\ (in_next' = in_next \/ in_next' = in_next + 1)
  <2>1. Follow => UNCHANGED data /\ in_next' = in_next
    BY DEF Follow, HcChain, HcExtend
  <2>2. SkipOne => UNCHANGED data /\ in_next' = in_next + 1
    BY DEF SkipOne, HtSkipOne, HcSkipOne
  <2>3. QED BY <2>1, <2>2
<1>5. call.pc # "idle"
  <2>1. search.pc # "ready"
    BY DEF Follow, SkipOne, HcChain, HcExtend, HtSkipOne, HcSkipOne
  <2>2. QED BY <2>1 DEF CompressorInv, FinderRests
<1>6. IsSeq(tokens)
  BY DEF FitsInv, OutputInv
<1>7. CallGoesOn
  BY <1>2, <1>4, <1>5, <1>6 DEF CallGoesOn
<1>8. CASE in_next' = in_next
  BY <1>3, <1>7, <1>8, GoesOn
<1>9. CASE in_next' = in_next + 1
  BY <1>7, <1>9, GoesOn
<1>10. QED BY <1>4, <1>8, <1>9

LEMMA JudgeFits ==
  ASSUME CompressorInv, FitsInv, CompressorInv', JudgeMatch \/ JudgeLiteral
  PROVE  FitsInv'
<1>1. in_next \in Nat /\ in_next + 0 = in_next /\ found.length \in Nat
  BY FinderFacts DEF CompressorInv
<1>2. call.pc = "judge" /\ call.min_len \in MinLens
  BY DEF JudgeMatch, JudgeLiteral, CompressorInv, ResultHolds
<1>3. CASE JudgeMatch /\ strategy = "lazy"
  <2>1. /\ call' = [call EXCEPT !.pc = "lazy", !.length = found.length,
                                !.offset = found.offset]
        /\ Parsing /\ UNCHANGED <<tokens, windowVars, htVars, hcVars>>
    BY <1>3 DEF JudgeMatch
  <2>2. call'.start = call.start /\ call'.block = call.block /\ call'.pc = "lazy"
    BY <2>1 DEF CompressorInv, CallOK
  <2>3. UNCHANGED <<strategy, kept, os, snapshot, data, in_next, tokens>>
    BY <2>1 DEF Parsing, windowVars
  <2>4. IsSeq(tokens)
    BY DEF FitsInv, OutputInv
  <2>5. CallGoesOn
    BY <2>2, <2>3, <2>4 DEF CallGoesOn
  <2>6. in_next' = in_next + 0
    BY <1>1, <2>3
  <2>7. QED BY <2>5, <2>6, GoesOn
<1>4. CASE JudgeMatch /\ strategy # "lazy"
  <2>1. Take(found.length, found.offset, found.length - 1) /\ Worth
    BY <1>4 DEF JudgeMatch
  <2>2. call.min_len \in Nat /\ call.min_len >= 2
    <3>1. MAX_MATCH_LEN \in Nat /\ MinLens \subseteq 2 .. (MAX_MATCH_LEN - 1)
      BY Sizes
    <3>2. call.min_len \in 2 .. (MAX_MATCH_LEN - 1)
      BY <1>2, <3>1, Zenon
    <3>3. QED BY <3>1, <3>2
  <2>3. found.length - 1 \in Nat
    BY <1>1, <2>1, <2>2 DEF Worth
  <2>4. QED BY <2>1, <2>3, TakeFits
<1>5. CASE JudgeLiteral
  <2>1. AddLiteral(found.at) /\ Goto("parse") /\ Parsing /\ UNCHANGED windowVars
    BY <1>5 DEF JudgeLiteral
  <2>2. UNCHANGED <<strategy, kept, os, snapshot, data, in_next>>
    BY <2>1 DEF Parsing, windowVars
  <2>3. CallGoesOn
    BY <2>1, <2>2, TokenAdded, GotoFacts DEF CallGoesOn, AddLiteral
  <2>4. in_next' = in_next + 0
    BY <1>1, <2>2
  <2>5. QED BY <2>3, <2>4, GoesOn
<1>6. QED BY <1>3, <1>4, <1>5

LEMMA LazyFits ==
  ASSUME CompressorInv, FitsInv, CompressorInv',
         LazyTake \/ LazyLook \/ LazyBetter \/ LazyKeep
  PROVE  FitsInv'
<1>1. in_next \in Nat /\ in_next + 0 = in_next
  BY FinderFacts DEF CompressorInv
<1>2. call.length \in Nat /\ call.length >= 2
  BY Sizes DEF LazyTake, LazyLook, LazyBetter, LazyKeep, CompressorInv, MatchHeld
<1>3. IsSeq(tokens)
  BY DEF FitsInv, OutputInv
<1>4. CASE LazyTake
  <2>1. Take(call.length, call.offset, call.length - 1)
    BY <1>4 DEF LazyTake
  <2>2. call.length - 1 \in Nat
    BY <1>2
  <2>3. QED BY <2>1, <2>2, TakeFits
<1>5. CASE LazyLook
  <2>1. /\ HcLongestMatch(call.length - 1, MaxLen, NiceLen, DEPTH \div 2)
        /\ Goto("compare") /\ Parsing /\ UNCHANGED tokens
    BY <1>5 DEF LazyLook
  <2>2. UNCHANGED data /\ in_next' = in_next + 1
    BY <2>1 DEF HcLongestMatch
  <2>3. UNCHANGED <<strategy, kept, os, snapshot, tokens>>
    BY <2>1 DEF Parsing
  <2>4. CallGoesOn
    BY <1>3, <2>1, <2>2, <2>3, GotoFacts DEF CallGoesOn
  <2>5. QED BY <2>2, <2>4, GoesOn
<1>6. CASE LazyBetter
  <2>1. /\ AddLiteral(in_next - 2)
        /\ call' = [call EXCEPT !.pc = "lazy", !.length = found.length,
                                !.offset = found.offset]
        /\ Parsing /\ UNCHANGED windowVars
    BY <1>6 DEF LazyBetter
  <2>2. call'.start = call.start /\ call'.block = call.block /\ call'.pc = "lazy"
    BY <2>1 DEF CompressorInv, CallOK
  <2>3. UNCHANGED <<strategy, kept, os, snapshot, data, in_next>>
    BY <2>1 DEF Parsing, windowVars
  <2>4. IsSeq(tokens')
    BY <2>1, TokenAdded DEF AddLiteral
  <2>5. CallGoesOn
    BY <2>2, <2>3, <2>4 DEF CallGoesOn
  <2>6. in_next' = in_next + 0
    BY <1>1, <2>3
  <2>7. QED BY <2>5, <2>6, GoesOn
<1>7. CASE LazyKeep
  <2>1. Take(call.length, call.offset, call.length - 2)
    BY <1>7 DEF LazyKeep, LazySkip
  <2>2. call.length - 2 \in Nat
    BY <1>2
  <2>3. QED BY <2>1, <2>2, TakeFits
<1>8. QED BY <1>4, <1>5, <1>6, <1>7

-------------------------------------------------------------------------------
(* Blocks, the ends of calls, calls, snapshots.                            *)

(* What the two invariants say, as the steps need it. *)
LEMMA CommonFacts ==
  ASSUME CompressorInv, FitsInv
  PROVE  /\ data \in Seq(Byte) /\ Len(data) \in Nat /\ IsSeq(data)
         /\ in_next \in Nat /\ in_next <= Len(data)
         /\ in_base_offset \in Nat
         /\ kept.pos \in Nat /\ kept.base \in Nat /\ DOMAIN kept = {"pos", "base", "bits"}
         /\ WriterOK(os) /\ ~os.torn /\ strategy \in Strategies
         /\ IsSeq(kept.bits) /\ Len(kept.bits) < BYTE
         /\ kept.pos <= Len(data) /\ kept.base <= Len(data)
         /\ IsSeq(tokens)
<1>1. data \in Seq(Byte) /\ Len(data) \in Nat /\ in_next \in Nat /\ in_next <= Len(data)
      /\ in_base_offset \in Nat
  BY FinderFacts DEF CompressorInv
<1>2. IsSeq(data)
  BY <1>1 DEF IsSeq
<1>3. QED BY <1>1, <1>2 DEF CompressorInv, KeptOK, FitsInv, PlacesInv, OutputInv

LEMMA SnapshotConstant == NoSnapshot' = NoSnapshot
BY DEF NoSnapshot, NewCaller, Decoder

LEMMA IdleFacts ==
  Idle.start = 0 /\ Idle.block = 0 /\ Idle.pc = "idle"
BY DEF Idle

LEMMA PlacesTyped == CompressorInv => Len(data) \in Nat /\ in_next \in Nat
BY FinderFacts DEF CompressorInv

(* A call that is over. *)
LEMMA IdleFits ==
  ASSUME CompressorInv', call' = Idle, strategy' \in Strategies,
         kept'.pos <= Len(data'), kept'.base <= Len(data'),
         WriterOK(os'), ~os'.torn, IsSeq(kept'.bits), Len(kept'.bits) < BYTE,
         IsSeq(snapshot'.kept.bits), Len(snapshot'.kept.bits) < BYTE,
         snapshot' # NoSnapshot => snapshot'.kept.base <= Len(snapshot'.data),
         IsSeq(tokens')
  PROVE  FitsInv'
<1>1. OutputInv'
  BY DEF OutputInv, WriterOK, Written
<1>2. Len(data') \in Nat /\ in_next' \in Nat
  <2>1. (CompressorInv => Len(data) \in Nat /\ in_next \in Nat)'
    BY PlacesTyped, PTL
  <2>2. QED BY <2>1
<1>3. call'.start = 0 /\ call'.block = 0
  BY IdleFacts
<1>4. PlacesInv'
  BY <1>2, <1>3, SnapshotConstant DEF PlacesInv
<1>5. QED BY <1>1, <1>4 DEF FitsInv

LEMMA SnapshotSame ==
  ASSUME FitsInv, UNCHANGED snapshot
  PROVE  /\ IsSeq(snapshot'.kept.bits) /\ Len(snapshot'.kept.bits) < BYTE
         /\ snapshot' # NoSnapshot => snapshot'.kept.base <= Len(snapshot'.data)
BY DEF FitsInv, OutputInv, PlacesInv

LEMMA StoppedFits ==
  ASSUME CompressorInv, FitsInv, CompressorInv', Stopped
  PROVE  FitsInv'
<1>1. /\ call' = Idle /\ os' = OutputBitstream(<<>>, 0) /\ tokens' = <<>>
      /\ UNCHANGED <<strategy, kept, snapshot, data>>
  BY DEF Stopped, Fails, windowVars
<1>2. WriterOK(os') /\ ~os'.torn
  BY <1>1, NewWriter, NoBits
<1>3. IsSeq(tokens')
  BY <1>1, NoBits, Zenon
<1>4. QED BY <1>1, <1>2, <1>3, CommonFacts, SnapshotSame, IdleFits

(* The bits a call leaves are less than a byte.                            *)
LEMMA BitsLeft ==
  ASSUME CompressorInv, FitsInv
  PROVE  LET bits == KeptBits(Terminated.bits)
         IN  IsSeq(bits) /\ Len(bits) < BYTE
<1>1. WriterOK(os)
  BY CommonFacts
<1>2. WriterOK(Terminated)
  <2> DEFINE w == FlushBits(AddBits(os, CodedBlock(<<>>, 1)))
  <2>1. IsSeq(CodedBlock(<<>>, 1))
    <3>1. IsSeq(Header("block", 1, 0)) /\ IsSeq(<<EndOfBlock>>) /\ IsSeq(<<>>)
      BY HeaderIsSeq, Lists, Zenon
    <3>2. IsSeq(Header("block", 1, 0) \o <<>>)
      BY <3>1, SeqFacts, Zenon
    <3>3. QED BY <3>1, <3>2, SeqFacts, Zenon DEF CodedBlock
  <2>2. WriterOK(w)
    BY <1>1, <2>1, FlushLeaves
  <2>3. Terminated \in {os, w}
    BY DEF Terminated
  <2> HIDE DEF w
  <2>4. QED BY <1>1, <2>2, <2>3
<1> DEFINE t == Terminated
<1> HIDE DEF t
<1>3. WriterOK(t)
  BY <1>2 DEF t
<1>4. IsSeq(t.bits) /\ Len(t.bits) < BYTE
  BY <1>3 DEF WriterOK
<1>5. KeptBits(t.bits) = <<>> \/ KeptBits(t.bits) = t.bits
  BY DEF KeptBits
<1>6. IsSeq(KeptBits(t.bits)) /\ Len(KeptBits(t.bits)) < BYTE
  BY <1>4, <1>5, NoBits, Zenon
<1>7. QED BY <1>6 DEF t

LEMMA EndCallFits ==
  ASSUME CompressorInv, FitsInv, CompressorInv', EndCall
  PROVE  FitsInv'
<1>1. /\ call.pc = "blocks" /\ Remaining = 0
      /\ UNCHANGED <<strategy, snapshot, data>>
  BY DEF EndCall, windowVars
<1>2. call' = Idle /\ os' = OutputBitstream(<<>>, 0) /\ (tokens' = <<>> \/ UNCHANGED tokens)
  BY DEF EndCall, Fails
<1>3. search.pc = "ready"
  BY <1>1 DEF CompressorInv, FinderRests
<1>4. in_base_offset <= Len(data)
  <2>1. in_base_offset <= in_next
    BY <1>3 DEF CompressorInv, Family!FinderInv, Family!PlacesHold
  <2>2. QED BY <2>1, CommonFacts
<1>5. /\ BaseKept.pos = kept.pos /\ BaseKept.base = in_base_offset
      /\ BaseKept.bits = kept.bits /\ DOMAIN BaseKept = {"pos", "base", "bits"}
  BY CommonFacts DEF BaseKept
<1> DEFINE bits == KeptBits(Terminated.bits)
<1>6. \/ kept' = BaseKept
      \/ kept' = [BaseKept EXCEPT !.pos = Len(data)]
      \/ kept' = [BaseKept EXCEPT !.pos = Len(data), !.bits = bits]
  BY DEF EndCall
<1>7. IsSeq(bits) /\ Len(bits) < BYTE
  BY BitsLeft
<1> HIDE DEF bits
<1>8. /\ kept'.pos \in {kept.pos, Len(data)} /\ kept'.base = in_base_offset
      /\ kept'.bits = kept.bits \/ kept'.bits = bits
  BY <1>5, <1>6
<1>9. IsSeq(kept'.bits) /\ Len(kept'.bits) < BYTE
  BY <1>7, <1>8, CommonFacts, Zenon
<1>10. kept'.pos <= Len(data') /\ kept'.base <= Len(data')
  BY <1>1, <1>4, <1>8, CommonFacts
<1>11. WriterOK(os') /\ ~os'.torn
  BY <1>2, NewWriter, NoBits
<1>12. IsSeq(tokens')
  BY <1>2, NoBits, CommonFacts, Zenon
<1>13. strategy' \in Strategies
  BY <1>1, CommonFacts
<1>14. QED BY <1>1, <1>2, <1>9, <1>10, <1>11, <1>12, <1>13, SnapshotSame, IdleFits

LEMMA BeginBlockFits ==
  ASSUME CompressorInv, FitsInv, CompressorInv', NEW min_len, BeginBlock(min_len)
  PROVE  FitsInv'
<1>1. /\ call' = [call EXCEPT !.pc = "parse", !.block = in_next, !.min_len = min_len]
      /\ tokens' = <<>> /\ UNCHANGED <<strategy, kept, os, snapshot, data, in_next>>
  BY DEF BeginBlock
<1>2. call'.pc = "parse" /\ call'.block = in_next /\ call'.start = call.start
  BY <1>1 DEF CompressorInv, CallOK
<1>3. IsSeq(tokens')
  BY <1>1, NoBits, Zenon
<1>4. OutputInv'
  BY <1>1, <1>3 DEF FitsInv, OutputInv, WriterOK, Written
<1>5. call'.block \in 0 .. in_next'
  BY <1>1, <1>2, CommonFacts
<1>6. PlacesInv'
  BY <1>1, <1>2, <1>5, SnapshotConstant DEF FitsInv, PlacesInv
<1>7. QED BY <1>4, <1>6 DEF FitsInv

LEMMA EndBlockFits ==
  ASSUME CompressorInv, FitsInv, CompressorInv', NEW type, EndBlock(type)
  PROVE  FitsInv'
<1> DEFINE bytes == SubSeq(data, call.block + 1, in_next)
           final == IF call.final /\ Remaining = 0 THEN 1 ELSE 0
<1>1. /\ os' = IF call.what = "estimate" THEN os ELSE FlushBlock(os, type, tokens, bytes, final)
      /\ Goto("blocks") /\ tokens' = <<>>
      /\ UNCHANGED <<strategy, kept, snapshot, data, in_next>>
  BY DEF EndBlock, windowVars
<1>2. IsSeq(bytes)
  <2>1. call.block + 1 \in Nat /\ call.block + 1 >= 1
    BY CommonFacts DEF FitsInv, PlacesInv
  <2>2. QED BY <2>1, CommonFacts, SeqFacts
<1> HIDE DEF bytes, final
<1>3. WriterOK(os') /\ ~os'.torn
  <2>1. WriterOK(os) /\ ~os.torn /\ IsSeq(tokens)
    BY CommonFacts
  <2> DEFINE w == FlushBlock(os, type, tokens, bytes, final)
  <2>2. WriterOK(w) /\ w.torn = os.torn
    BY <1>2, <2>1, BlockFits
  <2>3. os' = os \/ os' = w
    BY <1>1
  <2> HIDE DEF w
  <2>4. QED BY <2>1, <2>2, <2>3
<1>4. call'.start = call.start /\ call'.block = call.block /\ call'.pc = "blocks"
  BY <1>1, GotoFacts
<1>5. IsSeq(tokens')
  BY <1>1, NoBits, Zenon
<1>6. OutputInv'
  <2>1. IsSeq(kept.bits) /\ Len(kept.bits) < BYTE /\ IsSeq(snapshot.kept.bits)
        /\ Len(snapshot.kept.bits) < BYTE
    BY DEF FitsInv, OutputInv
  <2>2. QED BY <1>1, <1>3, <1>5, <2>1 DEF OutputInv, WriterOK, Written
<1>7. PlacesInv'
  BY <1>1, <1>4, SnapshotConstant DEF FitsInv, PlacesInv
<1>8. QED BY <1>6, <1>7 DEF FitsInv

LEMMA BeginCallFits ==
  ASSUME ~Retries, CompressorInv, FitsInv, CompressorInv', NEW what, NEW final,
         NEW room \in Nat, BeginCall(what, final, room)
  PROVE  FitsInv'
<1>1. /\ call.pc = "idle" /\ MayCall
      /\ in_next' = kept.pos
      /\ kept' = [kept EXCEPT !.base = in_base_offset']
      /\ os' = OutputBitstream(kept.bits, room)
      /\ call' = [Idle EXCEPT !.pc = "blocks", !.what = what, !.final = final,
                              !.start = kept.pos]
      /\ tokens' = <<>>
      /\ snapshot' \in {snapshot, NoSnapshot}
      /\ UNCHANGED strategy
  BY DEF BeginCall
<1>2. /\ kept.pos \in Nat /\ kept.base \in Nat /\ DOMAIN kept = {"pos", "base", "bits"}
      /\ IsSeq(kept.bits) /\ Len(kept.bits) < BYTE /\ strategy \in Strategies
  BY CommonFacts
<1>3. /\ kept'.pos = kept.pos /\ kept'.base = in_base_offset' /\ kept'.bits = kept.bits
      /\ call'.pc = "blocks" /\ call'.start = kept.pos /\ call'.block = 0
  BY <1>1, <1>2 DEF Idle
<1>4. Len(data') \in Nat /\ in_next' \in Nat
  <2>1. (CompressorInv => Len(data) \in Nat /\ in_next \in Nat)'
    BY PlacesTyped, PTL
  <2>2. QED BY <2>1
<1>5. kept.pos <= Len(data') /\ in_base_offset' \in Nat /\ in_base_offset' <= Len(data')
  <2>1. CASE kept.pos = 0
    <3>1. in_base_offset' = 0
      BY <2>1 DEF BeginCall
    <3>2. QED BY <1>4, <2>1, <3>1
  <2>2. CASE kept.pos # 0
    <3>1. in_next = kept.pos /\ in_next = Len(data) /\ in_base_offset = kept.base
      <4>1. caller.may = "go on"
        BY <1>1, <2>2 DEF MayCall
      <4>2. kept.pos > 0
        BY <1>2, <2>2
      <4>3. QED BY <1>1, <4>1, <4>2 DEF CompressorInv, FinderWaits
    <3>2. PICK text \in Texts : \E n \in Len(data) .. Len(text) : data' = SubSeq(text, 1, n)
      BY <2>2 DEF BeginCall
    <3>3. PICK n \in Len(data) .. Len(text) : data' = SubSeq(text, 1, n)
      BY <3>2
    <3>4. text \in Seq(Byte) /\ Len(text) \in Nat /\ Len(data) \in Nat
      <4>1. text \in Seq(Byte)
        BY CompressorAssumption
      <4>2. QED BY <4>1, CommonFacts
    <3>5. n \in Nat /\ n <= Len(text) /\ Len(data) <= n
      BY <3>4
    <3>6. Len(data') = n
      BY <3>3, <3>4, <3>5
    <3>7. in_base_offset' = kept.base
      BY <2>2 DEF BeginCall
    <3>8. kept.base <= Len(data)
      BY CommonFacts
    <3>9. QED BY <1>2, <3>1, <3>4, <3>5, <3>6, <3>7, <3>8
  <2>3. QED BY <2>1, <2>2
<1>6. WriterOK(os') /\ ~os'.torn
  BY <1>1, <1>2, NewWriter
<1>7. IsSeq(tokens')
  BY <1>1, NoBits, Zenon
<1>8. /\ IsSeq(snapshot'.kept.bits) /\ Len(snapshot'.kept.bits) < BYTE
      /\ snapshot' # NoSnapshot => snapshot'.kept.base <= Len(snapshot'.data)
  <2>1. CASE snapshot' = snapshot
    BY <2>1, SnapshotSame
  <2>2. CASE snapshot' = NoSnapshot
    <3>1. snapshot'.kept.bits = <<>>
      BY <2>2 DEF NoSnapshot
    <3>2. QED BY <2>2, <3>1, NoBits, Zenon
  <2>3. QED BY <1>1, <2>1, <2>2
<1>9. IsSeq(kept'.bits) /\ Len(kept'.bits) < BYTE
  BY <1>2, <1>3, Zenon
<1>10. OutputInv'
  BY <1>6, <1>7, <1>8, <1>9 DEF OutputInv, WriterOK, Written
<1>11. call'.start \in 0 .. Len(data') /\ call'.block \in 0 .. in_next'
  BY <1>2, <1>3, <1>4, <1>5
<1>12. PlacesInv'
  BY <1>1, <1>2, <1>3, <1>5, <1>8, <1>11, SnapshotConstant DEF PlacesInv
<1>13. QED BY <1>10, <1>12 DEF FitsInv

(* A step between calls. *)
LEMMA OutsideFits ==
  ASSUME CompressorInv, FitsInv, CompressorInv', call.pc = "idle",
         UNCHANGED <<strategy, os, call, tokens>>,
         kept'.pos <= Len(data'), kept'.base <= Len(data'),
         IsSeq(kept'.bits), Len(kept'.bits) < BYTE,
         IsSeq(snapshot'.kept.bits), Len(snapshot'.kept.bits) < BYTE,
         snapshot' # NoSnapshot => snapshot'.kept.base <= Len(snapshot'.data)
  PROVE  FitsInv'
<1>1. /\ WriterOK(os) /\ ~os.torn /\ strategy \in Strategies /\ IsSeq(tokens)
      /\ call.start = 0 /\ call.block = 0
  BY CommonFacts DEF FitsInv, PlacesInv
<1>2. Len(data') \in Nat /\ in_next' \in Nat
  <2>1. (CompressorInv => Len(data) \in Nat /\ in_next \in Nat)'
    BY PlacesTyped, PTL
  <2>2. QED BY <2>1
<1>3. OutputInv'
  BY <1>1 DEF OutputInv, WriterOK, Written
<1>4. call'.start \in 0 .. Len(data') /\ call'.block \in 0 .. in_next'
  BY <1>1, <1>2
<1>5. PlacesInv'
  BY <1>1, <1>4, SnapshotConstant DEF PlacesInv
<1>6. QED BY <1>3, <1>5 DEF FitsInv

LEMMA TakeSnapshotFits ==
  ASSUME CompressorInv, FitsInv, CompressorInv', TakeSnapshot
  PROVE  FitsInv'
<1>1. /\ call.pc = "idle" /\ caller.may = "go on" /\ kept.pos > 0
      /\ snapshot' = Snapshot
      /\ UNCHANGED <<strategy, kept, os, call, tokens, data>>
  BY DEF TakeSnapshot, windowVars
<1>2. in_next = kept.pos /\ in_next = Len(data)
  BY <1>1 DEF CompressorInv, FinderWaits
<1>3. data \in Seq(Byte) /\ SubSeq(data, 1, kept.pos) = data
  BY <1>2, CommonFacts
<1>4. snapshot'.data = data /\ snapshot'.kept = kept
  BY <1>1, <1>3 DEF Snapshot
<1>5. QED BY <1>1, <1>4, CommonFacts, OutsideFits

LEMMA RestoreFits ==
  ASSUME CompressorInv, FitsInv, CompressorInv', Restore
  PROVE  FitsInv'
<1>1. /\ call.pc = "idle" /\ snapshot # NoSnapshot
      /\ kept' = snapshot.kept /\ data' = snapshot.data /\ snapshot' = NoSnapshot
      /\ UNCHANGED <<strategy, os, call, tokens>>
  BY DEF Restore, Restored
<1>2. snapshot.kept.pos = Len(snapshot.data)
  BY <1>1 DEF CompressorInv, SnapshotHolds
<1>3. /\ snapshot.kept.base <= Len(snapshot.data)
      /\ IsSeq(snapshot.kept.bits) /\ Len(snapshot.kept.bits) < BYTE
  BY <1>1 DEF FitsInv, OutputInv, PlacesInv
<1>4. Len(data') \in Nat
  <2>1. (CompressorInv => Len(data) \in Nat /\ in_next \in Nat)'
    BY PlacesTyped, PTL
  <2>2. QED BY <2>1
<1>5. kept'.pos <= Len(data') /\ kept'.base <= Len(data')
  BY <1>1, <1>2, <1>3, <1>4
<1>6. snapshot'.kept.bits = <<>>
  BY <1>1 DEF NoSnapshot
<1>7. IsSeq(snapshot'.kept.bits) /\ Len(snapshot'.kept.bits) < BYTE
  BY <1>6, NoBits, Zenon
<1>8. QED BY <1>1, <1>3, <1>5, <1>7, OutsideFits

LEMMA IncrementalResetFits ==
  ASSUME CompressorInv, FitsInv, CompressorInv', IncrementalReset
  PROVE  FitsInv'
<1>1. /\ call.pc = "idle" /\ snapshot' = NoSnapshot
      /\ kept' = [pos |-> 0, base |-> 0, bits |-> <<>>]
      /\ UNCHANGED <<strategy, os, call, tokens, data>>
  BY DEF IncrementalReset, windowVars
<1>2. kept'.pos <= Len(data') /\ kept'.base <= Len(data')
  BY <1>1, CommonFacts
<1>3. snapshot'.kept.bits = <<>> /\ kept'.bits = <<>>
  BY <1>1 DEF NoSnapshot
<1>4. /\ IsSeq(snapshot'.kept.bits) /\ Len(snapshot'.kept.bits) < BYTE
      /\ IsSeq(kept'.bits) /\ Len(kept'.bits) < BYTE
  BY <1>3, NoBits, Zenon
<1>5. QED BY <1>1, <1>2, <1>4, OutsideFits

LEMMA StutterFits ==
  ASSUME CompressorInv, FitsInv, UNCHANGED vars
  PROVE  FitsInv'
<1>1. UNCHANGED <<strategy, kept, os, call, tokens, snapshot, data, in_next>>
  BY DEF vars, compressorVars, windowVars
<1>2. OutputInv'
  BY <1>1 DEF FitsInv, OutputInv, WriterOK, Written
<1>3. PlacesInv'
  BY <1>1, SnapshotConstant DEF FitsInv, PlacesInv
<1>4. QED BY <1>2, <1>3 DEF FitsInv

(* Every step of a call, and every call, leaves room and bits as they      *)
(* must be.                                                                *)
LEMMA StepFits ==
  ASSUME ~Retries, CompressorInv, FitsInv, CompressorInv', Next
  PROVE  FitsInv'
<1>1. CASE CallStep
  <2>1. CASE Stopped
    BY <2>1, StoppedFits
  <2>2. CASE EndCall
    BY <2>2, EndCallFits
  <2>3. CASE \E min_len \in MinLens : BeginBlock(min_len)
    BY <2>3, BeginBlockFits
  <2>4. CASE \E type \in {"block", "stored"} : EndBlock(type)
    BY <2>4, EndBlockFits
  <2>5. CASE ParseHt \/ ParseHc
    BY <2>5, ParseFits
  <2>6. CASE Follow \/ SkipOne
    BY <2>6, FinderStepFits
  <2>7. CASE JudgeMatch \/ JudgeLiteral
    BY <2>7, JudgeFits
  <2>8. CASE LazyTake \/ LazyLook \/ LazyBetter \/ LazyKeep
    BY <2>8, LazyFits
  <2>9. QED BY <1>1, <2>1, <2>2, <2>3, <2>4, <2>5, <2>6, <2>7, <2>8, Zenon DEF CallStep
<1>2. CASE \E final \in BOOLEAN, room \in Rooms : BeginCall("compress", final, room)
  <2>1. Rooms \subseteq Nat
    BY CompressorAssumption
  <2>2. QED BY <1>2, <2>1, BeginCallFits
<1>3. CASE BeginCall("estimate", FALSE, 0)
  BY <1>3, BeginCallFits
<1>4. CASE TakeSnapshot
  BY <1>4, TakeSnapshotFits
<1>5. CASE Restore
  BY <1>5, RestoreFits
<1>6. CASE IncrementalReset
  BY <1>6, IncrementalResetFits
<1>7. QED BY <1>1, <1>2, <1>3, <1>4, <1>5, <1>6, Zenon DEF Next

(* A block whose cost passes the check is written completely, for every    *)
(* input, room and way of cutting both: the cost of a stored block leaves  *)
(* out the header of its first piece, but in whole bytes it is exactly     *)
(* what is written (block.rs 1048-1066).  And never a whole byte of bits   *)
(* stays in the writer or between calls.                                   *)
THEOREM CompressorFits == ~Retries => (Spec => []FitsAsChecked)
<1> SUFFICES ASSUME ~Retries PROVE Spec => []FitsAsChecked
  OBVIOUS
<1>1. Init => FitsInv
  BY InitFits
<1>2. CompressorInv /\ FitsInv /\ CompressorInv' /\ [Next]_vars => FitsInv'
  BY StepFits, StutterFits
<1>3. CompressorInv /\ FitsInv => FitsAsChecked
  BY FitsInvSays
<1>4. QED BY <1>1, <1>2, <1>3, CompressorInvHolds, PTL DEF Spec
===============================================================================
