----------------------------- MODULE OneShotFinders -----------------------------
(***************************************************************************)
(* All match finders: those of MatchFinder, which may be fed in pieces,    *)
(* and those only the one-shot parsers of compress/mod.rs use, which have  *)
(* the whole input from the start: the turbo and fast_ht tables and the    *)
(* binary trees.  A dictionary is skipped first.                           *)
(***************************************************************************)
EXTENDS MatchFinder, LimitedTables, BinaryTrees

CONSTANTS
  Kinds,        (* the finders to look at                                  *)
  WholeTexts    (* the inputs of one-shot compression                      *)

ASSUME FamilyAssumption ==
  /\ Kinds \subseteq {"ht", "hc", "turbo", "fast_ht", "bt"}
  /\ WholeTexts \subseteq Seq(Byte)
  /\ NiceLens \subseteq REQUIRED_NBYTES .. MAX_MATCH_LEN

familyVars == <<finderVars, btVars>>

Limited == kind \in {"turbo", "fast_ht"}

OnlyLimited == Limited /\ UNCHANGED <<kind, hcVars, btVars>>
OnlyBt == kind = "bt" /\ UNCHANGED <<kind, htVars>>

(* init() for a new input; the finder keeps what init does not reset. *)
StartWhole ==
  /\ AtRest
  /\ \E text \in WholeTexts : data' = text
  /\ in_next' = 0
  /\ in_base_offset' = 0
  /\ found' = Nothing
  /\ UNCHANGED search
  /\ \/ HtInit /\ OnlyLimited /\ UNCHANGED next_hashes
     \/ HtInit /\ OnlyHt /\ UNCHANGED <<btVars, next_hashes>>
     \/ /\ \E nice_match \in NiceLens : BtInit(nice_match)
        /\ OnlyBt
        /\ next_hashes' = [short |-> FirstBucket, long |-> FirstBucket]

(* The hash at the start of a block. *)
BlockHash ==
  /\ AtRest
  /\ Remaining > 0
  /\ next_hashes' = HtFirstHash
  /\ OnlyLimited
  /\ UNCHANGED <<data, in_next, in_base_offset, found, search, htVars>>

SearchLimited ==
  /\ Remaining > 0
  /\ LET all == AtMost(Remaining, MAX_MATCH_LEN)
     IN  \/ kind = "turbo" /\ TurboLongestMatch(all)
         \/ kind = "fast_ht" /\ 
              \E nice \in NiceLens : FastHtLongestMatch(all, AtMost(nice, all))
  /\ OnlyLimited

(* What is left of a match, or the dictionary. *)
SkipLimited ==
  /\ \E count \in 1 .. AtMost(Remaining, WINDOW_SIZE) :
       \/ kind = "turbo" /\ TurboSkip(count)
       \/ kind = "fast_ht" /\ FastHtSkip(count)
  /\ OnlyLimited

(* Too little left for a search. *)
PassLimited ==
  /\ AtRest
  /\ Remaining \in 1 .. (REQUIRED_NBYTES - 1)
  /\ in_next' = in_next + 1
  /\ OnlyLimited
  /\ UNCHANGED <<data, in_base_offset, next_hashes, found, search, htVars>>

(* The near-optimal parser advances by every byte, and records matches but *)
(* in the dictionary and inside a match of nice_len.                       *)
Advance ==
  /\ Remaining > 0
  /\ \E record \in BOOLEAN : BtAdvance(record)
  /\ OnlyBt

Walk == (BtCompare \/ BtDescend) /\ OnlyBt

FamilyInit ==
  /\ kind \in Kinds
  /\ NewFinder
  /\ hash3_old = [b \in Bucket |-> INITVAL]
  /\ child_tab = [c \in Child |-> INITVAL]
  /\ \E nice_match \in NiceLens : walk = AtRoot(nice_match)

(* A step of a finder that may be fed in pieces; only those are. *)
PiecewiseNext == kind \in {"ht", "hc"} /\ Next /\ UNCHANGED btVars

FamilyNext ==
  \/ PiecewiseNext
  \/ StartWhole \/ BlockHash \/ SearchLimited \/ SkipLimited \/ PassLimited
  \/ Advance \/ Walk

FamilySpec == FamilyInit /\ [][FamilyNext]_familyVars

-------------------------------------------------------------------------------

FamilyTypeOK ==
  /\ kind \in Kinds
  /\ data \in Seq(Byte)
  /\ in_next \in 0 .. Len(data)
  /\ in_base_offset \in Nat
  /\ next_hashes \in [short : Bucket, long : Bucket]
  /\ found \in [length : Nat, offset : Nat, at : Nat]
  /\ search.pc \in {"ready", "chain", "extend", "ht_skip", "hc_skip", "tree", "branch"}
  /\ search.node \in Entry
  /\ bucket0 \in [Bucket -> Entry]
  /\ bucket1 \in [Bucket -> Entry]
  /\ hash3_tab \in [Bucket -> Entry]
  /\ hash3_old \in [Bucket -> Entry]
  /\ hash4_tab \in [Bucket -> Entry]
  /\ next_tab \in [0 .. (WINDOW_SIZE - 1) -> Entry]
  /\ child_tab \in [Child -> Entry]
  /\ linked \subseteq 0 .. (WINDOW_SIZE - 1)
  /\ walk.nice_match \in NiceLens

(* EntriesSound, for the other finders as well: skips that insert three    *)
(* positions of many, and slide before or between them, never leave an     *)
(* entry for a byte that is not there yet (turbo.rs 143-196); and no child *)
(* of a node is such a byte.                                               *)
AllEntriesSound ==
  /\ EntriesSound
  /\ Limited => \A b \in Bucket : Sound(bucket0[b]) /\ Sound(bucket1[b])
  /\ kind = "bt" =>
       /\ \A b \in Bucket : Sound(hash3_tab[b]) /\ Sound(hash3_old[b]) /\ Sound(hash4_tab[b])
       /\ \A s \in linked : Sound(child_tab[LessThan(s)]) /\ Sound(child_tab[GreaterThan(s)])

(* Only links of this input are followed, in chains and in trees, of which *)
(* init resets only the heads and the roots (hc.rs 52-56, bt.rs 113-118).  *)
OnlyFreshLinks == LinksAreFresh /\ NodesArePlanted

(* Every byte compared in a chain or a tree is inside the input, and every *)
(* table entry and position is one.                                        *)
AllReadsInside == FamilyTypeOK /\ ReadsInside /\ ComparesInside

===============================================================================
