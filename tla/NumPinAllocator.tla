-------------------------- MODULE NumPinAllocator --------------------------
(***************************************************************************)
(* The "numpin" allocator (src/allocator/numpin.go) fed by the metrics    *)
(* that numpinInformer.GetMetric (src/unnamed/part_001) produces.          *)
(*                                                                         *)
(* Allocate builds a metricsSorter from the candidates map, iterating it  *)
(* in Go's unspecified map order, and sorts it with sort.Sort.  For fewer *)
(* than 7 elements sort.Sort is a plain insertion sort through Less and   *)
(* Swap (its quickSort loop and its gap-6 shell pass do nothing), which   *)
(* is what SortPeers computes.  The candidates and the map order are      *)
(* chosen in Init; one step computes the allocation.                      *)
(***************************************************************************)
EXTENDS Naturals, Sequences, FiniteSets, TLC

LOCAL Seqs == INSTANCE SequencesExt

CONSTANTS
    Peers,     \* candidate peer IDs
    MaxPins    \* bound on the pin count an informer reports

ASSUME Cardinality(Peers) < 7

VARIABLES
    candidates,  \* the candidates argument: peer -> api.Metric
    order,       \* the order in which `range` visits the candidates map
    allocation   \* the []peer.ID Allocate returned, or "none" before

vars == <<candidates, order, allocation>>

NumpinMetricName == "numpin"

(* What GetMetric returns: with a nil rpcClient (before SetClient or after *)
(* Shutdown) the zero Metric with Valid false; otherwise a "numpin" metric *)
(* whose value is len(pinMap) formatted with %d, valid iff IPFSPinLs did   *)
(* not fail.  SetTTL gives it an expiry; whether it has passed when the    *)
(* allocator runs depends on the clock, so it is a free choice.            *)
GetMetric ==
    [name : {""}, value : {""}, valid : {FALSE}, expired : BOOLEAN]
      \cup
    [name : {NumpinMetricName}, value : {ToString(n) : n \in 0..MaxPins},
     valid : BOOLEAN, expired : BOOLEAN]

(* api.Metric.Discard: consumers drop invalid or expired metrics. *)
Discard(m) == ~m.valid \/ m.expired

(* strconv.Atoi over the values a metric can carry. *)
AtoiOk(v) == \E n \in 0..MaxPins : ToString(n) = v

Atoi(v) == CHOOSE n \in 0..MaxPins : ToString(n) = v

(* newMetricsSorter: the peers kept, in map order, and their values.  A   *)
(* metric of another name, discarded, or not a number is skipped.         *)
Kept(m, p) == m[p].name = NumpinMetricName /\ ~Discard(m[p]) /\ AtoiOk(m[p].value)

NewMetricsSorterNoDiscard(m, o) ==
    LET peers == SelectSeq(o, LAMBDA p : m[p].name = NumpinMetricName
                                         /\ AtoiOk(m[p].value))
    IN  [peers |-> peers,
         vals  |-> [p \in Seqs!ToSet(peers) |-> Atoi(m[p].value)]]

NewMetricsSorter(m, o) ==
    LET peers == SelectSeq(o, LAMBDA p : Kept(m, p))
    IN  [peers |-> peers,
         vals  |-> [p \in Seqs!ToSet(peers) |-> Atoi(m[p].value)]]

(* metricsSorter.Less and Swap on positions of the peers slice. *)
Less(s, i, j) == s.vals[s.peers[i]] < s.vals[s.peers[j]]

Swap(s, i, j) ==
    [s EXCEPT !.peers = [s.peers EXCEPT ![i] = s.peers[j], ![j] = s.peers[i]]]

(* The inner loop of insertionSort: for j := i; j > 0 && Less(j, j-1);    *)
(* j-- { Swap(j, j-1) }, on 1-based positions.                             *)
RECURSIVE SiftDown(_, _)
SiftDown(s, j) ==
    IF j > 1 /\ Less(s, j, j - 1) THEN SiftDown(Swap(s, j, j - 1), j - 1) ELSE s

(* The outer loop: for i := 1; i < n; i++. *)
RECURSIVE InsertFrom(_, _)
InsertFrom(s, i) ==
    IF i > Len(s.peers) THEN s ELSE InsertFrom(SiftDown(s, i), i + 1)

SortPeers(s) == InsertFrom(s, 2)

(* Allocate: newMetricsSorter, sort.Sort, return the peers. *)
Allocate(m, o) == SortPeers(NewMetricsSorter(m, o)).peers

Init ==
    /\ candidates \in UNION {[S -> GetMetric] : S \in SUBSET Peers}
    /\ order \in Seqs!SetToSeqs(DOMAIN candidates)
    /\ allocation = "none"

AllocateStep ==
    /\ allocation = "none"
    /\ allocation' = Allocate(candidates, order)
    /\ UNCHANGED <<candidates, order>>

Next == AllocateStep

Spec == Init /\ [][Next]_vars

---------------------------------------------------------------------------
(* Properties *)

(* Reference for the allocator's contract (spec 4.5 and 9): the peers     *)
(* with a valid, unexpired numeric "numpin" metric, each exactly once, in  *)
(* ascending pin count; a peer without one is left out, not ranked last.  *)
Eligible(m) == {p \in DOMAIN m : Kept(m, p)}

Ranked(m) ==
    {s \in Seqs!SetToSeqs(Eligible(m)) :
        Seqs!IsSorted(s, LAMBDA a, b : Atoi(m[a].value) <= Atoi(m[b].value))}

(* Whatever order Go's map iteration visits the candidates in, the        *)
(* insertion sort sort.Sort runs through Less and Swap returns one of the  *)
(* orderings the reference admits.                                        *)
AllocateMatchesReference ==
    allocation # "none" => allocation \in Ranked(candidates)

=============================================================================
