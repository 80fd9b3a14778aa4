------------------------- MODULE ResponseProcessing -------------------------
(***************************************************************************)
(* internal/response/processor.go: the results of a page, and those of     *)
(* them that are kept.                                                     *)
(*                                                                         *)
(* A page is a tree of nodes 1 .. n in document order: parent[k] is the    *)
(* parent of k, and kind[k] tells result containers, titles and two kinds  *)
(* of links from anything else.  Every title and link has a text.  A link  *)
(* is a lesser one when fallbackExtraction passes it over: isInternalLink  *)
(* takes its address for one of the search engine (it begins with "/", or  *)
(* contains "search?", "preferences", "about", "stats" or "#", on whatever *)
(* site), its text has at most 5 bytes, or its address at most 10.         *)
(*                                                                         *)
(* A result is [title, url], the nodes they come from; its description     *)
(* does not matter here.                                                   *)
(***************************************************************************)
EXTENDS Integers, Sequences, FiniteSets, FiniteSetsExt, Ranking

Nodes(page) == DOMAIN page.kind
Links == {"link", "lesser"}

\* The nodes of the subtree of k, which are the last ones of a walk from k on.
Subtree(page, k) ==
    LET outside == {j \in Nodes(page) : j > k /\ page.parent[j] < k}
    IN  {j \in Nodes(page) : j >= k /\ \A o \in outside : j < o}

Of(page, k, kinds) == {j \in Subtree(page, k) : page.kind[j] \in kinds}
First(S) == IF S = {} THEN 0 ELSE Min(S)

\* The first title, or the text of the first link; and the target of the first link.
Title(page, k) == First(IF Of(page, k, {"title"}) # {} THEN Of(page, k, {"title"})
                        ELSE Of(page, k, Links))
Result(page, k) == [title |-> Title(page, k), url |-> First(Of(page, k, Links))]
Complete(r) == r.title # 0 /\ r.url # 0

InOrder(S) == Arranged(S, [k \in S |-> k])

\* Mistake: the walk does not go on below a container.
ContainersOutermost(page) ==
    {k \in Nodes(page) : /\ page.kind[k] = "container"
                         /\ \A j \in 1 .. k - 1 : page.kind[j] = "container" => k \notin Subtree(page, j)}

Containers(page) == {k \in Nodes(page) : page.kind[k] = "container"}

\* traverseHTML; a container that holds others repeats the first result in it.
Found(page) ==
    LET complete == {k \in Containers(page) : Complete(Result(page, k))}
        order == InOrder(complete)
    IN  [i \in DOMAIN order |-> Result(page, order[i])]

\* fallbackExtraction, of the whole page: every link but the lesser ones.
Fallback(page) ==
    LET order == InOrder({k \in Nodes(page) : page.kind[k] = "link"})
    IN  [i \in DOMAIN order |-> [title |-> order[i], url |-> order[i]]]

Extracted(page) == IF Found(page) = <<>> THEN Fallback(page) ELSE Found(page)

-----------------------------------------------------------------------------
(* processResults: the scores of the results that are kept *)

Kept(scores, least, most) ==
    LET good == {k \in DOMAIN scores : scores[k] >= least}
        order == Arranged(good, [k \in good |-> -scores[k]])
    IN  [i \in 1 .. Min({most, Cardinality(good)}) |-> scores[order[i]]]

\* Mistake: the room for the indicator is not set aside.
CutOverlong(max, indicator) == max

Cut(max, indicator) == max - indicator

\* truncateText, of a text of this length with spaces at these positions: the length
\* of what is kept, and of what is appended.
Truncated(length, spaces, max, indicator) ==
    IF length <= max THEN [kept |-> length, added |-> 0]
    ELSE IF max <= indicator THEN [kept |-> max, added |-> 0]
    ELSE LET cut == Cut(max, indicator)
             last == Max({0} \cup {s \in spaces : s <= cut})     \* at index last - 1
         IN  [kept |-> IF last - 1 > max \div 2 THEN last - 1 ELSE cut, added |-> indicator]

-----------------------------------------------------------------------------

\* Every innermost container with a link gives its result, in document order.
ListsInnermost(page) ==
    LET inner == {k \in Nodes(page) : Of(page, k, {"container"}) = {k} /\ page.kind[k] = "container"
                                      /\ Complete(Result(page, k))}
        all == Extracted(page)
    IN  \A j, k \in inner : j <= k =>
            \E a, b \in DOMAIN all : a <= b /\ all[a] = Result(page, j) /\ all[b] = Result(page, k)

\* The kept results are the best: sorted, no more than allowed, and a result that is
\* good enough is left out only for others that are as good.
KeepsBest(scores, least, most) ==
    LET kept == Kept(scores, least, most)
        Times(s, seq) == Cardinality({k \in DOMAIN seq : seq[k] = s})
    IN  /\ Len(kept) <= most
        /\ \A a, b \in DOMAIN kept : a <= b => kept[a] >= kept[b]
        /\ \A k \in DOMAIN scores :
             /\ Times(scores[k], kept) <= Times(scores[k], scores)
             /\ (scores[k] >= least /\ Times(scores[k], kept) < Times(scores[k], scores)) =>
                    Len(kept) = most /\ \A a \in DOMAIN kept : kept[a] >= scores[k]

\* A truncated text fits, a text that fits is left alone, and a text that does not
\* keeps half of the length or all but the indicator's.
Fits(length, spaces, max, indicator) ==
    LET t == Truncated(length, spaces, max, indicator)
    IN  /\ t.kept + t.added <= max
        /\ length <= max <=> t = [kept |-> length, added |-> 0]
        /\ length > max => t.kept >= Min({max \div 2, max - t.added})
=============================================================================
