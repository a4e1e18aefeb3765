----------------------------- MODULE ArtSearch -----------------------------
(***************************************************************************)
(* The searches of the adaptive radix tree: get (inner.go), getGTE         *)
(* (gte.go), getLTE (lte.go) and the rank lookup at (node.go).             *)
(*                                                                         *)
(* A search returns the four results of the code: value, found, dir (which *)
(* way the caller should look next) and id (the rank of the value, summed  *)
(* from the cached pren of the nodes on the way).                          *)
(***************************************************************************)
EXTENDS ArtNode
LOCAL INSTANCE SequencesExt

Result(value, found, dir, id) ==
    [value |-> value, found |-> found, dir |-> dir, id |-> id]

Hit(value, id)  == Result(value, TRUE, 0, id)
Miss(value, dir) == Result(value, FALSE, dir, 0)

\* Mutant of leafGet: only the bytes of the query are compared.
leafGetPrefix(lf, key) ==
    LET cmp == Compare(key, lf.key)
    IN  Result(lf, IsPrefix(key, lf.key), cmp, 0)

\* Leaf.get, for every kind of search.
leafGet(lf, key) ==
    LET cmp == Compare(key, lf.key) IN Result(lf, cmp = 0, cmp, 0)

\* How the key compares with the compressed prefix, as far as both go:
\* 0 for a full match, else the sign of the first difference.
compressedCmp(n, key, depth) ==
    LET maxCmp == Min({Len(n.compressed), Len(key) - depth})
        diff   == SelectInSeq([i \in 1 .. Max({maxCmp, 0}) |->
                                  <<key[depth + i], n.compressed[i]>>],
                              LAMBDA p : p[1] # p[2])
    IN  IF diff = 0 THEN 0
        ELSE IF key[depth + diff] > n.compressed[diff] THEN 1 ELSE -1

\* bnode.get: the exact search.
RECURSIVE get(_, _, _)
get(a, key, depth) ==
    IF a.isLeaf THEN leafGet(a, key)
    ELSE
    LET nextDepth == depth + Len(a.compressed)
        idx       == child(a, At(key, nextDepth))
        sub       == get(a.kids[idx].ch, key, nextDepth + 1)
    IN  IF compressedCmp(a, key, depth) # 0 \/ idx = 0 THEN Miss(Nil, 0)
        ELSE [sub EXCEPT !.id = @ + a.kids[idx].ch.pren]

\* byteCmp: the first difference between the key and the path decides.
byteCmp(a, b, keyCmpPath) ==
    CASE keyCmpPath # 0 -> keyCmpPath
      [] keyCmpPath = 0 /\ a > b -> 1
      [] keyCmpPath = 0 /\ a < b -> -1
      [] OTHER -> 0

\* PHASE TWO of getGTE and getLTE: the key leaves the path of the subtree.
offPath(a, pathCmp) ==
    IF pathCmp > 0 THEN Miss(recursiveLast(a), 1) ELSE Miss(recursiveFirst(a), -1)

-----------------------------------------------------------------------------
(* GTE and GT.  The recursive calls are a "play in three acts": the child  *)
(* at or after the query byte, then the one after it, or the one before.   *)

\* The first act has found a leaf; GT passes over the key itself and takes the
\* next child of this node, or sends the caller to its next child.
gteFound(first, key, smod, a, nextLocal) ==
    CASE smod = "GTE" \/ Less(key, first.value.key) -> Hit(first.value, first.id)
      [] smod = "GT" /\ ~Less(key, first.value.key) ->
            IF nextLocal = 0 THEN Result(Nil, FALSE, 2, first.id)
            ELSE LET ch == a.kids[nextLocal].ch IN Hit(recursiveFirst(ch), ch.pren)

\* The second act: the key is beyond the first child.
gteSecond(second, willDo) ==
    IF second.found \/ second.dir < 0 THEN Hit(second.value, second.id)
    ELSE Miss(second.value, IF willDo THEN 2 ELSE 1)

\* The third act: the key is before the child nx and may be after the one
\* before it.
gteThird(third, nx) ==
    IF third.found THEN Hit(third.value, third.id)
    ELSE IF third.dir > 0 THEN Hit(recursiveFirst(nx), nx.pren)
    ELSE Miss(third.value, third.dir)

\* bnode.getGTE and Inner.getGTE.
RECURSIVE getGTE(_, _, _, _, _, _)
getGTE(a, key, depth, smod, smallestWillDo, keyCmpPath) ==
    IF a.isLeaf THEN leafGet(a, key)
    ELSE IF smallestWillDo \/ key = <<>> THEN Hit(recursiveFirst(a), 0)
    ELSE
    LET pathCmp   == IF keyCmpPath # 0 THEN keyCmpPath
                     ELSE compressedCmp(a, key, depth)
        nextDepth == depth + Len(a.compressed)
        querykey  == At(key, nextDepth)
        toward(i) == byteCmp(querykey, a.kids[i].b, keyCmpPath)
        ch(i)     == a.kids[i].ch
        ranked(i, r) == [r EXCEPT !.id = @ + ch(i).pren]

        nx        == gte(a, querykey)
        first     == ranked(nx, getGTE(ch(nx), key, nextDepth + 1, smod, FALSE,
                                       toward(nx)))
        nextLocal == next(a, a.kids[nx].b)

        nn        == next(a, querykey)
        willDo    == first.dir > 1
        second    == ranked(nn, getGTE(ch(nn), key, nextDepth, smod, willDo,
                                       toward(nn)))

        pv        == prev(a, querykey)
        third     == ranked(pv, getGTE(ch(pv), key, nextDepth + 1, smod, FALSE,
                                       toward(pv)))
    IN  CASE pathCmp # 0 -> offPath(a, pathCmp)
          [] pathCmp = 0 /\ nx = 0 -> Miss(Nil, 2)
          [] OTHER ->
               CASE first.found -> gteFound(first, key, smod, a, nextLocal)
                 [] ~first.found /\ first.dir > 0 ->
                       IF nn = 0 THEN Miss(Last(a.kids).ch, 1)
                       ELSE gteSecond(second, willDo)
                 [] ~first.found /\ first.dir <= 0 ->
                       IF pv = 0 THEN Miss(Head(a.kids).ch, -1)
                       ELSE gteThird(third, ch(nx))

-----------------------------------------------------------------------------
(* LTE and LT, the mirror image: the child at or before the query byte,    *)
(* then the one before it, or the one after it.                            *)

\* The last leaf below a child; its rank comes from subN.
lastOf(ch) == Hit(recursiveLast(ch), ch.pren + subn(ch) - 1)

lteFound(first, key, smod, a, prevLocal) ==
    CASE smod = "LTE" \/ Less(first.value.key, key) -> Hit(first.value, first.id)
      [] smod = "LT" /\ ~Less(first.value.key, key) ->
            IF prevLocal = 0 THEN Result(Nil, FALSE, -2, first.id)
            ELSE lastOf(a.kids[prevLocal].ch)

\* A miss says "needNextLeaf" here, where the mirror image of GTE would say
\* "needPrevLeaf".
lteSecond(second, willDo) ==
    IF second.found \/ second.dir > 0 THEN Hit(second.value, second.id)
    ELSE Miss(second.value, IF willDo THEN -2 ELSE 1)

lteThird(third, pv) ==
    IF third.found THEN Hit(third.value, third.id)
    ELSE IF third.dir < 0 THEN lastOf(pv)
    ELSE Miss(third.value, third.dir)

\* bnode.getLTE and Inner.getLTE.
RECURSIVE getLTE(_, _, _, _, _, _)
getLTE(a, key, depth, smod, largestWillDo, keyCmpPath) ==
    IF a.isLeaf THEN leafGet(a, key)
    ELSE IF largestWillDo \/ key = <<>> THEN Hit(recursiveLast(a), a.subN - 1)
    ELSE
    LET pathCmp   == IF keyCmpPath # 0 THEN keyCmpPath
                     ELSE compressedCmp(a, key, depth)
        nextDepth == depth + Len(a.compressed)
        querykey  == At(key, nextDepth)
        toward(i) == byteCmp(querykey, a.kids[i].b, keyCmpPath)
        ch(i)     == a.kids[i].ch
        ranked(i, r) == [r EXCEPT !.id = @ + ch(i).pren]

        pv        == lte(a, querykey)
        first     == ranked(pv, getLTE(ch(pv), key, nextDepth + 1, smod, FALSE,
                                       toward(pv)))
        prevLocal == prev(a, a.kids[pv].b)

        pp        == prev(a, querykey)
        willDo    == first.dir < -1
        second    == ranked(pp, getLTE(ch(pp), key, nextDepth, smod, willDo,
                                       toward(pp)))

        nx        == next(a, querykey)
        third     == ranked(nx, getLTE(ch(nx), key, nextDepth + 1, smod, FALSE,
                                       toward(nx)))
    IN  CASE pathCmp # 0 -> offPath(a, pathCmp)
          [] pathCmp = 0 /\ pv = 0 -> Miss(Nil, -2)
          [] OTHER ->
               CASE first.found -> lteFound(first, key, smod, a, prevLocal)
                 [] ~first.found /\ first.dir < 0 ->
                       IF pp = 0 THEN Miss(Head(a.kids).ch, -1)
                       ELSE lteSecond(second, willDo)
                 [] ~first.found /\ first.dir >= 0 ->
                       IF nx = 0 THEN Miss(Last(a.kids).ch, 1)
                       ELSE lteThird(third, ch(pv))

-----------------------------------------------------------------------------
(* Rank lookup *)

\* bnode.at: the child whose claimed leaves cover rank i.  No such child is
\* the code's panic("unreachable").
RECURSIVE at(_, _)
at(a, i) ==
    IF i < 0 \/ i >= subn(a) THEN [ok |-> FALSE, panic |-> FALSE]
    ELSE IF a.isLeaf THEN [ok |-> TRUE, panic |-> FALSE, leaf |-> a]
    ELSE
    LET covering == {j \in DOMAIN a.kids : i < Before(a.kids, j)}
        j        == Min(covering)
    IN  IF covering = {} THEN [ok |-> FALSE, panic |-> TRUE]
        ELSE at(a.kids[j].ch, i - Before(a.kids, j - 1))

=============================================================================
