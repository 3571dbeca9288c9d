------------------------------ MODULE MCPackfile ------------------------------
\* Packs of up to four entries in every order of bases and deltas, with the lengths
\* at which a size, an offset or the operand of a copy takes one byte more.
EXTENDS Packfile

\* Trees that share a prefix; a large blob and one that copies 65536 bytes of
\* it; an object that is never in a pack.
Length == [a |-> 15, b |-> 16, c |-> 130, d |-> 40, large |-> 66000, copy |-> 65537,
           size1 |-> 2047, size2 |-> 2048, other |-> 20]
Prefix == [o \in DOMAIN Length |->
             [i \in 1..(Length[o] - 1) |-> (IF o = "copy" THEN i + 256 ELSE i) % 251]]
MCObj        == DOMAIN Length
MCTypeOf(o)  == IF o \in {"a", "b", "c", "d", "other"} THEN 2 ELSE 3
MCContent(o) == IF o = "none" THEN <<>> ELSE Append(Prefix[o], 252)

StepsOf(base, o) ==
  LET common == IF o = "copy" THEN 65536 ELSE Min({Length[base], Length[o]}) - 1
  IN  <<[offset |-> IF o = "copy" THEN 256 ELSE 0, size |-> common,
         bytes |-> SubSeq(MCContent(o), common + 1, Length[o] - 1)],
        [offset |-> 0, size |-> 0, bytes |-> <<252>>]>>
DeltaOf(base, o) == GitDelta(MCContent(base), StepsOf(base, o))

\* How an entry is written: whole, or as a delta against the entry on (0: other).
Whole       == [kind |-> 2, on |-> 0]
Ofs(on)     == [kind |-> OBJ_OFS_DELTA, on |-> on]
Ref(on)     == [kind |-> OBJ_REF_DELTA, on |-> on]
Tag         == [kind |-> 4, on |-> 0]
Ways(i, n)  == {Whole} \cup {Ofs(j) : j \in 1..(i - 1)} \cup {Ref(j) : j \in (0..n) \ {i}}

\* The entries of a pack, one after the other.
Written(objs, ways, zlens) ==
  LET entry(i, start, starts) ==
        LET w     == ways[i]
            base  == IF w.on = 0 THEN "other" ELSE objs[w.on]
            whole == w.kind \notin {OBJ_OFS_DELTA, OBJ_REF_DELTA}
            kind  == IF w = Whole THEN MCTypeOf(objs[i]) ELSE w.kind
            delta == IF whole THEN <<>> ELSE DeltaOf(base, objs[i])
            size  == IF whole THEN Len(MCContent(objs[i])) ELSE Len(delta)
        IN  [kind |-> kind, obj |-> objs[i], on |-> w.on, start |-> start, delta |-> delta,
             zlen |-> zlens[i], id |-> IF kind = OBJ_REF_DELTA THEN base ELSE None,
             idlen |-> IF kind = OBJ_REF_DELTA THEN 20 ELSE 0,
             head |-> GitHeader(kind, size) \o
                      (IF kind = OBJ_OFS_DELTA THEN GitOffset(start - starts[w.on]) ELSE <<>>)]
      all[n \in 0..Len(objs)] ==
        IF n = 0 THEN <<>>
        ELSE LET p == all[n - 1]
             IN  Append(p, entry(n, IF p = <<>> THEN 12 ELSE p[n - 1].start + Width(p[n - 1]),
                                 [i \in DOMAIN p |-> p[i].start]))
  IN  all[Len(objs)]

\* No delta is, over other deltas, its own base.
Acyclic(ways) ==
  LET bases[i \in DOMAIN ways, n \in Nat] ==   \* those up to n deltas away
        IF n = 0 \/ ways[i].on = 0 THEN {} ELSE {ways[i].on} \cup bases[ways[i].on, n - 1]
  IN  \A i \in DOMAIN ways : i \notin bases[i, Len(ways)]

Orders(n) == {ways \in [1..n -> UNION {Ways(i, n) : i \in 1..n}] :
                (\A i \in 1..n : ways[i] \in Ways(i, n)) /\ Acyclic(ways)}

\* Compressed lengths that make distances of 127, 128, 16511 and 16512 bytes.
ZLens   == {1, 126, 16509}
MCPacks == {Written(<<"a", "b", "c">>, ways, <<z1, z2, 1>>) : ways \in Orders(3), z1, z2 \in ZLens}
           \cup {Written(<<"a", "b", "c", "d">>, ways, <<1, 1, 1, 1>>) : ways \in Orders(4)}
           \cup {Written(<<"large", "copy">>, <<Whole, way>>, <<1, 1>>) : way \in {Ofs(1), Ref(1)}}
           \cup {Written(<<"a", "other", "b">>, <<Whole, Tag, Ofs(1)>>, <<1, 1, 1>>)}

\* They are packs as git writes them, deltas in the steps above.
BaseOf(p, i) == IF p[i].kind = OBJ_REF_DELTA THEN p[i].id ELSE p[p[i].on].obj
HowOf(p) == [i \in DOMAIN p |->
               IF p[i].kind \in {OBJ_OFS_DELTA, OBJ_REF_DELTA}
               THEN StepsOf(BaseOf(p, i), p[i].obj) ELSE <<>>]
ASSUME PacksAreGits == \A p \in MCPacks : WrittenByGit(p, HowOf(p))

MCLists == {<<"a">>, <<"b", "c">>, <<"size1", "size2", "a">>, <<"size2", "large">>, <<>>}
===============================================================================
