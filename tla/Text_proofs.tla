---------------------------- MODULE Text_proofs ----------------------------
(***************************************************************************)
(* Proofs about the pure algorithms: the search of a header (HeaderSearch) *)
(* for bodies of any alphabet and length, and the room of a call record    *)
(* (CallRecord) for any size of the buffer and any messages.               *)
(***************************************************************************)
EXTENDS HeaderSearch, CallRecord, SequenceTheorems, TLAPS

-----------------------------------------------------------------------------
(* HeaderSearch. Between words npos1 is behind a separator; a word starts  *)
(* behind one, and after its first character, which may be a comma, it has *)
(* none.                                                                   *)
WordInv ==
    at = "word" =>
        /\ npos2 < npos1 /\ npos1 <= Len(body)
        /\ \A k \in (npos2 + 2)..npos1 : ~IsSeparator(k)
        /\ npos2 = 0 \/ IsSeparator(npos2)

SkipInv == at = "skip" => npos1 = 0 \/ npos1 = Len(body) + 1 \/ IsSeparator(npos1)

SearchInv == SearchTypeOK /\ WordInv /\ SkipInv /\ SearchSound

(* Where the extension is in the body.                                     *)
HasExtAt(i) == Word(i, i + Len(ext)) /\ Same(i, i + Len(ext))

(* In a body that is well spaced words begin with a letter, and what was   *)
(* passed over does not hold the extension.                                *)
PassedInv ==
    WellSpaced =>
        /\ at = "word" => ~IsSeparator(npos2 + 1)
        /\ at = "done" /\ found = 0 => npos1 >= Len(body)
        /\ found = 0 => \A i \in 0..Len(body) : HasExtAt(i) =>
                        i >= (IF at = "word" THEN npos2 ELSE npos1)

(* The separators are no letters, an extension is a word.                  *)
LEMMA ExtIsWord ==
    ASSUME NEW e \in Exts
    PROVE  /\ e \in Seq(Letters) /\ Len(e) \in Nat /\ Len(e) >= 1
           /\ \A k \in 1..Len(e) : e[k] \in Letters /\ e[k] \notin Separators
<1>1. e \in Seq(Letters) /\ e # <<>>
  BY SearchAssumption
<1>2. Len(e) \in Nat /\ Len(e) # 0
  BY <1>1, EmptySeq
<1>3. \A k \in 1..Len(e) : e[k] \in Letters
  BY <1>1
<1> QED
  BY <1>1, <1>2, <1>3, SearchAssumption

LEMMA SearchStarts == SearchInit => SearchInv /\ PassedInv
<1> SUFFICES ASSUME SearchInit PROVE SearchInv /\ PassedInv
  OBVIOUS
<1>1. body \in Seq(Chars)
  BY SearchAssumption, SeqDef DEF SearchInit, Bodies
<1>2. Len(body) \in Nat
  BY <1>1
<1>3. SearchTypeOK
  BY <1>1, <1>2 DEF SearchInit, SearchTypeOK
<1> QED
  BY <1>2, <1>3 DEF SearchInit, SearchInv, WordInv, SkipInv, SearchSound, PassedInv

(* One lemma per step of the loops.                                        *)
LEMMA SkipSpaceKeeps == SearchInv /\ PassedInv /\ SkipSpace => SearchInv' /\ PassedInv'
<1> SUFFICES ASSUME SearchInv, PassedInv, SkipSpace PROVE SearchInv' /\ PassedInv'
  OBVIOUS
<1> USE DEF SearchInv, SkipSpace, GoOn, InBody
<1>1. /\ Len(body) \in Nat /\ npos1 \in Nat /\ npos1 < Len(body)
      /\ body[npos1 + 1] = "space" /\ npos1' = npos1 + 1 /\ body' = body /\ ext' = ext
      /\ at' = "skip" /\ npos2' = npos2 /\ found' = found
  BY DEF SearchTypeOK, Char
<1>2. SearchTypeOK'
  BY <1>1 DEF SearchTypeOK
<1>3. WordInv' /\ SkipInv' /\ SearchSound'
  BY <1>1 DEF WordInv, SkipInv, IsSeparator, Separators, SearchSound, HasExt, Word, Same
<1>4. PassedInv'
  <2> SUFFICES ASSUME WellSpaced, found = 0, NEW i \in 0..Len(body), HasExtAt(i)
               PROVE  i >= npos1 + 1
    BY <1>1 DEF PassedInv, WellSpaced, IsSeparator, HasExtAt, Word, Same
  <2>1. i >= npos1
    BY <1>1 DEF PassedInv
  <2>2. Len(ext) \in Nat /\ Len(ext) >= 1
    BY ExtIsWord DEF SearchTypeOK
  <2>3. ~IsSeparator(i + 1)
    BY <2>2 DEF HasExtAt, Word
  <2> QED
    BY <1>1, <2>1, <2>3 DEF IsSeparator, Separators
<1> QED
  BY <1>2, <1>3, <1>4

LEMMA StartWordKeeps == SearchInv /\ PassedInv /\ StartWord => SearchInv' /\ PassedInv'
<1> SUFFICES ASSUME SearchInv, PassedInv, StartWord PROVE SearchInv' /\ PassedInv'
  OBVIOUS
<1> USE DEF SearchInv, StartWord, GoOn, InBody
<1>1. /\ Len(body) \in Nat /\ npos1 \in Nat /\ npos1 < Len(body)
      /\ body[npos1 + 1] \in Chars /\ body[npos1 + 1] # "space"
      /\ npos1' = npos1 + 1 /\ npos2' = npos1 /\ body' = body /\ ext' = ext
      /\ at = "skip" /\ at' = "word" /\ found' = found
  BY DEF SearchTypeOK, Char
<1>2. SearchTypeOK'
  BY <1>1 DEF SearchTypeOK
<1>3. npos1 = 0 \/ IsSeparator(npos1)
  BY <1>1 DEF SkipInv
<1>4. WordInv' /\ SkipInv' /\ SearchSound'
  BY <1>1, <1>3 DEF WordInv, SkipInv, IsSeparator, SearchSound, HasExt, Word, Same
<1>5. PassedInv'
  <2> SUFFICES ASSUME WellSpaced
               PROVE  /\ ~IsSeparator(npos1 + 1)
                      /\ found = 0 => \A i \in 0..Len(body) : HasExtAt(i) => i >= npos1
    BY <1>1 DEF PassedInv, WellSpaced, IsSeparator, HasExtAt, Word, Same
  <2>1. ~IsSeparator(npos1 + 1)
    BY <1>1, <1>3 DEF WellSpaced, IsSeparator, Separators
  <2> QED
    BY <1>1, <2>1 DEF PassedInv
<1> QED
  BY <1>2, <1>4, <1>5

LEMMA InWordKeeps == SearchInv /\ PassedInv /\ InWord => SearchInv' /\ PassedInv'
<1> SUFFICES ASSUME SearchInv, PassedInv, InWord PROVE SearchInv' /\ PassedInv'
  OBVIOUS
<1> USE DEF SearchInv, InWord, GoOn, InBody
<1>1. /\ Len(body) \in Nat /\ npos1 \in Nat /\ npos2 \in Nat /\ npos1 < Len(body)
      /\ body[npos1 + 1] \notin Separators
      /\ npos1' = npos1 + 1 /\ npos2' = npos2 /\ body' = body /\ ext' = ext
      /\ at = "word" /\ at' = "word" /\ found' = found
  BY DEF SearchTypeOK, Char
<1>2. SearchTypeOK'
  BY <1>1 DEF SearchTypeOK
<1>3. WordInv'
  BY <1>1 DEF WordInv, IsSeparator
<1>4. SkipInv' /\ SearchSound'
  BY <1>1 DEF SkipInv, IsSeparator, SearchSound, HasExt, Word, Same
<1>5. PassedInv'
  BY <1>1 DEF PassedInv, WellSpaced, IsSeparator, HasExtAt, Word, Same
<1> QED
  BY <1>2, <1>3, <1>4, <1>5

(* The word that ends is the extension if and only if the extension begins *)
(* where it begins: both go from separator to separator.                   *)
LEMMA EndWordKeeps == SearchInv /\ PassedInv /\ EndWord => SearchInv' /\ PassedInv'
<1> SUFFICES ASSUME SearchInv, PassedInv, EndWord PROVE SearchInv' /\ PassedInv'
  OBVIOUS
<1> USE DEF SearchInv, EndWord, GoOn, InBody
<1>1. /\ Len(body) \in Nat /\ npos1 \in Nat /\ npos2 \in Nat
      /\ body \in Seq(Chars) /\ ext \in Exts
      /\ npos2' = npos2 /\ body' = body /\ ext' = ext /\ at = "word"
  BY DEF SearchTypeOK
<1>2. /\ npos2 < npos1 /\ npos1 <= Len(body)
      /\ \A k \in (npos2 + 2)..npos1 : ~IsSeparator(k)
      /\ npos2 = 0 \/ IsSeparator(npos2)
  BY <1>1 DEF WordInv
<1>3. npos1 = Len(body) \/ IsSeparator(npos1 + 1)
  BY <1>1, <1>2 DEF Char, IsSeparator
<1>4. /\ Len(ext) \in Nat /\ Len(ext) >= 1
      /\ \A k \in 1..Len(ext) : ext[k] \notin Separators
  BY <1>1, ExtIsWord
<1>5. CASE Same(npos2, npos1)
  <2>1. found' = 1 /\ at' = "done" /\ npos1' = npos1
    BY <1>5
  <2>2. npos1 = npos2 + Len(ext) /\ body[npos2 + 1] = ext[1]
    BY <1>1, <1>4, <1>5 DEF Same
  <2>3. ~IsSeparator(npos2 + 1)
    BY <1>4, <2>2 DEF IsSeparator
  <2>4. Word(npos2, npos1)
    BY <1>1, <1>2, <1>3, <2>3 DEF Word
  <2>5. HasExt
    BY <1>1, <1>2, <1>5, <2>2, <2>4 DEF HasExt
  <2>6. SearchSound'
    BY <1>1, <2>5 DEF SearchSound, HasExt, Word, Same, IsSeparator
  <2> QED
    BY <1>1, <2>1, <2>6 DEF SearchTypeOK, WordInv, SkipInv, PassedInv
<1>6. CASE ~Same(npos2, npos1)
  <2>1. found' = found /\ at' = "skip" /\ npos1' = npos1 + 1
    BY <1>6
  <2>2. SearchTypeOK' /\ WordInv' /\ SkipInv' /\ SearchSound'
    BY <1>1, <1>2, <1>3, <2>1
    DEF SearchTypeOK, WordInv, SkipInv, SearchSound, HasExt, Word, Same, IsSeparator
  <2>3. ASSUME WellSpaced, found = 0, NEW i \in 0..Len(body), HasExtAt(i)
        PROVE  i >= npos1 + 1
    <3>1. i >= npos2 /\ ~IsSeparator(npos2 + 1)
      BY <1>1, <2>3 DEF PassedInv
    <3>2. \A k \in (npos2 + 1)..npos1 : ~IsSeparator(k)
      BY <1>1, <1>2, <3>1
    <3>3. Word(i, i + Len(ext)) /\ Same(i, i + Len(ext))
      BY <2>3 DEF HasExtAt
    <3>4. ASSUME i = npos2 PROVE FALSE
      <4>1. ~(i + Len(ext) < npos1)
        BY <1>1, <1>2, <1>4, <3>2, <3>3, <3>4 DEF Word
      <4>2. ~(i + Len(ext) > npos1)
        BY <1>1, <1>2, <1>3, <1>4, <3>3, <3>4 DEF Word
      <4>3. i + Len(ext) = npos1
        BY <1>1, <1>4, <4>1, <4>2
      <4> QED
        BY <1>6, <3>3, <3>4, <4>3
    <3>5. ~(npos2 < i /\ i <= npos1)
      BY <1>1, <3>2, <3>3 DEF Word
    <3> QED
      BY <1>1, <3>1, <3>4, <3>5
  <2>4. PassedInv'
    BY <1>1, <2>1, <2>3 DEF PassedInv, WellSpaced, IsSeparator, HasExtAt, Word, Same
  <2> QED
    BY <2>2, <2>4
<1> QED
  BY <1>5, <1>6

LEMMA NotFoundKeeps == SearchInv /\ PassedInv /\ NotFound => SearchInv' /\ PassedInv'
<1> SUFFICES ASSUME SearchInv, PassedInv, NotFound PROVE SearchInv' /\ PassedInv'
  OBVIOUS
<1> USE DEF SearchInv, NotFound, GoOn, InBody
<1>1. /\ Len(body) \in Nat /\ npos1 \in Nat /\ npos1 >= Len(body)
      /\ npos1' = npos1 /\ npos2' = npos2 /\ body' = body /\ ext' = ext
      /\ at = "skip" /\ at' = "done" /\ found' = found
  BY DEF SearchTypeOK
<1>2. SearchTypeOK'
  BY <1>1 DEF SearchTypeOK
<1>3. WordInv' /\ SkipInv' /\ SearchSound'
  BY <1>1 DEF WordInv, SkipInv, SearchSound, HasExt, Word, Same, IsSeparator
<1>4. PassedInv'
  BY <1>1 DEF PassedInv, WellSpaced, IsSeparator, HasExtAt, Word, Same
<1> QED
  BY <1>2, <1>3, <1>4

LEMMA SearchStutters ==
    SearchInv /\ PassedInv /\ UNCHANGED searchVars => SearchInv' /\ PassedInv'
BY DEF searchVars, SearchInv, SearchTypeOK, WordInv, SkipInv, SearchSound, PassedInv,
       WellSpaced, IsSeparator, HasExt, HasExtAt, Word, Same

LEMMA SearchInvHolds == SearchSpec => [](SearchInv /\ PassedInv)
<1>1. SearchInv /\ PassedInv /\ [SearchNext]_searchVars => (SearchInv /\ PassedInv)'
  BY SkipSpaceKeeps, StartWordKeeps, InWordKeeps, EndWordKeeps, NotFoundKeeps, SearchStutters
  DEF SearchNext
<1> QED
  BY <1>1, SearchStarts, PTL DEF SearchSpec

(* search_hdr_ext finds nothing but whole words, in headers of any length. *)
THEOREM FoundIsThere == SearchSpec => []SearchSound
<1>1. SearchInv /\ PassedInv => SearchSound
  BY DEF SearchInv
<1> QED
  BY <1>1, SearchInvHolds, PTL

(* An extension of a header without stray commas is found, in headers of   *)
(* any length.                                                             *)
THEOREM WhatIsThereIsFound == SearchSpec => []SearchComplete
<1>1. SearchInv /\ PassedInv => SearchComplete
  <2> SUFFICES ASSUME SearchInv, PassedInv, at = "done", found = 0, WellSpaced,
                      NEW i \in 0..Len(body), HasExtAt(i)
               PROVE  FALSE
    BY DEF SearchComplete, HasExt, HasExtAt
  <2>1. Len(body) \in Nat /\ npos1 \in Nat /\ Len(ext) \in Nat /\ Len(ext) >= 1
    BY ExtIsWord DEF SearchInv, SearchTypeOK
  <2>2. i >= npos1 /\ npos1 >= Len(body)
    BY DEF PassedInv
  <2>3. i + Len(ext) <= Len(body)
    BY DEF HasExtAt, Word
  <2> QED
    BY <2>1, <2>2, <2>3
<1> QED
  BY <1>1, SearchInvHolds, PTL

-----------------------------------------------------------------------------
(* CallRecord. The strings of a message come field by field, in this order *)
(* and each field ended by its NUL; the empty To tag is the last.          *)
Rank(f) ==
    CASE f = "call_id" -> 1 [] f = "call_from" -> 2 [] f = "call_contact" -> 3
      [] f = "call_via" -> 4 [] f = "call_route" -> 5 [] f = "call_tag" -> 6

PartSet == [field : Fields, nlen : Nat, bnull : {0, 1}]

Link(a, b) ==
    IF a.bnull = 1 THEN Rank(b.field) = Rank(a.field) + 1 ELSE b.field = a.field

Linked(s) == s \in Seq(PartSet) /\ \A i \in 1..(Len(s) - 1) : Link(s[i], s[i + 1])

(* A list of strings from the beginning of one field to the end of another *)
Run(s, f, g) ==
    /\ Linked(s) /\ s # <<>>
    /\ s[1].field = f /\ s[Len(s)].field = g /\ s[Len(s)].bnull = 1
    /\ \A i \in 1..Len(s) : Rank(s[i].field) <= Rank(g)

Ordered(s) ==
    s # <<>> =>
        /\ Linked(s) /\ s[Len(s)] = Part("call_tag", 0, 1)
        /\ \A i \in 1..(Len(s) - 1) : s[i].field # "call_tag"

RecordTypeOK ==
    /\ ptr \in [Fields -> Nat] /\ len \in [Fields -> Nat]
    /\ pbuf \in Nat /\ call_buflen \in Nat /\ pbuf + call_buflen <= Size
    /\ parts \in Seq(PartSet)
    /\ stage \in {"free", "filling", "entered", "tagged"}

(* The strings of field f are where they belong; and its NUL is there.     *)
Copied(f) == \A k \in ptr[f]..(ptr[f] + len[f] - 1) : buf[k] = f
Terminated(f) == Copied(f) /\ buf[ptr[f] + len[f]] = NUL /\ ptr[f] + len[f] < pbuf

FillInv ==
    stage = "filling" /\ parts # <<>> =>
        /\ \A f \in Fields : Rank(f) < Rank(parts[1].field) => Terminated(f)
        /\ \A f \in Fields : Rank(f) > Rank(parts[1].field) => len[f] = 0
        /\ len["call_tag"] = 0
        /\ len[parts[1].field] > 0 =>
            /\ Copied(parts[1].field)
            /\ ptr[parts[1].field] + len[parts[1].field] = pbuf

(* The tag is behind all the others, and empty until it is added.          *)
EndInv ==
    stage = "entered" \/ (stage = "filling" /\ parts = <<>>) =>
        /\ \A f \in Fields : Terminated(f)
        /\ len["call_tag"] = 0
        /\ \A f \in Fields \ {"call_tag"} : ptr[f] + len[f] < ptr["call_tag"]

FreeInv == stage = "free" => len = [f \in Fields |-> 0]

RecordInv ==
    /\ RecordTypeOK /\ FillInv /\ EndInv /\ FreeInv /\ FieldsReadBack
    /\ stage = "filling" => Ordered(parts)

-----------------------------------------------------------------------------
(* The strings of every message are in that order.                         *)
LEMMA RankType == ASSUME NEW f \in Fields PROVE Rank(f) \in 1..6
BY DEF Fields, Rank

LEMMA RankInjective == ASSUME NEW f \in Fields, NEW g \in Fields, Rank(f) = Rank(g) PROVE f = g
BY DEF Fields, Rank

LEMMA RunConcat ==
    ASSUME NEW s, NEW t, NEW f, NEW g \in Fields, NEW h \in Fields, NEW i \in Fields,
           Run(s, f, g), Run(t, h, i), Rank(h) = Rank(g) + 1
    PROVE  Run(s \o t, f, i) /\ (s \o t)[Len(s \o t)] = t[Len(t)]
<1> DEFINE u == s \o t
<1>1. /\ s \in Seq(PartSet) /\ t \in Seq(PartSet)
      /\ Len(s) \in Nat /\ Len(t) \in Nat /\ Len(s) >= 1 /\ Len(t) >= 1
  BY EmptySeq DEF Run, Linked
<1>2. /\ u \in Seq(PartSet) /\ Len(u) = Len(s) + Len(t)
      /\ \A k \in 1..Len(s) : u[k] = s[k]
      /\ \A k \in 1..Len(t) : u[Len(s) + k] = t[k]
  BY <1>1
<1> HIDE DEF u
<1>3. ASSUME NEW k \in 1..(Len(u) - 1) PROVE Link(u[k], u[k + 1])
  <2>1. CASE k < Len(s)
    <3>1. k \in 1..(Len(s) - 1) /\ k \in 1..Len(s) /\ k + 1 \in 1..Len(s)
      BY <1>1, <1>2, <2>1
    <3>2. u[k] = s[k] /\ u[k + 1] = s[k + 1]
      BY <1>2, <3>1
    <3> QED
      BY <3>1, <3>2 DEF Run, Linked
  <2>2. CASE k = Len(s)
    <3>1. k \in 1..Len(s) /\ 1 \in 1..Len(t)
      BY <1>1, <2>2
    <3>2. u[k] = s[Len(s)] /\ u[k + 1] = t[1]
      BY <1>2, <2>2, <3>1
    <3> QED
      BY <3>2 DEF Run, Link
  <2>3. CASE k > Len(s)
    <3> DEFINE m == k - Len(s)
    <3>1. /\ m \in 1..(Len(t) - 1) /\ m \in 1..Len(t) /\ m + 1 \in 1..Len(t)
          /\ k = Len(s) + m /\ k + 1 = Len(s) + (m + 1)
      BY <1>1, <1>2, <2>3
    <3> HIDE DEF m
    <3>2. u[Len(s) + m] = t[m] /\ u[Len(s) + (m + 1)] = t[m + 1]
      BY <1>2, <3>1
    <3>3. Link(t[m], t[m + 1])
      BY <3>1 DEF Run, Linked
    <3> QED
      BY <3>1, <3>2, <3>3
  <2> QED
    BY <1>1, <1>2, <2>1, <2>2, <2>3
<1>4. u[1] = s[1] /\ u[Len(u)] = t[Len(t)] /\ u # <<>>
  BY <1>1, <1>2
<1>5. ASSUME NEW k \in 1..Len(u) PROVE Rank(u[k].field) <= Rank(i)
  <2>1. Rank(g) \in Int /\ Rank(h) \in Int /\ Rank(i) \in Int
    BY RankType
  <2>2. Rank(t[1].field) <= Rank(i) /\ t[1].field = h
    BY <1>1 DEF Run
  <2>3. CASE k <= Len(s)
    <3>1. k \in 1..Len(s) /\ u[k] = s[k]
      BY <1>1, <1>2, <2>3
    <3>2. s[k] \in PartSet /\ Rank(s[k].field) <= Rank(g)
      BY <1>1, <3>1 DEF Run
    <3>3. Rank(s[k].field) \in Int
      BY <3>2, RankType DEF PartSet
    <3> QED
      BY <2>1, <2>2, <3>1, <3>2, <3>3
  <2>4. CASE k > Len(s)
    <3> DEFINE m == k - Len(s)
    <3>1. m \in 1..Len(t) /\ k = Len(s) + m
      BY <1>1, <1>2, <2>4
    <3> HIDE DEF m
    <3>2. u[Len(s) + m] = t[m]
      BY <1>2, <3>1
    <3> QED
      BY <3>1, <3>2 DEF Run
  <2> QED
    BY <1>1, <2>3, <2>4
<1> QED
  BY <1>2, <1>3, <1>4, <1>5 DEF Run, Linked, u

LEMMA EndedIsRun ==
    ASSUME NEW f \in Fields, NEW extra \in Nat, NEW lengths \in Seq(Nat)
    PROVE  Run(Ended(f, Lines(f, extra, lengths)), f, f)
<1> DEFINE s == Lines(f, extra, lengths)
           u == Ended(f, s)
<1>1. s \in Seq(PartSet) /\ Len(s) = Len(lengths) /\ Len(s) \in Nat
      /\ \A k \in 1..Len(s) : s[k].field = f /\ s[k].bnull = 0
  <2>1. Len(lengths) \in Nat /\ DOMAIN lengths = 1..Len(lengths)
    BY DEF Lines
  <2>2. s \in [1..Len(lengths) -> PartSet]
    BY <2>1 DEF Lines, Part, PartSet
  <2>3. s \in Seq(PartSet) /\ Len(s) = Len(lengths)
    BY <2>1, <2>2, SeqDef
  <2>4. \A k \in 1..Len(s) : s[k].field = f /\ s[k].bnull = 0
    BY <2>1, <2>3 DEF Lines, Part
  <2> QED
    BY <2>1, <2>3, <2>4
<1>2. Part(f, 0, 1) \in PartSet
  BY DEF Part, PartSet
<1> HIDE DEF s
<1>3. /\ u \in Seq(PartSet) /\ Len(u) = Len(s) + 1
      /\ \A k \in 1..Len(s) : u[k] = s[k]
      /\ u[Len(s) + 1] = Part(f, 0, 1)
  BY <1>1, <1>2 DEF Ended
<1>4. Part(f, 0, 1).field = f /\ Part(f, 0, 1).bnull = 1
  BY DEF Part
<1> HIDE DEF u
<1>5. \A k \in 1..Len(s) : u[k].field = f /\ u[k].bnull = 0 /\ u[k + 1].field = f
  BY <1>1, <1>3, <1>4
<1>6. \A k \in 1..Len(u) : Rank(u[k].field) <= Rank(f)
  <2>1. ASSUME NEW k \in 1..Len(u) PROVE u[k].field = f
    <3>1. k \in 1..Len(s) \/ k = Len(s) + 1
      BY <1>1, <1>3
    <3> QED
      BY <1>3, <1>4, <1>5, <3>1
  <2> QED
    BY <2>1, RankType
<1>7. u # <<>> /\ u[1].field = f /\ u[Len(u)].field = f /\ u[Len(u)].bnull = 1
  BY <1>1, <1>3, <1>4, <1>5
<1>8. Linked(u)
  BY <1>1, <1>3, <1>5 DEF Linked, Link
<1> QED
  BY <1>6, <1>7, <1>8 DEF Run, u, s

LEMMA MessagesOrdered ==
    ASSUME NEW m \in Messages
    PROVE  Linked(m) /\ m # <<>> /\ m[1].field = "call_id" /\ Ordered(m)
<1>1. PICK id \in Lengths, from \in Lengths, contact \in Contacts, vias \in Lists, routes \in Lists :
            m = Parts(id, from, contact, vias, routes)
  BY DEF Messages
<1>2. id \in Nat /\ from \in Nat /\ contact \in Seq(Nat) /\ vias \in Seq(Nat) /\ routes \in Seq(Nat)
  <2>1. ASSUME NEW n \in Nat, NEW l \in [1..n -> Lengths] PROVE l \in Seq(Nat)
    <3>1. l \in [1..n -> Nat]
      BY RecordAssumption
    <3> QED
      BY <3>1, SeqDef
  <2>2. vias \in Seq(Nat) /\ routes \in Seq(Nat)
    BY <2>1, RecordAssumption DEF Lists
  <2>3. contact \in Seq(Nat)
    <3>1. CASE contact \in [1..1 -> Lengths]
      BY <2>1, <3>1
    <3>2. CASE contact = <<>>
      BY <3>2
    <3> QED
      BY <3>1, <3>2 DEF Contacts
  <2> QED
    BY <2>2, <2>3, RecordAssumption
<1> DEFINE first == <<Part("call_id", id, 1), Part("call_from", from, 1)>>
           con == Ended("call_contact", Lines("call_contact", 0, contact))
           via == Ended("call_via", Lines("call_via", 7, vias))
           rou == Ended("call_route", Lines("call_route", 9, routes))
           tag == Ended("call_tag", <<>>)
<1>3. Run(first, "call_id", "call_from")
  <2>1. first \in Seq(PartSet) /\ Len(first) = 2
    BY <1>2 DEF Part, PartSet, Fields
  <2> QED
    BY <2>1 DEF Run, Linked, Link, Part, Rank
<1>4. /\ Run(con, "call_contact", "call_contact")
      /\ Run(via, "call_via", "call_via")
      /\ Run(rou, "call_route", "call_route")
  BY <1>2, EndedIsRun DEF Fields
<1>5. Run(tag, "call_tag", "call_tag") /\ Len(tag) = 1 /\ tag[Len(tag)] = Part("call_tag", 0, 1)
  <2>1. Part("call_tag", 0, 1) \in PartSet
    BY DEF Part, PartSet, Fields
  <2>2. tag \in Seq(PartSet) /\ tag # <<>> /\ Len(tag) = 1 /\ tag[1] = Part("call_tag", 0, 1)
    <3>1. tag = Append(<<>>, Part("call_tag", 0, 1))
      BY DEF Ended
    <3>2. <<>> \in Seq(PartSet) /\ Len(<<>>) = 0
      OBVIOUS
    <3> HIDE DEF tag
    <3> QED
      BY <2>1, <3>1, <3>2, AppendProperties
  <2>3. Part("call_tag", 0, 1).field = "call_tag" /\ Part("call_tag", 0, 1).bnull = 1
    BY DEF Part
  <2> HIDE DEF tag
  <2>4. Linked(tag)
    <3>1. \A k \in 1..(Len(tag) - 1) : FALSE
      BY <2>2
    <3> QED
      BY <2>2, <3>1 DEF Linked
  <2>5. \A k \in 1..Len(tag) : tag[k].field = "call_tag"
    BY <2>2, <2>3
  <2> QED
    BY <2>2, <2>3, <2>4, <2>5, RankType DEF Run, Fields
<1> HIDE DEF first, con, via, rou, tag
<1>6. Run(first \o con, "call_id", "call_contact")
  BY <1>3, <1>4, RunConcat DEF Rank, Fields
<1>7. Run((first \o con) \o via, "call_id", "call_via")
  BY <1>4, <1>6, RunConcat DEF Rank, Fields
<1>8. Run(((first \o con) \o via) \o rou, "call_id", "call_route")
  BY <1>4, <1>7, RunConcat DEF Rank, Fields
<1> DEFINE most == ((first \o con) \o via) \o rou
<1> HIDE DEF most
<1>9. Run(most, "call_id", "call_route") /\ Rank("call_tag") = Rank("call_route") + 1
  BY <1>8 DEF Rank, most
<1>10. Run(most \o tag, "call_id", "call_tag") /\ (most \o tag)[Len(most \o tag)] = tag[Len(tag)]
  BY <1>5, <1>9, RunConcat DEF Fields
<1>11. m = most \o tag
  BY <1>1 DEF Parts, first, con, via, rou, tag, most
<1>12. \A k \in 1..(Len(m) - 1) : m[k].field # "call_tag"
  <2>1. /\ most \in Seq(PartSet) /\ tag \in Seq(PartSet) /\ Len(tag) = 1
        /\ \A k \in 1..Len(most) : Rank(most[k].field) <= 5
    BY <1>5, <1>9 DEF Run, Linked, Rank
  <2>2. ASSUME NEW k \in 1..(Len(m) - 1) PROVE k \in 1..Len(most) /\ m[k] = most[k]
    <3>1. Len(most) \in Nat /\ Len(m) = Len(most) + 1
      <4>1. most \in Seq(PartSet) /\ tag \in Seq(PartSet)
        BY <2>1
      <4>2. Len(most) \in Nat /\ Len(most \o tag) = Len(most) + Len(tag)
        BY <4>1, ConcatProperties
      <4> QED
        BY <1>5, <1>11, <4>2
    <3>2. k \in 1..Len(most)
      BY <3>1
    <3>3. (most \o tag)[k] = most[k]
      BY <2>1, <3>1, <3>2
    <3> QED
      BY <1>11, <3>2, <3>3
  <2> QED
    BY <2>1, <2>2 DEF Rank
<1> QED
  BY <1>5, <1>10, <1>11, <1>12 DEF Run, Ordered

-----------------------------------------------------------------------------
LEMMA RecordStarts == RecordInit => RecordInv
BY RecordAssumption
DEF RecordInit, RecordInv, RecordTypeOK, FillInv, EndInv, FreeInv, FieldsReadBack, Ordered

LEMMA BeginRecordKeeps == RecordInv /\ BeginRecord => RecordInv'
<1> SUFFICES ASSUME RecordInv, BeginRecord PROVE RecordInv'
  OBVIOUS
<1>1. /\ stage = "free" /\ stage' = "filling" /\ pbuf' = 0 /\ call_buflen' = Size
      /\ buf' = buf /\ ptr' = ptr /\ len' = len /\ parts' \in Messages
  BY DEF BeginRecord
<1>2. /\ Linked(parts') /\ parts' # <<>> /\ Ordered(parts')
      /\ parts'[1].field = "call_id"
  BY <1>1, MessagesOrdered
<1>3. RecordTypeOK'
  BY <1>1, <1>2, RecordAssumption DEF RecordInv, RecordTypeOK, Linked
<1>4. \A f \in Fields : len'[f] = 0 /\ ~(Rank(f) < Rank("call_id"))
  BY <1>1 DEF RecordInv, FreeInv, Fields, Rank
<1>5. FillInv'
  BY <1>1, <1>2, <1>4 DEF FillInv, Fields
<1> QED
  BY <1>1, <1>2, <1>3, <1>5 DEF RecordInv, EndInv, FreeInv, FieldsReadBack

LEMMA FreedKeeps == RecordInv /\ Freed => RecordInv'
BY RecordAssumption
DEF Freed, RecordInv, RecordTypeOK, FillInv, EndInv, FreeInv, FieldsReadBack

(* What a string does to the buffer: the fields before it stay as they     *)
(* are, its own grows.                                                     *)
LEMMA AddStringWrites ==
    ASSUME RecordTypeOK, NEW f \in Fields, NEW STATE i, i \in 0..pbuf, NEW n \in Nat, NEW z \in {0, 1},
           Fits(n, z), AddString(f, i, n, z)
    PROVE  /\ pbuf' = i + n + z /\ pbuf' \in Nat /\ call_buflen' \in Nat
           /\ pbuf' + call_buflen' <= Size
           /\ len' = [len EXCEPT ![f] = @ + n] /\ len' \in [Fields -> Nat]
           /\ \A k \in 0..(i - 1) : buf'[k] = buf[k]
           /\ \A k \in i..(i + n - 1) : buf'[k] = f
           /\ z = 1 => buf'[i + n] = NUL
<1>1. /\ i \in Nat /\ pbuf \in Nat /\ call_buflen \in Nat /\ n + z <= call_buflen
      /\ pbuf + call_buflen <= Size /\ Size \in Nat /\ i <= pbuf
  BY RecordAssumption DEF RecordTypeOK, Fits, Room
<1>2. /\ pbuf' = i + n + z /\ pbuf' \in Nat /\ call_buflen' \in Nat
      /\ pbuf' + call_buflen' <= Size
  BY <1>1 DEF AddString, Room
<1>3. len' = [len EXCEPT ![f] = @ + n] /\ len' \in [Fields -> Nat]
  BY DEF AddString, RecordTypeOK
<1>4. \A k \in 0..(i - 1) : buf'[k] = buf[k]
  BY <1>1 DEF AddString
<1>5. \A k \in i..(i + n - 1) : buf'[k] = f
  BY <1>1 DEF AddString
<1>6. z = 1 => buf'[i + n] = NUL
  BY <1>1 DEF AddString, Room
<1> QED
  BY <1>2, <1>3, <1>4, <1>5, <1>6

(* A field that is complete lies before pbuf, so nothing that is added     *)
(* there disturbs it.                                                      *)
LEMMA TerminatedStays ==
    ASSUME RecordTypeOK, NEW f \in Fields, NEW STATE i, i \in Nat,
           ptr'[f] = ptr[f], len'[f] = len[f], pbuf' \in Nat, pbuf' >= i,
           \A k \in 0..(i - 1) : buf'[k] = buf[k],
           Terminated(f), ptr[f] + len[f] < i
    PROVE  Terminated(f)'
<1>1. ptr[f] \in Nat /\ len[f] \in Nat /\ ptr[f] + len[f] \in 0..(i - 1)
  BY DEF RecordTypeOK
<1>2. \A k \in ptr[f]..(ptr[f] + len[f] - 1) : k \in 0..(i - 1) /\ buf[k] = f
  BY <1>1 DEF Terminated, Copied
<1>3. \A k \in ptr[f]..(ptr[f] + len[f] - 1) : buf'[k] = f
  BY <1>2
<1>4. buf'[ptr[f] + len[f]] = NUL /\ ptr[f] + len[f] < pbuf'
  BY <1>1 DEF Terminated
<1> QED
  BY <1>3, <1>4 DEF Terminated, Copied

LEMMA AddPartKeeps == RecordInv /\ AddPart => RecordInv'
<1> SUFFICES ASSUME RecordInv, AddPart PROVE RecordInv'
  OBVIOUS
<1>1. stage = "filling" /\ parts # <<>> /\ parts \in Seq(PartSet) /\ RecordTypeOK
  BY DEF AddPart, RecordInv, RecordTypeOK
<1>2. PICK f \in Fields, n \in Nat, z \in {0, 1} :
        Head(parts).field = f /\ Head(parts).nlen = n /\ Head(parts).bnull = z
  <2>1. Head(parts) \in PartSet
    BY <1>1
  <2> QED
    BY <2>1 DEF PartSet
<1>3. /\ f \in Fields /\ n \in Nat /\ z \in {0, 1}
      /\ Head(parts) = parts[1] /\ Len(parts) \in Nat /\ Len(parts) >= 1 /\ Rank(f) \in 1..6
      /\ parts[1].field = f /\ parts[1].nlen = n /\ parts[1].bnull = z
  BY <1>1, <1>2, EmptySeq, RankType
<1>4. CASE Freed
  BY <1>4, FreedKeeps
<1>5. CASE /\ Fits(n, z) /\ AddString(f, pbuf, n, z)
           /\ ptr' = [ptr EXCEPT ![f] = IF len[f] = 0 THEN pbuf ELSE @]
           /\ parts' = Tail(parts) /\ UNCHANGED stage
  <2> DEFINE rest == Tail(parts)
  <2>1. /\ rest \in Seq(PartSet) /\ Len(rest) = Len(parts) - 1
        /\ \A i \in 1..Len(rest) : rest[i] = parts[i + 1]
        /\ rest = <<>> <=> Len(parts) = 1
    <3>1. /\ rest \in Seq(PartSet) /\ Len(rest) = Len(parts) - 1
          /\ \A i \in 1..Len(rest) : rest[i] = parts[i + 1]
      BY <1>1, HeadTailProperties
    <3>2. rest = <<>> <=> Len(rest) = 0
      BY <3>1, EmptySeq
    <3> QED
      BY <1>3, <3>1, <3>2
  <2>2. /\ \A g \in Fields : Rank(g) < Rank(f) => Terminated(g)
        /\ \A g \in Fields : Rank(g) > Rank(f) => len[g] = 0
        /\ len["call_tag"] = 0
        /\ len[f] > 0 => Copied(f) /\ ptr[f] + len[f] = pbuf
    BY <1>1, <1>3 DEF RecordInv, FillInv
  <2>3. Ordered(parts)
    BY <1>1 DEF RecordInv
  <2>15. parts' = rest
    BY <1>5
  <2> HIDE DEF rest
  <2>4. /\ ptr \in [Fields -> Nat] /\ len \in [Fields -> Nat] /\ pbuf \in Nat
        /\ pbuf \in 0..pbuf
    BY <1>1 DEF RecordTypeOK
  <2>5. /\ pbuf' = pbuf + n + z /\ pbuf' \in Nat /\ call_buflen' \in Nat
        /\ pbuf' + call_buflen' <= Size
        /\ len' = [len EXCEPT ![f] = @ + n] /\ len' \in [Fields -> Nat]
        /\ \A k \in 0..(pbuf - 1) : buf'[k] = buf[k]
        /\ \A k \in pbuf..(pbuf + n - 1) : buf'[k] = f
        /\ z = 1 => buf'[pbuf + n] = NUL
    <3>1. RecordTypeOK /\ Fits(n, z) /\ AddString(f, pbuf, n, z)
      BY <1>1, <1>5
    <3>2. f \in Fields /\ pbuf \in 0..pbuf /\ n \in Nat /\ z \in {0, 1}
      BY <1>3, <2>4
    <3> QED
      BY <3>1, <3>2, AddStringWrites
  <2>6. ptr' \in [Fields -> Nat]
    BY <1>5, <2>4
  <2>7. RecordTypeOK'
    BY <1>1, <1>5, <2>15, <2>1, <2>5, <2>6 DEF RecordTypeOK
  <2>8. Copied(f)' /\ ptr'[f] + len'[f] = pbuf + n
    <3>1. len'[f] = len[f] + n /\ len[f] \in Nat /\ ptr[f] \in Nat
      BY <1>3, <2>4, <2>5
    <3>2. CASE len[f] = 0
      <4>1. ptr'[f] = pbuf
        BY <1>3, <1>5, <2>4, <3>2
      <4> QED
        BY <1>3, <2>4, <2>5, <3>1, <3>2, <4>1 DEF Copied
    <3>3. CASE len[f] # 0
      <4>1. ptr'[f] = ptr[f] /\ ptr[f] + len[f] = pbuf /\ Copied(f)
        BY <1>3, <1>5, <2>2, <2>4, <3>1, <3>3
      <4>2. ASSUME NEW k \in ptr[f]..(ptr[f] + (len[f] + n) - 1) PROVE buf'[k] = f
        <5>1. CASE k < pbuf
          <6>1. k \in 0..(pbuf - 1) /\ k \in ptr[f]..(ptr[f] + len[f] - 1)
            BY <2>4, <3>1, <4>1, <5>1
          <6> QED
            BY <2>5, <4>1, <6>1 DEF Copied
        <5>2. CASE k >= pbuf
          <6>1. k \in pbuf..(pbuf + n - 1)
            BY <1>3, <2>4, <3>1, <4>1, <5>2
          <6> QED
            BY <2>5, <6>1
        <5> QED
          BY <2>4, <3>1, <5>1, <5>2
      <4>3. ptr'[f] + len'[f] - 1 = ptr[f] + (len[f] + n) - 1
        BY <3>1, <4>1
      <4>4. Copied(f)'
        BY <4>1, <4>2, <4>3 DEF Copied
      <4>5. ptr'[f] + len'[f] = pbuf + n
        BY <1>3, <2>4, <3>1, <4>1
      <4> QED
        BY <4>4, <4>5
    <3> QED
      BY <3>2, <3>3
  <2>9. ASSUME NEW g \in Fields, Rank(g) < Rank(f) PROVE Terminated(g)' /\ ptr'[g] + len'[g] < pbuf
    <3>1. Terminated(g) /\ g # f
      BY <1>3, <2>2, <2>9
    <3>2. ptr'[g] = ptr[g] /\ len'[g] = len[g]
      BY <1>5, <2>4, <2>5, <3>1
    <3>3. ptr[g] + len[g] < pbuf /\ pbuf' >= pbuf
      BY <1>3, <2>4, <2>5, <3>1 DEF Terminated
    <3>4. Terminated(g)'
      BY <1>1, <2>4, <2>5, <3>1, <3>2, <3>3, TerminatedStays
    <3> QED
      BY <3>2, <3>3, <3>4
  <2>10. z = 1 => Terminated(f)'
    BY <1>3, <2>4, <2>5, <2>8 DEF Terminated
  <2>11. \A g \in Fields : Rank(g) > Rank(f) => len'[g] = 0
    BY <1>3, <2>2, <2>4, <2>5
  <2>12. FreeInv' /\ FieldsReadBack'
    BY <1>1, <1>5 DEF FreeInv, FieldsReadBack
  <2>13. CASE rest = <<>>
    <3>1. f = "call_tag" /\ n = 0 /\ z = 1
      <4>1. Len(parts) = 1 /\ parts[Len(parts)] = Part("call_tag", 0, 1)
        BY <1>1, <2>1, <2>3, <2>13 DEF Ordered
      <4>2. parts[1] = Part("call_tag", 0, 1)
        BY <4>1
      <4> QED
        BY <1>3, <4>2 DEF Part
    <3>2. \A g \in Fields \ {"call_tag"} : Rank(g) < Rank(f)
      BY <3>1 DEF Rank, Fields
    <3>3. len'["call_tag"] = 0
      BY <1>3, <2>2, <2>4, <2>5, <3>1
    <3>4. EndInv'
      BY <1>3, <2>4, <2>8, <2>9, <2>10, <3>1, <3>2, <3>3, <2>6 DEF EndInv
    <3> QED
      BY <1>5, <2>15, <2>7, <2>12, <2>13, <3>4 DEF RecordInv, FillInv, Ordered
  <2>14. CASE rest # <<>>
    <3>1. /\ Len(parts) >= 2 /\ rest[1] = parts[2] /\ rest[Len(rest)] = parts[Len(parts)]
          /\ Link(parts[1], parts[2]) /\ parts[1].field # "call_tag"
      BY <1>3, <2>1, <2>3, <2>14 DEF Ordered, Linked
    <3>2. Ordered(rest)
      <4>1. \A i \in 1..(Len(rest) - 1) : Link(rest[i], rest[i + 1]) /\ rest[i].field # "call_tag"
        BY <1>3, <2>1, <2>3, <2>14 DEF Ordered, Linked
      <4> QED
        BY <2>1, <2>3, <2>14, <3>1, <4>1 DEF Ordered, Linked
    <3>3. rest[1] \in PartSet /\ rest[1].field \in Fields /\ Rank(rest[1].field) \in 1..6
      <4>1. 1 \in 1..Len(rest)
        BY <1>3, <2>1, <2>14
      <4>2. rest[1] \in PartSet
        BY <2>1, <4>1
      <4> QED
        BY <4>2, RankType DEF PartSet
    <3>4. f # "call_tag" /\ len'["call_tag"] = 0
      BY <1>3, <2>2, <2>4, <2>5, <3>1 DEF Fields
    <3>5. CASE z = 1
      <4>1. Rank(rest[1].field) = Rank(f) + 1
        BY <1>3, <3>1, <3>5 DEF Link
      <4>2. \A g \in Fields : Rank(g) < Rank(rest[1].field) => Terminated(g)'
        <5> SUFFICES ASSUME NEW g \in Fields, Rank(g) < Rank(rest[1].field) PROVE Terminated(g)'
          OBVIOUS
        <5>1. Rank(g) < Rank(f) \/ Rank(g) = Rank(f)
          BY <1>3, <4>1, RankType
        <5>2. Rank(g) < Rank(f) \/ g = f
          BY <1>3, <5>1, RankInjective
        <5> QED
          BY <2>9, <2>10, <3>5, <5>2
      <4>3. \A g \in Fields : Rank(g) >= Rank(rest[1].field) => len'[g] = 0
        BY <1>3, <2>11, <4>1, RankType
      <4>4. FillInv'
        <5>1. PICK g \in Fields : parts'[1].field = g
          BY <2>15, <3>3
        <5>2. /\ \A h \in Fields : Rank(h) < Rank(g) => Terminated(h)'
              /\ \A h \in Fields : Rank(h) >= Rank(g) => len'[h] = 0
          BY <2>15, <4>2, <4>3, <5>1
        <5>3. len'[g] = 0 /\ \A h \in Fields : Rank(h) > Rank(g) => len'[h] = 0
          BY <5>1, <5>2, RankType
        <5> QED
          BY <3>4, <5>1, <5>2, <5>3 DEF FillInv
      <4> QED
        BY <1>1, <1>5, <2>7, <2>12, <2>14, <2>15, <3>2, <4>4 DEF RecordInv, EndInv
    <3>6. CASE z = 0
      <4>1. rest[1].field = f
        BY <1>3, <3>1, <3>6 DEF Link
      <4>2. ptr'[f] + len'[f] = pbuf'
        BY <1>3, <2>4, <2>5, <2>8, <3>6
      <4>3. FillInv'
        <5>1. parts'[1].field = f
          BY <2>15, <4>1
        <5>2. \A h \in Fields : Rank(h) < Rank(f) => Terminated(h)'
          BY <2>9
        <5> QED
          BY <2>8, <2>11, <3>4, <4>2, <5>1, <5>2 DEF FillInv, Copied
      <4> QED
        BY <1>1, <1>5, <2>7, <2>12, <2>14, <2>15, <3>2, <4>3 DEF RecordInv, EndInv
    <3> QED
      BY <1>3, <3>5, <3>6
  <2> QED
    BY <2>13, <2>14
<1> QED
  BY <1>1, <1>2, <1>4, <1>5 DEF AddPart

LEMMA EndRecordKeeps == RecordInv /\ EndRecord => RecordInv'
<1> SUFFICES ASSUME RecordInv, EndRecord PROVE RecordInv'
  OBVIOUS
<1>1. /\ stage = "filling" /\ parts = <<>> /\ stage' = "entered" /\ parts' = parts
      /\ buf' = buf /\ ptr' = ptr /\ len' = len /\ pbuf' = pbuf /\ call_buflen' = call_buflen
  BY DEF EndRecord
<1>2. RecordTypeOK' /\ FillInv' /\ FreeInv'
  BY <1>1 DEF RecordInv, RecordTypeOK, FillInv, FreeInv
<1>3. EndInv /\ \A f \in Fields : Terminated(f)
  BY <1>1 DEF RecordInv, EndInv
<1>4. EndInv'
  BY <1>1, <1>3 DEF EndInv, Terminated, Copied
<1>5. FieldsReadBack'
  BY <1>1, <1>3 DEF FieldsReadBack, Terminated, Copied
<1> QED
  BY <1>1, <1>2, <1>4, <1>5 DEF RecordInv

(* The tag is written over the empty one; whatever is before it stays.     *)
LEMMA AddTagKeeps == RecordInv /\ AddTag => RecordInv'
<1> SUFFICES ASSUME RecordInv, AddTag PROVE RecordInv'
  OBVIOUS
<1>1. CASE Freed
  BY <1>1, FreedKeeps
<1>2. ASSUME NEW n \in Lengths, Fits(n, 1), AddString("call_tag", TagPlace, n, 1),
             stage' = "tagged", UNCHANGED <<ptr, parts>>
      PROVE  RecordInv'
  <2>1. RecordTypeOK /\ stage = "entered" /\ n \in Nat /\ "call_tag" \in Fields
    BY RecordAssumption DEF RecordInv, AddTag, Fields
  <2>2. /\ \A f \in Fields : Terminated(f)
        /\ len["call_tag"] = 0
        /\ \A f \in Fields \ {"call_tag"} : ptr[f] + len[f] < ptr["call_tag"]
    BY <2>1 DEF RecordInv, EndInv
  <2>3. ptr["call_tag"] \in 0..pbuf /\ ptr \in [Fields -> Nat] /\ len \in [Fields -> Nat]
    BY <2>1, <2>2 DEF RecordTypeOK, Terminated
  <2>4. /\ pbuf' = ptr["call_tag"] + n + 1 /\ pbuf' \in Nat /\ call_buflen' \in Nat
        /\ pbuf' + call_buflen' <= Size
        /\ len' = [len EXCEPT !["call_tag"] = @ + n] /\ len' \in [Fields -> Nat]
        /\ \A k \in 0..(ptr["call_tag"] - 1) : buf'[k] = buf[k]
        /\ \A k \in ptr["call_tag"]..(ptr["call_tag"] + n - 1) : buf'[k] = "call_tag"
        /\ buf'[ptr["call_tag"] + n] = NUL
    <3>1. AddString("call_tag", ptr["call_tag"], n, 1)
      BY <1>2 DEF TagPlace
    <3> QED
      BY <1>2, <2>1, <2>3, <3>1, AddStringWrites
  <2>5. RecordTypeOK'
    BY <1>2, <2>1, <2>4 DEF RecordTypeOK
  <2>6. ASSUME NEW f \in Fields, f # "call_tag" PROVE Terminated(f)'
    <3>1. ptr'[f] = ptr[f] /\ len'[f] = len[f] /\ ptr[f] + len[f] < ptr["call_tag"]
      BY <1>2, <2>2, <2>3, <2>4, <2>6
    <3>2. ptr["call_tag"] \in Nat /\ pbuf' >= ptr["call_tag"] /\ Terminated(f)
      BY <2>1, <2>2, <2>3, <2>4
    <3> QED
      BY <2>1, <2>4, <3>1, <3>2, TerminatedStays
  <2>7. Terminated("call_tag")'
    <3>1. ptr'["call_tag"] = ptr["call_tag"] /\ len'["call_tag"] = n /\ ptr["call_tag"] \in Nat
      BY <1>2, <2>1, <2>2, <2>3, <2>4
    <3> QED
      BY <2>1, <2>4, <3>1 DEF Terminated, Copied
  <2>8. FieldsReadBack'
    <3>1. \A f \in Fields : Terminated(f)'
      BY <2>6, <2>7
    <3> QED
      BY <3>1 DEF FieldsReadBack, Terminated, Copied
  <2> QED
    BY <1>2, <2>5, <2>8 DEF RecordInv, FillInv, EndInv, FreeInv
<1> QED
  BY <1>1, <1>2 DEF AddTag

LEMMA RecordStutters == RecordInv /\ UNCHANGED recordVars => RecordInv'
BY DEF recordVars, RecordInv, RecordTypeOK, FillInv, EndInv, FreeInv, FieldsReadBack,
       Terminated, Copied

LEMMA RecordInvHolds == RecordSpec => []RecordInv
<1>1. RecordInv /\ [RecordNext]_recordVars => RecordInv'
  BY BeginRecordKeeps, AddPartKeeps, EndRecordKeeps, AddTagKeeps, FreedKeeps, RecordStutters
  DEF RecordNext, FreeRecord
<1> QED
  BY <1>1, RecordStarts, PTL DEF RecordSpec

(* addstrbfr never goes past the end of the buffer, whatever its size and  *)
(* however long the strings of an INVITE are, nor does the To tag.         *)
THEOREM BufferIsEnough == RecordSpec => []WithinBuffer
<1>1. RecordInv => WithinBuffer
  BY RecordAssumption DEF RecordInv, RecordTypeOK, WithinBuffer
<1> QED
  BY <1>1, RecordInvHolds, PTL

(* Every field of a call in the table is read back as it was put there.    *)
THEOREM FieldsAreReadBack == RecordSpec => []FieldsReadBack
<1>1. RecordInv => FieldsReadBack
  BY DEF RecordInv
<1> QED
  BY <1>1, RecordInvHolds, PTL
=============================================================================
