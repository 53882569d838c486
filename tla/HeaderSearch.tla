---------------------------- MODULE HeaderSearch ----------------------------
(***************************************************************************)
(* search_hdr_ext of mohq_funcs.c, which decides whether a caller allows   *)
(* REFER, requires 100rel, or sends a sipfrag: does a header's body hold   *)
(* the extension among its words? A step is one turn of one of its loops.  *)
(* Positions count from 0, as in the code.                                 *)
(***************************************************************************)
EXTENDS Integers, Sequences

CONSTANTS
    Letters,    \* what words are made of; case makes no difference
    Exts,       \* the extensions that are searched for
    MaxBody     \* length of the longest body

Separators == {"space", "semicolon", "comma"}
Chars == Letters \cup Separators

ASSUME SearchAssumption ==
    /\ Letters \cap Separators = {}
    /\ Exts \subseteq Seq(Letters) \ {<<>>}
    /\ MaxBody \in Nat

VARIABLES
    body, ext,  \* the arguments
    at, npos1, npos2,
    found       \* what is returned: 0 or 1

searchVars == <<body, ext, at, npos1, npos2, found>>

Bodies == UNION {[1..n -> Chars] : n \in 0..MaxBody}

SearchInit ==
    /\ body \in Bodies /\ ext \in Exts
    /\ at = "skip" /\ npos1 = 0 /\ npos2 = 0 /\ found = 0

InBody == npos1 < Len(body)
Char == body[npos1 + 1]
GoOn(label, n) == at' = label /\ npos1' = n /\ UNCHANGED <<body, ext>>

SkipSpace ==
    /\ at = "skip" /\ InBody /\ Char = "space"
    /\ GoOn("skip", npos1 + 1)
    /\ UNCHANGED <<npos2, found>>

(* Whatever is no space begins a word.                                     *)
StartWord ==
    /\ at = "skip" /\ InBody /\ Char # "space"
    /\ npos2' = npos1
    /\ GoOn("word", npos1 + 1)
    /\ UNCHANGED found

InWord ==
    /\ at = "word" /\ InBody /\ Char \notin Separators
    /\ GoOn("word", npos1 + 1)
    /\ UNCHANGED <<npos2, found>>

(* A plausible slip: the extension is compared without the length.         *)
SamePrefix(i, j) == j - i >= Len(ext) /\ \A k \in 1..Len(ext) : body[i + k] = ext[k]

(* strncasecmp over the length the two have in common.                     *)
Same(i, j) == j - i = Len(ext) /\ \A k \in 1..Len(ext) : body[i + k] = ext[k]

(* A plausible slip: the first word decides.                               *)
EndWordOnce ==
    /\ at = "word" /\ ~(InBody /\ Char \notin Separators)
    /\ found' = IF Same(npos2, npos1) THEN 1 ELSE 0
    /\ GoOn("done", npos1)
    /\ UNCHANGED npos2

(* The separator after the word is passed over.                            *)
EndWord ==
    /\ at = "word" /\ ~(InBody /\ Char \notin Separators)
    /\ IF Same(npos2, npos1) THEN found' = 1 /\ GoOn("done", npos1)
                             ELSE UNCHANGED found /\ GoOn("skip", npos1 + 1)
    /\ UNCHANGED npos2

NotFound ==
    /\ at = "skip" /\ ~InBody
    /\ GoOn("done", npos1)
    /\ UNCHANGED <<npos2, found>>

SearchNext == SkipSpace \/ StartWord \/ InWord \/ EndWord \/ NotFound

SearchSpec == SearchInit /\ [][SearchNext]_searchVars
-----------------------------------------------------------------------------
SearchTypeOK ==
    /\ body \in Seq(Chars) /\ ext \in Exts
    /\ at \in {"skip", "word", "done"}
    /\ npos1 \in 0..(Len(body) + 1) /\ npos2 \in 0..Len(body)
    /\ found \in {0, 1}

(* From i up to j there is a word: letters between separators or the ends. *)
IsSeparator(k) == body[k] \in Separators

Word(i, j) ==
    /\ 0 <= i /\ i < j /\ j <= Len(body)
    /\ \A k \in (i + 1)..j : ~IsSeparator(k)
    /\ i = 0 \/ IsSeparator(i)
    /\ j = Len(body) \/ IsSeparator(j + 1)

HasExt == \E i \in 0..Len(body) : Word(i, i + Len(ext)) /\ Same(i, i + Len(ext))

(* mohq_funcs.c:1930-1935: what is found is a whole word of the body that  *)
(* is the extension, never a part of another word.                         *)
SearchSound == found = 1 => HasExt

(* Every comma and semicolon comes right after a word. Of a body where a   *)
(* space is before the comma the word after it is lost.                    *)
WellSpaced ==
    \A k \in 1..Len(body) : body[k] \in {"semicolon", "comma"} => k > 1 /\ ~IsSeparator(k - 1)

(* An extension that is there is found.                                    *)
SearchComplete == at = "done" /\ found = 0 /\ WellSpaced => ~HasExt
=============================================================================
