---------------------------- MODULE Names ----------------------------
(***************************************************************************)
(* The pure functions every path and every name passes through:            *)
(* src/src/core/path.cpp, ignore.cpp, win_names.cpp and unicode.cpp.       *)
(* A text is a sequence of bytes.  The state grows it byte by byte, so that *)
(* every short text is met once, and the properties compare what the       *)
(* functions make of it with what they are for.                            *)
(***************************************************************************)
EXTENDS Integers, Sequences, FiniteSets, SequencesExt

CONSTANTS
  Byte,      \* the bytes texts are made of
  MaxText    \* the longest text tried

VARIABLE text   \* a path, a name, a pattern line: whatever a function is given

TextInit == text = <<>>
Type(b) == Len(text) < MaxText /\ text' = Append(text, b)
Finish == Len(text) = MaxText /\ text' = <<>>
TextNext == Finish \/ \E b \in Byte : Type(b)

-----------------------------------------------------------------------------
(* path.cpp.                                                               *)

Slash == 47
Backslash == 92
Dot == 46
IsPathSeparator(c) == c \in {Slash, Backslash}

\* The maximal runs of s without a separator, in order.
Runs(s, Separates(_)) ==
  LET starts == { i \in 1..Len(s) : ~Separates(s[i]) /\ (i = 1 \/ Separates(s[i - 1])) }
      end(i) == Max({ j \in i..Len(s) : \A k \in i..j : ~Separates(s[k]) })
  IN  [n \in 1..Cardinality(starts) |->
         LET i == SetToSortSeq(starts, LAMBDA a, b : a < b)[n] IN SubSeq(s, i, end(i))]

\* What the loop of normalize_path_append (and those of MetadataTree) cuts a
\* path into.
Components(s) == SelectSeq(Runs(s, IsPathSeparator), LAMBDA comp : comp # <<Dot>>)

Join(comps) ==
  FoldLeft(LAMBDA out, comp : IF out = <<>> THEN comp ELSE out \o <<Slash>> \o comp, <<>>, comps)

NormalizePath(s) == Join(Components(s))

RFind(s) == Max({0} \cup { i \in 1..Len(s) : s[i] = Slash })
SplitParent(s) ==
  IF RFind(s) = 0 THEN [parent |-> <<>>, leaf |-> s]
  ELSE [parent |-> SubSeq(s, 1, RFind(s) - 1), leaf |-> SubSeq(s, RFind(s) + 1, Len(s))]

PathIsUnder(child, parent) ==
  \/ parent = <<>>
  \/ /\ IsPrefix(parent, child)
     /\ Len(child) = Len(parent) \/ child[Len(parent) + 1] = Slash

-----------------------------------------------------------------------------
(* ignore.cpp.  A pattern is what parse makes of a line: its segments,     *)
(* whether it is anchored to the root and whether it is for directories.   *)

Star == 42
AnyOne == 63

\* glob_segment, one turn of its loop per step: p and t are the positions in
\* the pattern and the text, star and mark the last star and where the text it
\* covers ends (0 for none).
GlobStep(pat, seg, g) ==
  IF g.p <= Len(pat) /\ (pat[g.p] = AnyOne \/ pat[g.p] = seg[g.t])
  THEN [g EXCEPT !.p = @ + 1, !.t = @ + 1]
  ELSE IF g.p <= Len(pat) /\ pat[g.p] = Star
  THEN [g EXCEPT !.star = g.p, !.p = @ + 1, !.mark = g.t]
  ELSE IF g.star # 0
  THEN [g EXCEPT !.p = g.star + 1, !.mark = @ + 1, !.t = g.mark + 1]
  ELSE [g EXCEPT !.failed = TRUE]

RECURSIVE GlobRun(_, _, _)
GlobRun(pat, seg, g) ==
  IF g.t > Len(seg) \/ g.failed THEN g ELSE GlobRun(pat, seg, GlobStep(pat, seg, g))

GlobSegment(pat, seg) ==
  LET end == GlobRun(pat, seg, [p |-> 1, t |-> 1, star |-> 0, mark |-> 0, failed |-> FALSE])
  IN  ~end.failed /\ \A i \in end.p..Len(pat) : pat[i] = Star

Segments(s) == Runs(s, LAMBDA c : c = Slash)

Pattern(segs, anchored, dirOnly) == [segs |-> segs, anchored |-> anchored, dirOnly |-> dirOnly]

\* parse, for one line: a trailing slash, a leading slash, an inner slash.
ParsePattern(line) ==
  LET dirOnly  == line # <<>> /\ Last(line) = Slash
      bare     == IF dirOnly THEN Front(line) ELSE line
      anchored == Contains(bare, Slash)
  IN  Pattern(Segments(bare), anchored, dirOnly)

\* Mutant: an anchored pattern matches only the whole path.
PatternIgnoresWhole(pat, segs, isDir) ==
  LET isDirAt(k) == k < Len(segs) \/ isDir
  IN  IF pat.anchored
      THEN /\ Len(pat.segs) = Len(segs)
           /\ \A k \in 1..Len(pat.segs) : GlobSegment(pat.segs[k], segs[k])
           /\ pat.dirOnly => isDirAt(Len(pat.segs))
      ELSE \E k \in 1..Len(segs) : /\ GlobSegment(Last(pat.segs), segs[k])
                                   /\ pat.dirOnly => isDirAt(k)

\* ignored, for one pattern and the segments of a path.
PatternIgnores(pat, segs, isDir) ==
  LET isDirAt(k) == k < Len(segs) \/ isDir
  IN  IF pat.anchored
      THEN /\ Len(pat.segs) <= Len(segs)
           /\ \A k \in 1..Len(pat.segs) : GlobSegment(pat.segs[k], segs[k])
           /\ pat.dirOnly => isDirAt(Len(pat.segs))
      ELSE \E k \in 1..Len(segs) : /\ GlobSegment(Last(pat.segs), segs[k])
                                   /\ pat.dirOnly => isDirAt(k)

Ignored(rules, segs, isDir) ==
  segs # <<>> /\ \E pat \in rules : pat.segs # <<>> /\ PatternIgnores(pat, segs, isDir)

-----------------------------------------------------------------------------
(* win_names.cpp.  Bytes are numbers.                                      *)

Reserved == {60, 62, 58, 34, 124, 63, 42, 92} \cup 0..31    \* < > : " | ? * \ and controls
Trailing == {46, 32}                                       \* '.' and ' '

NeedsEscaping(raw) == \/ \E i \in 1..Len(raw) : raw[i] \in Reserved
                      \/ raw # <<>> /\ Last(raw) \in Trailing

\* The UTF-8 of U+F000 + b.
PrivateUse(b) == <<239, 128 + (b \div 64), 128 + (b % 64)>>

Concat(seqs) == FoldLeft(LAMBDA a, b : a \o b, <<>>, seqs)

\* Mutant: a trailing dot or space is left as it is.
EscapeReservedOnly(raw) ==
  Concat([i \in 1..Len(raw) |-> IF raw[i] \in Reserved THEN PrivateUse(raw[i]) ELSE <<raw[i]>>])

EscapeForWindows(raw) ==
  LET escapes(i) == raw[i] \in Reserved \/ (i = Len(raw) /\ raw[i] \in Trailing)
  IN  IF ~NeedsEscaping(raw) THEN raw
      ELSE Concat([i \in 1..Len(raw) |-> IF escapes(i) THEN PrivateUse(raw[i]) ELSE <<raw[i]>>])

\* U+F000..U+F0FF at position i of a name.
PrivateAt(s, i) ==
  i + 2 <= Len(s) /\ s[i] = 239 /\ s[i + 1] \in 128..131 /\ s[i + 2] \in 128..191

UnescapeFromWindows(shown) ==
  LET from[i \in 1..(Len(shown) + 3)] ==
        IF i > Len(shown) THEN <<>>
        ELSE IF PrivateAt(shown, i)
        THEN <<(shown[i + 1] - 128) * 64 + (shown[i + 2] - 128)>> \o from[i + 3]
        ELSE <<shown[i]>> \o from[i + 1]
  IN  from[1]

-----------------------------------------------------------------------------
(* unicode.cpp.                                                            *)

\* Mutant: U+0138, which has no other case, folds like the pairs before it.
CasefoldCodepointNoKra(cp) ==
  LET odd == cp % 2 = 1
  IN  CASE cp \in 65..90                                  -> cp + 32
        [] cp \in 192..222 \ {215}                        -> cp + 32
        [] cp = 304                                       -> 105
        [] cp = 376                                       -> 255
        [] cp = 383                                       -> 115
        [] cp \in (313..328) \cup (377..382)              -> IF odd THEN cp + 1 ELSE cp
        [] cp \in (256..383) \ ((313..328) \cup (377..382) \cup {304, 305, 329, 376, 383})
                                                          -> IF odd THEN cp ELSE cp + 1
        [] cp \in 913..937 \ {930}                        -> cp + 32
        [] cp \in 1040..1071                              -> cp + 32
        [] cp \in 1024..1039                              -> cp + 80
        [] OTHER                                          -> cp

CasefoldCodepoint(cp) ==
  LET odd == cp % 2 = 1
  IN  CASE cp \in 65..90                                  -> cp + 32
        [] cp \in 192..222 \ {215}                        -> cp + 32
        [] cp = 304                                       -> 105
        [] cp = 376                                       -> 255
        [] cp = 383                                       -> 115
        [] cp \in (313..328) \cup (377..382)              -> IF odd THEN cp + 1 ELSE cp
        [] cp \in (256..383) \ ((313..328) \cup (377..382) \cup {304, 305, 312, 329, 376, 383})
                                                          -> IF odd THEN cp ELSE cp + 1
        [] cp \in 913..937 \ {930}                        -> cp + 32
        [] cp \in 1040..1071                              -> cp + 32
        [] cp \in 1024..1039                              -> cp + 80
        [] OTHER                                          -> cp

EncodeUtf8(cp) ==
  LET tail(n) == 128 + ((cp \div 64^n) % 64)
  IN  IF cp < 128 THEN <<cp>>
      ELSE IF cp < 2048 THEN <<192 + cp \div 64, tail(0)>>
      ELSE IF cp < 65536 THEN <<224 + cp \div 4096, tail(1), tail(0)>>
      ELSE <<240 + cp \div 262144, tail(2), tail(1), tail(0)>>

\* The length a lead byte announces, 0 for a byte that leads nothing.
LeadLength(b) ==
  CASE b < 128 -> 1 [] b \in 192..223 -> 2 [] b \in 224..239 -> 3 [] b \in 240..247 -> 4 [] OTHER -> 0

\* The code point at position i, -1 where the bytes are malformed, overlong or
\* a surrogate.
DecodeUtf8(s, i) ==
  LET len  == LeadLength(s[i])
      lead == s[i] % (CASE len = 2 -> 32 [] len = 3 -> 16 [] OTHER -> 8)
      cp   == FoldLeft(LAMBDA acc, k : acc * 64 + (s[i + k] % 64), lead, [k \in 1..(len - 1) |-> k])
      least == CASE len = 2 -> 128 [] len = 3 -> 2048 [] OTHER -> 65536
  IN  IF len = 1 THEN s[i]
      ELSE IF len = 0 \/ i + len - 1 > Len(s) THEN -1
      ELSE IF \E k \in 1..(len - 1) : s[i + k] \notin 128..191 THEN -1
      ELSE IF cp < least \/ cp > 1114111 \/ cp \in 55296..57343 THEN -1
      ELSE cp

Casefold(s) ==
  LET from[i \in 1..(Len(s) + 4)] ==
        IF i > Len(s) THEN <<>>
        ELSE IF DecodeUtf8(s, i) = -1 THEN <<s[i]>> \o from[i + 1]
        ELSE EncodeUtf8(CasefoldCodepoint(DecodeUtf8(s, i))) \o from[i + LeadLength(s[i])]
  IN  from[1]

\* The test in MetadataTree::insert and rename for a name that folds to itself.
FoldsToItself(s) == \A i \in 1..Len(s) : s[i] < 128 /\ s[i] \notin 65..90

-----------------------------------------------------------------------------
(* Properties of the text.                                                 *)

Words(chars, n) == UNION { [1..k -> chars] : k \in 0..n }
Letter == {97, 98}


\* Which names a pattern stands for, said without positions to backtrack to.
Stands(pat, name) ==
  LET match[i \in 1..(Len(pat) + 1), j \in 1..(Len(name) + 1)] ==
        IF i > Len(pat) THEN j > Len(name)
        ELSE IF pat[i] = Star THEN \E k \in j..(Len(name) + 1) : match[i + 1, k]
        ELSE j <= Len(name) /\ pat[i] \in {AnyOne, name[j]} /\ match[i + 1, j + 1]
  IN  match[1, 1]

\* The iterative matcher accepts exactly the names the pattern stands for, and
\* an ignored directory hides everything below it, whatever the rule: the
\* scanner, which does not enter an ignored directory, and the flusher, which
\* judges each changed path on its own, leave out the same paths (ignore.cpp
\* glob_segment, parse, ignored; scanner.cpp; server.cpp flush_loop).
IgnoreRulesHold ==
  LET pat   == ParsePattern(text)
      names == {<<97>>, <<98>>, <<97, 98>>}
      dirs  == Words(names, 2) \ {<<>>}
  IN  /\ \A name \in Words(Letter, 3) : GlobSegment(text, name) <=> Stands(text, name)
      /\ ~pat.anchored => Len(pat.segs) <= 1
      /\ \A dir \in dirs :
           Ignored({pat}, dir, TRUE) =>
             \A name \in names, isDir \in BOOLEAN : Ignored({pat}, Append(dir, name), isDir)

\* A name shown to Windows holds nothing Windows refuses, and comes back as
\* the name on disk, so long as the disk's name has no U+F0xx of its own
\* (win_names.cpp).
ShownNamesComeBack ==
  LET shown == EscapeForWindows(text)
  IN  /\ ~NeedsEscaping(shown)
      /\ (\A i \in 1..Len(text) : ~PrivateAt(text, i)) => UnescapeFromWindows(shown) = text

\* A path is one spelling of its components: normalising keeps them, normalising
\* again changes nothing, splitting gives the last one and the path of the
\* others, and one path is under another exactly when its components begin with
\* the other's (path.cpp).  A name folds to one key: folding a folded name
\* changes nothing, for any bytes at all, every code point folds to one that
\* stays, and the names the tree does not bother to fold are their own folding
\* (unicode.cpp; metadata_tree.cpp insert).
KeysAreCanonical ==
  LET p      == NormalizePath(text)
      comps  == Components(text)
      parts  == SplitParent(p)
      others == { NormalizePath(SubSeq(text, i, j)) : i, j \in 1..Len(text) }
  IN  /\ Components(p) = comps
      /\ NormalizePath(p) = p
      /\ p # <<>> => parts.leaf = Last(comps) /\ parts.parent = Join(Front(comps))
      /\ \A q \in others : PathIsUnder(p, q) <=> IsPrefix(Components(q), comps)
      /\ Casefold(Casefold(text)) = Casefold(text)
      /\ FoldsToItself(text) => Casefold(text) = text
      /\ Len(text) = 1 => \A cp \in 0..1300 :
           /\ CasefoldCodepoint(CasefoldCodepoint(cp)) = CasefoldCodepoint(cp)
           /\ DecodeUtf8(EncodeUtf8(cp), 1) = cp
=============================================================================
