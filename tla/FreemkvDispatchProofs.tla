------------------------- MODULE FreemkvDispatchProofs -------------------------
(***************************************************************************)
(* What the catalog lookup guarantees, for every catalog and every drive:  *)
(* a binding is to an entry with the drive's own fields, a cataloged drive *)
(* is bound, and what a release that adds an entry may rebind: a drive that*)
(* the entry names exactly, or one that reports no product id.             *)
(* Then the dispatch itself, for every catalog, banner and bound.          *)
(***************************************************************************)
EXTENDS FreemkvDispatch, SequenceTheorems, WellFoundedInduction, TLAPS

\* Every non-empty set of places has a first one.
LEMMA FirstIsLeast ==
  ASSUME NEW S \in SUBSET Nat, S # {}
  PROVE  First(S) \in S /\ \A j \in S : First(S) <= j
<1>1. PICK x \in S : \A y \in S : <<y, x>> \notin OpToRel(<, Nat)
  BY WFMin, NatLessThanWellFounded, Zenon
<1>2. \A y \in S : ~(y < x)
  BY <1>1, Zenon DEF OpToRel
<1>3. x \in Nat /\ \A y \in S : x <= y BY <1>2
<1> QED BY <1>3 DEF First

\* What an entry, a catalog and a drive's identity are.
IsEntry(e)   == e # NoEntry /\ e.platform \in Platforms
IsCatalog(all) ==
  \E n \in Nat : DOMAIN all = 1..n /\ \A i \in 1..n : IsEntry(all[i])

\* The places a lookup compares are numbers.
LEMMA Places ==
  ASSUME NEW all, IsCatalog(all), NEW who
  PROVE  /\ Matches(all, who) \in SUBSET Nat /\ Exacts(all, who) \in SUBSET Nat
         /\ Exacts(all, who) \subseteq Matches(all, who)
  BY DEF IsCatalog, Matches, Exacts, Exact

\* A drive with exact entries is bound to one of them.
LEMMA ExactFirst ==
  ASSUME NEW all, IsCatalog(all), NEW who, who.product # NoProduct, Exacts(all, who) # {}
  PROVE  /\ FindIn(all, who) = all[First(Exacts(all, who))]
         /\ First(Exacts(all, who)) \in Exacts(all, who)
<1>1. First(Exacts(all, who)) \in Exacts(all, who) BY Places, FirstIsLeast
<1> QED BY <1>1 DEF FindIn

\* Of the others a unique tuple binds, and a shared one only a drive that
\* reports no product who.
LEMMA BlindFirst ==
  ASSUME NEW all, IsCatalog(all), NEW who, who.product = NoProduct \/ Exacts(all, who) = {}
  PROVE  /\ FindIn(all, who) = NoEntry \/ \E i \in Matches(all, who) : FindIn(all, who) = all[i]
         /\ FindIn(all, who) = NoEntry =>
              \/ Matches(all, who) = {}
              \/ who.product # NoProduct /\ \E i, j \in Matches(all, who) : i # j
         /\ who.product # NoProduct /\ FindIn(all, who) # NoEntry =>
              \A i \in Matches(all, who) : FindIn(all, who) = all[i]
<1> DEFINE M == Matches(all, who)
<1>1. FindIn(all, who) = Blind(all, who) BY DEF FindIn
<1>2. CASE M = {} \/ (who.product # NoProduct /\ \E i, j \in M : i # j)
  <2>1. Blind(all, who) = NoEntry BY <1>2 DEF Blind
  <2> QED BY <1>1, <1>2, <2>1
<1>3. CASE ~(M = {} \/ (who.product # NoProduct /\ \E i, j \in M : i # j))
  <2>1. Blind(all, who) = all[First(M)] BY <1>3 DEF Blind
  <2>2. First(M) \in M BY <1>3, Places, FirstIsLeast
  <2>3. all[First(M)] # NoEntry
    BY <2>2 DEF Matches, IsCatalog, IsEntry
  <2>4. who.product # NoProduct => \A i \in M : all[First(M)] = all[i]
    <3> HIDE DEF M
    <3> QED BY <1>3, <2>2
  <2> QED BY <1>1, <2>1, <2>2, <2>3, <2>4
<1> QED BY <1>2, <1>3

\* A drive that reports no product id is bound to the first entry with its four
\* fields.
LEMMA AnonymousFirst ==
  ASSUME NEW all, IsCatalog(all), NEW who, who.product = NoProduct, Matches(all, who) # {}
  PROVE  /\ FindIn(all, who) = all[First(Matches(all, who))] /\ FindIn(all, who) # NoEntry
         /\ First(Matches(all, who)) \in Matches(all, who)
         /\ \A j \in Matches(all, who) : First(Matches(all, who)) <= j
<1>1. FindIn(all, who) = all[First(Matches(all, who))]
  BY DEF FindIn, Blind
<1>2. /\ First(Matches(all, who)) \in Matches(all, who)
      /\ \A j \in Matches(all, who) : First(Matches(all, who)) <= j
  BY Places, FirstIsLeast
<1>3. \A i \in Matches(all, who) : all[i] # NoEntry
  BY DEF Matches, IsCatalog, IsEntry
<1> QED BY <1>1, <1>2, <1>3

\* A lookup binds a drive only to an entry with its four fields, and, if the
\* drive names its product, only to one that names it too or that no other
\* entry shares the four fields with (find_by_drive_id).
THEOREM BindingIsSound ==
  ASSUME NEW all, IsCatalog(all), NEW who, FindIn(all, who) # NoEntry
  PROVE  /\ \E i \in DOMAIN all : FindIn(all, who) = all[i] /\ FourField(all[i], who)
         /\ who.product # NoProduct =>
              \/ Exact(FindIn(all, who), who)
              \/ \A i \in Matches(all, who) : FindIn(all, who) = all[i]
<1>1. CASE who.product # NoProduct /\ Exacts(all, who) # {}
  <2>1. PICK i \in Exacts(all, who) : FindIn(all, who) = all[i]
    BY <1>1, ExactFirst
  <2>2. i \in DOMAIN all /\ Exact(all[i], who)
    BY <2>1 DEF Exacts
  <2> QED BY <2>1, <2>2 DEF Exact
<1>2. CASE who.product = NoProduct \/ Exacts(all, who) = {}
  BY <1>2, BlindFirst DEF Matches
<1> QED BY <1>1, <1>2

\* A drive the catalog names exactly, or whose four fields one entry alone
\* has, is always bound; and so is a drive that reports no product id and that
\* any entry shares the four fields with, namely to the first one
\* (find_by_drive_id).
THEOREM BindingIsComplete ==
  ASSUME NEW all, IsCatalog(all), NEW who
  PROVE  /\ who.product # NoProduct /\ Exacts(all, who) # {} => Exact(FindIn(all, who), who)
         /\ \A i \in DOMAIN all : Matches(all, who) = {i} => FindIn(all, who) = all[i]
         /\ who.product = NoProduct /\ Matches(all, who) # {} =>
              /\ FindIn(all, who) # NoEntry
              /\ \E i \in Matches(all, who) :
                   FindIn(all, who) = all[i] /\ \A j \in Matches(all, who) : i <= j
<1>1. CASE who.product # NoProduct /\ Exacts(all, who) # {}
  <2>1. FindIn(all, who) = all[First(Exacts(all, who))]
        /\ First(Exacts(all, who)) \in Exacts(all, who)
    BY <1>1, ExactFirst
  <2>2. Exacts(all, who) \subseteq Matches(all, who) BY Places
  <2> QED BY <1>1, <2>1, <2>2 DEF Exacts
<1>2. CASE who.product = NoProduct \/ Exacts(all, who) = {}
  <2>1. ASSUME NEW i \in DOMAIN all, Matches(all, who) = {i}
        PROVE  FindIn(all, who) = all[i]
    BY <1>2, <2>1, BlindFirst
  <2>2. ASSUME who.product = NoProduct, Matches(all, who) # {}
        PROVE  /\ FindIn(all, who) # NoEntry
               /\ \E i \in Matches(all, who) :
                    FindIn(all, who) = all[i] /\ \A j \in Matches(all, who) : i <= j
    BY <2>2, AnonymousFirst
  <2> QED BY <1>2, <2>1, <2>2
<1> QED BY <1>1, <1>2

\* The entries of a catalog, wherever they stand, are in a later one too.
Grows(all, later) == \A i \in DOMAIN all : \E j \in DOMAIN later : later[j] = all[i]

\* Whatever a release adds, and wherever, a drive that names its product and
\* was bound keeps its entry, is bound to one that names it exactly, or is no
\* longer bound: it never gets the firmware of a drive that merely resembles it.
THEOREM GrowthRebindsExactly ==
  ASSUME NEW all, IsCatalog(all), NEW later, IsCatalog(later), Grows(all, later),
         NEW who, who.product # NoProduct, FindIn(all, who) # NoEntry
  PROVE  \/ FindIn(later, who) = FindIn(all, who)
         \/ FindIn(later, who) = NoEntry
         \/ Exact(FindIn(later, who), who)
<1>1. CASE Exacts(later, who) # {}
  BY <1>1, ExactFirst DEF Exacts
<1>2. CASE Exacts(later, who) = {}
  <2>1. Exacts(all, who) = {} BY <1>2 DEF Exacts, Grows
  <2>2. PICK i \in Matches(all, who) : FindIn(all, who) = all[i] BY <2>1, BlindFirst
  <2>3. PICK j \in Matches(later, who) : later[j] = all[i]
    BY <2>2 DEF Matches, Grows
  <2> QED BY <1>2, <2>2, <2>3, BlindFirst
<1> QED BY <1>1, <1>2

-----------------------------------------------------------------------------
(***************************************************************************)
(* What a banner is read as.  The feature states stand right behind the    *)
(* version text, so the token ends at the first byte of them that is not   *)
(* printable; the numbers end at the dots.  Number itself is a recursive   *)
(* function and stays unexpanded.                                          *)
(***************************************************************************)

\* What a transfer carries.
Byte == 0..255

\* A sequence without a stop byte is read to its end.
LEMMA UntilNever ==
  ASSUME NEW s \in Seq(Byte), NEW stop, \A i \in 1..Len(s) : s[i] \notin stop
  PROVE  Until(s, stop) = s
<1>1. DOMAIN s = 1..Len(s) BY LenProperties
<1> QED BY <1>1 DEF Until

\* What stands before the first stop byte is what is read.
LEMMA UntilStop ==
  ASSUME NEW s \in Seq(Byte), NEW t \in Seq(Byte), NEW stop,
         \A i \in 1..Len(s) : s[i] \notin stop,
         t # <<>>, t[1] \in stop
  PROVE  Until(s \o t, stop) = s
<1> DEFINE all  == s \o t
           ends == {i \in DOMAIN all : all[i] \in stop}
           end  == CHOOSE i \in ends : \A j \in ends : i <= j
<1>1. /\ all \in Seq(Byte) /\ Len(all) = Len(s) + Len(t)
      /\ \A i \in 1..Len(s) + Len(t) : all[i] = IF i <= Len(s) THEN s[i] ELSE t[i - Len(s)]
  BY ConcatProperties
<1>2. Len(s) \in Nat /\ Len(t) \in Nat \ {0} /\ DOMAIN all = 1..Len(all)
  BY <1>1, LenProperties, EmptySeq
<1> HIDE DEF all
<1>3. Len(s) + 1 \in ends
  BY <1>1, <1>2
<1>4. \A j \in ends : j \in Nat /\ Len(s) + 1 <= j
  BY <1>1, <1>2
<1> HIDE DEF ends
<1>5. end = Len(s) + 1
  <2>1. end \in ends /\ \A j \in ends : end <= j
    BY <1>3, <1>4
  <2> QED BY <1>2, <1>3, <1>4, <2>1
<1> HIDE DEF end
<1>6. Until(all, stop) = SubSeq(all, 1, end - 1)
  BY <1>3 DEF Until, ends, end
<1>7. SubSeq(all, 1, Len(s)) = s
  <2>1. \A i \in 1..Len(s) : all[i] \in Byte /\ all[i] = s[i]
    BY <1>1, <1>2, ElementOfSeq
  <2>2. /\ SubSeq(all, 1, Len(s)) \in Seq(Byte)
        /\ Len(SubSeq(all, 1, Len(s))) = Len(s)
        /\ \A i \in 1..Len(s) : SubSeq(all, 1, Len(s))[i] = s[i]
    BY <1>2, <2>1, SubSeqProperties
  <2> QED BY <2>2, SeqEqual
<1> QED BY <1>2, <1>5, <1>6, <1>7 DEF all

\* The version token ends at the first byte that is not printable.
LEMMA TokenEnds ==
  ASSUME NEW s \in Seq(Byte), NEW t \in Seq(Byte),
         \A i \in 1..Len(s) : s[i] \in Graphic,
         t # <<>>, t[1] \in Byte, t[1] \notin Graphic
  PROVE  Until(s \o t, (0..255) \ Graphic) = s
<1> DEFINE stop == (0..255) \ Graphic
<1>1. /\ \A i \in 1..Len(s) : s[i] \notin stop
      /\ t[1] \in stop
  BY DEF Byte
<1> HIDE DEF stop
<1>2. Until(s \o t, stop) = s BY <1>1, UntilStop
<1> QED BY <1>2 DEF stop

\* What stands behind the first of two parts is the second.
LEMMA BehindPart ==
  ASSUME NEW s \in Seq(Byte), NEW t \in Seq(Byte)
  PROVE  Behind(s \o t, Len(s)) = t
<1> DEFINE all == s \o t
           rest == SubSeq(all, Len(s) + 1, Len(all))
<1>1. /\ all \in Seq(Byte) /\ Len(all) = Len(s) + Len(t)
      /\ \A i \in 1..Len(s) + Len(t) : all[i] = IF i <= Len(s) THEN s[i] ELSE t[i - Len(s)]
  BY ConcatProperties
<1>2. Len(s) \in Nat /\ Len(t) \in Nat
  BY LenProperties
<1> HIDE DEF all
<1>3. \A i \in Len(s) + 1..Len(all) : all[i] \in Byte
  BY <1>1, <1>2, ElementOfSeq
<1>4. /\ rest \in Seq(Byte)
      /\ Len(rest) = Len(t)
      /\ \A i \in 1..Len(t) : rest[i] = all[Len(s) + i]
  <2>1. /\ rest \in Seq(Byte)
        /\ Len(rest) = IF Len(s) + 1 <= Len(all) THEN Len(all) - (Len(s) + 1) + 1 ELSE 0
        /\ \A i \in 1..Len(all) - (Len(s) + 1) + 1 : rest[i] = all[(Len(s) + 1) + i - 1]
    BY <1>1, <1>2, <1>3, SubSeqProperties
  <2> QED BY <1>1, <1>2, <2>1
<1>5. \A i \in 1..Len(t) : rest[i] = t[i]
  BY <1>1, <1>2, <1>4
<1>6. rest = t BY <1>4, <1>5, SeqEqual
<1> QED BY <1>6 DEF Behind, all

\* The first byte and the others.
LEMMA HeadAndRest ==
  ASSUME NEW b \in Byte, NEW t \in Seq(Byte)
  PROVE  <<b>> \o t # <<>> /\ Head(<<b>> \o t) = b /\ Tail(<<b>> \o t) = t
<1> DEFINE all == <<b>> \o t
<1>1. <<b>> \in Seq(Byte) /\ Len(<<b>>) = 1 /\ <<b>>[1] = b /\ Len(t) \in Nat
  BY LenProperties
<1>2. /\ all \in Seq(Byte) /\ Len(all) = 1 + Len(t)
      /\ \A i \in 1..1 + Len(t) : all[i] = IF i <= 1 THEN b ELSE t[i - 1]
  BY <1>1, ConcatProperties
<1> HIDE DEF all
<1>3. all # <<>> BY <1>1, <1>2
<1>4. Head(all) = b BY <1>1, <1>2, <1>3
<1>5. /\ Tail(all) \in Seq(Byte) /\ Len(Tail(all)) = Len(t)
      /\ \A i \in 1..Len(t) : Tail(all)[i] = t[i]
  <2>1. /\ Tail(all) \in Seq(Byte) /\ Len(Tail(all)) = Len(all) - 1
        /\ \A i \in 1..Len(Tail(all)) : Tail(all)[i] = all[i + 1]
    BY <1>2, <1>3, HeadTailProperties
  <2> QED BY <1>1, <1>2, <2>1
<1>6. Tail(all) = t BY <1>5, SeqEqual
<1> QED BY <1>3, <1>4, <1>6 DEF all

\* The parts of a version are sequences of bytes, and its numbers are numbers.
LEMMA PartsAreBytes ==
  ASSUME NEW v \in Spellings
  PROVE  /\ {v.major, v.minor, v.patch, Spelled(v), <<Space>>, <<Dot>>} \subseteq Seq(Byte)
         /\ \A part \in {v.major, v.minor} : AllDigits(part) /\ Unsigned(part) = part
         /\ \A i \in 1..Len(v.patch) : v.patch[i] \in Graphic
<1>1. Digits \subseteq Byte /\ Graphic \subseteq Byte
  BY DEF Digits, Graphic, Byte
<1>2. \A part \in Numerals :
        part \in Seq(Byte) /\ AllDigits(part) /\ Unsigned(part) = part
  <2> SUFFICES ASSUME NEW part \in Numerals
               PROVE  part \in Seq(Byte) /\ AllDigits(part) /\ Unsigned(part) = part
    OBVIOUS
  <2>1. part \in Seq(Digits) /\ Len(part) > 0 /\ part # <<>>
    BY DEF Numerals
  <2>2. part \in Seq(Byte) BY <1>1, <2>1, SeqMonotonic
  <2>3. \A i \in DOMAIN part : part[i] \in Digits
    BY <2>1, LenProperties, ElementOfSeq
  <2>4. Head(part) \in Digits BY <2>1, HeadTailProperties
  <2> QED BY <2>1, <2>2, <2>3, <2>4 DEF AllDigits, Unsigned, Digits, Plus
<1>3. v.major \in Numerals /\ v.minor \in Numerals /\ v.patch \in Seq(Graphic)
  BY DEF Spellings
<1>4. v.patch \in Seq(Byte) BY <1>1, <1>3, SeqMonotonic
<1>5. <<Space>> \in Seq(Byte) /\ <<Dot>> \in Seq(Byte)
  BY DEF Space, Dot, Byte
<1>6. Spelled(v) \in Seq(Byte)
  BY <1>2, <1>3, <1>4, <1>5, ConcatProperties DEF Spelled
<1>7. \A i \in 1..Len(v.patch) : v.patch[i] \in Graphic
  BY <1>3, ElementOfSeq
<1> QED BY <1>2, <1>3, <1>4, <1>5, <1>6, <1>7

\* The bytes of a version are printable.
LEMMA SpelledIsGraphic ==
  ASSUME NEW v \in Spellings
  PROVE  \A i \in 1..Len(Spelled(v)) : Spelled(v)[i] \in Graphic
<1>1. Digits \subseteq Graphic /\ Dot \in Graphic
  BY DEF Digits, Graphic, Dot
<1>2. v.major \in Seq(Digits) /\ v.minor \in Seq(Digits) /\ v.patch \in Seq(Graphic)
  BY DEF Spellings, Numerals
<1>3. v.major \in Seq(Graphic) /\ v.minor \in Seq(Graphic) /\ <<Dot>> \in Seq(Graphic)
  <2>1. v.major \in Seq(Graphic) BY <1>1, <1>2, SeqMonotonic
  <2>2. v.minor \in Seq(Graphic) BY <1>1, <1>2, SeqMonotonic
  <2>3. <<Dot>> \in Seq(Graphic) BY <1>1
  <2> QED BY <2>1, <2>2, <2>3
<1>4. Spelled(v) \in Seq(Graphic)
  BY <1>2, <1>3, ConcatProperties DEF Spelled
<1> QED BY <1>4, ElementOfSeq

\* A Speed state that is a printable byte joins the version token; nothing else does.
LEMMA TokenOfBanner ==
  ASSUME NEW v \in Spellings, NEW state \in Byte
  PROVE  Version(Banner(v, state)) =
           IF state \in Graphic THEN Spelled(v) \o <<state>> ELSE Spelled(v)
<1> DEFINE token == Spelled(v)
           one   == <<state>>
           last  == <<255>>
           both  == <<state, 255>>
           blank == <<Space>>
           stop  == (0..255) \ Graphic
<1>1. \A i \in 1..Len(token) : token[i] \in Graphic
  BY SpelledIsGraphic
<1>2. token \in Seq(Byte) /\ blank \in Seq(Byte)
  BY PartsAreBytes
<1>3. one \in Seq(Byte) /\ last \in Seq(Byte) /\ both \in Seq(Byte)
  BY DEF Byte
<1>4. /\ both[1] = state /\ last[1] = 255
      /\ Len(one) = 1 /\ one[1] = state /\ Space \in Byte
  BY DEF Space, Byte
<1>5. both # <<>> /\ last # <<>> OBVIOUS
<1>6. both = one \o last OBVIOUS
<1>7. Banner(v, state) = blank \o (token \o both) /\ token \o both \in Seq(Byte)
  <2>1. Banner(v, state) = (blank \o token) \o both BY DEF Banner
  <2> HIDE DEF token, one, last, both, blank
  <2>2. (blank \o token) \o both = blank \o (token \o both)
    BY <1>2, <1>3, ConcatAssociative
  <2>3. token \o both \in Seq(Byte)
    BY <1>2, <1>3, ConcatProperties
  <2> QED BY <2>1, <2>2, <2>3
<1> HIDE DEF token, one, last, both
<1>8. Version(Banner(v, state)) = Until(token \o both, stop)
  <2>1. /\ Banner(v, state) # <<>> /\ Head(Banner(v, state)) = Space
        /\ Tail(Banner(v, state)) = token \o both
    BY <1>4, <1>7, HeadAndRest
  <2> QED BY <2>1 DEF Version
<1> HIDE DEF blank
<1>9. CASE state \in Graphic
  <2>1. token \o both = (token \o one) \o last
    BY <1>2, <1>3, <1>6, ConcatAssociative
  <2>2. /\ token \o one \in Seq(Byte)
        /\ \A i \in 1..Len(token \o one) : (token \o one)[i] \in Graphic
    <3>1. /\ token \o one \in Seq(Byte)
          /\ Len(token \o one) = Len(token) + Len(one)
          /\ \A i \in 1..Len(token) + Len(one) :
               (token \o one)[i] = IF i <= Len(token) THEN token[i] ELSE one[i - Len(token)]
      BY <1>2, <1>3, ConcatProperties
    <3>2. Len(token) \in Nat BY <1>2, LenProperties
    <3> QED BY <1>1, <1>4, <1>9, <3>1, <3>2
  <2>3. last[1] \in Byte /\ last[1] \notin Graphic BY <1>4 DEF Graphic, Byte
  <2>4. Until((token \o one) \o last, stop) = token \o one
    BY <1>3, <1>5, <2>2, <2>3, TokenEnds
  <2> QED BY <1>8, <1>9, <2>1, <2>4 DEF token, one
<1>10. CASE state \notin Graphic
  <2>1. both[1] \in Byte /\ both[1] \notin Graphic
    BY <1>4, <1>10
  <2>2. Until(token \o both, stop) = token
    BY <1>1, <1>2, <1>3, <1>5, <2>1, TokenEnds
  <2> QED BY <1>8, <1>10, <2>2 DEF token
<1> QED BY <1>9, <1>10

\* Whatever follows the second dot, the two numbers before it are read.
LEMMA NumbersOfToken ==
  ASSUME NEW v \in Spellings, NEW rest \in Seq(Byte)
  PROVE  MajorMinor(v.major \o <<Dot>> \o v.minor \o <<Dot>> \o rest) =
           <<Number(v.major), Number(v.minor)>>
<1> DEFINE major == v.major
           minor == v.minor
           tail  == <<Dot>> \o rest
           later == minor \o tail
           dotted == major \o <<Dot>>
           all   == major \o <<Dot>> \o minor \o <<Dot>> \o rest
<1>1. /\ major \in Seq(Byte) /\ minor \in Seq(Byte) /\ <<Dot>> \in Seq(Byte)
      /\ AllDigits(major) /\ AllDigits(minor) /\ Unsigned(major) = major
  BY PartsAreBytes
<1> HIDE DEF major, minor
<1>2. /\ <<Dot>> # <<>> /\ Len(<<Dot>>) = 1 /\ <<Dot>>[1] = Dot /\ Dot \in {Dot} /\ Dot \in Byte
      /\ Dot \notin Digits /\ Len(major) \in Nat /\ Len(minor) \in Nat
  BY <1>1, LenProperties DEF Dot, Byte, Digits
<1>3. /\ tail \in Seq(Byte) /\ later \in Seq(Byte)
      /\ dotted \in Seq(Byte) /\ Len(dotted) = Len(major) + 1
  BY <1>1, <1>2, ConcatProperties
<1>4. /\ all = dotted \o later /\ all = major \o (<<Dot>> \o later)
  <2>1. dotted \o minor \in Seq(Byte) BY <1>1, <1>3, ConcatProperties
  <2>2. all = ((dotted \o minor) \o <<Dot>>) \o rest
    OBVIOUS
  <2>3. ((dotted \o minor) \o <<Dot>>) \o rest = (dotted \o minor) \o tail
    BY <1>1, <2>1, ConcatAssociative
  <2>4. (dotted \o minor) \o tail = dotted \o later
    BY <1>1, <1>3, ConcatAssociative
  <2>5. dotted \o later = major \o (<<Dot>> \o later)
    BY <1>1, <1>3, ConcatAssociative
  <2> QED BY <2>2, <2>3, <2>4, <2>5
<1>5. \A s \in Seq(Byte) : /\ <<Dot>> \o s \in Seq(Byte) /\ <<Dot>> \o s # <<>>
                           /\ (<<Dot>> \o s)[1] = Dot
  <2> SUFFICES ASSUME NEW s \in Seq(Byte)
               PROVE  /\ <<Dot>> \o s \in Seq(Byte) /\ <<Dot>> \o s # <<>>
                      /\ (<<Dot>> \o s)[1] = Dot
    OBVIOUS
  <2>1. /\ <<Dot>> \o s \in Seq(Byte) /\ Len(<<Dot>> \o s) = 1 + Len(s) /\ Len(s) \in Nat
        /\ \A i \in 1..1 + Len(s) : (<<Dot>> \o s)[i] = IF i <= 1 THEN <<Dot>>[i] ELSE s[i - 1]
    BY <1>1, <1>2, ConcatProperties, LenProperties
  <2> QED BY <1>2, <2>1, EmptySeq
<1>6. \A part \in Seq(Byte) : AllDigits(part) =>
        /\ \A i \in 1..Len(part) : part[i] \notin {Dot}
        /\ \A i \in 1..Len(part) : part[i] \notin (0..255) \ Digits
  BY <1>2, LenProperties DEF AllDigits
<1> HIDE DEF tail, later, dotted, all
<1>7. Until(all, {Dot}) = major
  <2>1. Until(major \o (<<Dot>> \o later), {Dot}) = major
    <3>1. \A i \in 1..Len(major) : major[i] \notin {Dot} BY <1>1, <1>6
    <3>2. /\ <<Dot>> \o later \in Seq(Byte) /\ <<Dot>> \o later # <<>>
          /\ (<<Dot>> \o later)[1] \in {Dot}
      BY <1>3, <1>5
    <3> QED BY <1>1, <3>1, <3>2, UntilStop
  <2> QED BY <1>4, <2>1
<1>8. Behind(all, Len(major) + 1) = later
  BY <1>3, <1>4, BehindPart
<1>9. Until(later, {Dot}) = minor
  <2>1. \A i \in 1..Len(minor) : minor[i] \notin {Dot} BY <1>1, <1>6
  <2>2. tail \in Seq(Byte) /\ tail # <<>> /\ tail[1] \in {Dot}
    BY <1>5 DEF tail
  <2> QED BY <1>1, <2>1, <2>2, UntilStop DEF later
<1>10. Until(minor, (0..255) \ Digits) = minor
  BY <1>1, <1>6, UntilNever
<1>11. Len(major) < Len(all)
  BY <1>2, <1>3, <1>4, ConcatProperties, LenProperties
<1>12. MajorMinor(all) = <<Number(major), Number(minor)>>
  BY <1>1, <1>7, <1>8, <1>9, <1>10, <1>11 DEF MajorMinor
<1> QED BY <1>12 DEF all, major, minor

\* FirmwareIdentity::parse and major_minor read back the two numbers of every
\* version, whatever its patch text and whatever Speed state follows the banner.
THEOREM BannerIsRead ==
  ASSUME NEW v \in Spellings, NEW state \in Byte
  PROVE  MajorMinor(Version(Banner(v, state))) = <<Number(v.major), Number(v.minor)>>
<1> DEFINE front == v.major \o <<Dot>> \o v.minor \o <<Dot>>
           one   == <<state>>
<1>1. v.patch \in Seq(Byte) /\ front \in Seq(Byte) /\ one \in Seq(Byte)
  BY PartsAreBytes, ConcatProperties
<1>2. Spelled(v) = front \o v.patch BY DEF Spelled
<1>3. \A rest \in Seq(Byte) : MajorMinor(front \o rest) = <<Number(v.major), Number(v.minor)>>
  BY NumbersOfToken
<1>4. Version(Banner(v, state)) \in {Spelled(v) \o one, Spelled(v)}
  BY TokenOfBanner
<1> HIDE DEF front, one
<1> DEFINE patch == v.patch
<1>5. front \o patch \o one = front \o (patch \o one) /\ patch \o one \in Seq(Byte)
  <2> HIDE DEF patch
  <2>1. patch \in Seq(Byte) BY <1>1 DEF patch
  <2>2. front \o patch \o one = front \o (patch \o one)
    BY <1>1, <2>1, ConcatAssociative
  <2>3. patch \o one \in Seq(Byte) BY <1>1, <2>1, ConcatProperties
  <2> QED BY <2>2, <2>3
<1> QED BY <1>1, <1>2, <1>3, <1>4, <1>5

\* The version this host supports is recognised as such, the older one as too
\* old, before every Speed state (is_supported).
LEMMA VersionsAreTold ==
  ASSUME NEW state \in Byte
  PROVE  /\ IsSupported(Version(Banner(Versions.supported, state)))
         /\ ~IsSupported(Version(Banner(Versions.old, state)))
<1>1. /\ Versions.supported \in Spellings /\ Versions.old \in Spellings
      /\ RecentEnough(<<Number(Versions.supported.major), Number(Versions.supported.minor)>>)
      /\ ~RecentEnough(<<Number(Versions.old.major), Number(Versions.old.minor)>>)
  BY VersionsAssumption
<1>2. \A v \in Spellings : IsSupported(Version(Banner(v, state))) <=>
                            RecentEnough(<<Number(v.major), Number(v.minor)>>)
  BY BannerIsRead DEF IsSupported, NoVersion
<1> QED BY <1>1, <1>2

\* A Speed state is a byte.
LEMMA SpeedIsByte == TypeOK => speed \in Byte
BY BytesAssumption DEF TypeOK, DriveTypeOK, Byte

-----------------------------------------------------------------------------
(***************************************************************************)
(* Type correctness of the dispatch.                                       *)
(***************************************************************************)

\* Recognition has four outcomes.
LEMMA IdentifiedType ==
  ASSUME NEW reply
  PROVE  Identified(reply) \in {"none", "unknown", "Firmware", "PioneerRuntime"}
<1> DEFINE answer == Answer(reply = "good")
<1>1. Parse(answer) \in {"unknown", "Firmware", "PioneerRuntime"}
  BY DEF Parse
<1> QED BY <1>1 DEF Identified

\* What a reply does to the history of the call.
LEMMA CommandTypes ==
  ASSUME TypeOK, NEW reply, NEW answer, NEW tolerated, Command(reply, answer, tolerated)
  PROVE  died' \in BOOLEAN /\ faulty' \in BOOLEAN /\ faults' \in 0..MaxFaults
<1>1. faults' \in 0..MaxFaults
  BY BoundsAssumption DEF TypeOK, WithinBounds, Command, Misbehaves
<1>2. died' \in BOOLEAN
  BY DEF TypeOK, HistoryTypeOK, Command
<1>3. faulty' \in BOOLEAN
  BY DEF TypeOK, HistoryTypeOK, Command
<1> QED BY <1>1, <1>2, <1>3

\* The bounds are kept.
LEMMA BoundsStep ==
  ASSUME TypeOK, [Next]_vars
  PROVE  WithinBounds'
<1> SUFFICES calls' \in 0..MaxCalls /\ faults' \in 0..MaxFaults /\ events' \in 0..MaxEvents
  BY DEF WithinBounds
<1> USE DEF TypeOK, WithinBounds
<1>1. CASE Begin
  BY <1>1, BoundsAssumption DEF Begin
<1>2. CASE Probe
  BY <1>2, CommandTypes DEF Probe, Identity, book
<1>3. CASE Platform
  BY <1>3, CommandTypes DEF Platform, book
<1>4. CASE Hook
  <2>1. faults' = faults \/ (faults < MaxFaults /\ faults' = faults + 1)
    BY <1>4 DEF Hook, HookDone, HookRefused, HookFailed, HookDead, Misbehaves
  <2>2. calls' = calls /\ events' = events
    BY <1>4 DEF Hook
  <2> QED BY <2>1, <2>2, BoundsAssumption
<1>5. CASE Enter
  BY <1>5 DEF Enter, book
<1>6. CASE Load
  BY <1>6, CommandTypes DEF Load, book
<1>7. CASE Reprobe
  BY <1>7, CommandTypes DEF Reprobe, Identity, book
<1>8. CASE SetRegion \/ SetSpeed \/ SetUnrestricted
  BY <1>8, CommandTypes DEF SetRegion, SetSpeed, SetUnrestricted, Optional, book
<1>9. CASE Encrypt
  <2>1. faults' \in 0..MaxFaults \/ (faults < MaxFaults /\ faults' = faults + 1)
    BY <1>9, CommandTypes DEF Encrypt, Misbehaves
  <2>2. calls' = calls /\ events' = events
    BY <1>9 DEF Encrypt
  <2> QED BY <2>1, <2>2, BoundsAssumption
<1>10. CASE GetVid
  BY <1>10, CommandTypes DEF GetVid, book
<1>11. CASE Close
  BY <1>11 DEF Close, book
<1>12. CASE Environment
  BY <1>12, BoundsAssumption
  DEF Environment, Stop, PowerCycle, Reconfigure, Release, history
<1>13. CASE UNCHANGED vars
  BY <1>13 DEF vars, history
<1> QED
  BY <1>1, <1>2, <1>3, <1>4, <1>5, <1>6, <1>7, <1>8, <1>9, <1>10, <1>11, <1>12, <1>13
  DEF Next, Host

LEMMA HistoryStep ==
  ASSUME TypeOK, [Next]_vars
  PROVE  HistoryTypeOK'
<1> USE DEF TypeOK, HistoryTypeOK
<1>1. CASE Begin
  BY <1>1 DEF Begin, DriveTypeOK
<1>2. CASE Probe
  BY <1>2, CommandTypes DEF Probe, Identity, book
<1>3. CASE Platform
  BY <1>3, CommandTypes DEF Platform, book
<1>4. CASE Hook
  BY <1>4 DEF Hook, HookDone, HookRefused, HookFailed, HookDead, Hooks
<1>5. CASE Enter
  BY <1>5 DEF Enter, book
<1>6. CASE Load
  BY <1>6, CommandTypes DEF Load, book
<1>7. CASE Reprobe
  BY <1>7, CommandTypes DEF Reprobe, Identity, book
<1>8. CASE SetRegion \/ SetSpeed \/ SetUnrestricted
  BY <1>8, CommandTypes DEF SetRegion, SetSpeed, SetUnrestricted, Optional, book
<1>9. CASE Encrypt
  BY <1>9, CommandTypes DEF Encrypt
<1>10. CASE GetVid
  BY <1>10, CommandTypes DEF GetVid, book
<1>11. CASE Close
  BY <1>11 DEF Close, book
<1>12. CASE Environment
  BY <1>12 DEF Environment, Stop, PowerCycle, Reconfigure, Release, history
<1>13. CASE UNCHANGED vars
  BY <1>13 DEF vars, history
<1> QED
  BY <1>1, <1>2, <1>3, <1>4, <1>5, <1>6, <1>7, <1>8, <1>9, <1>10, <1>11, <1>12, <1>13
  DEF Next, Host

LEMMA CallStep ==
  ASSUME TypeOK, [Next]_vars
  PROVE  CallTypeOK'
<1> USE DEF TypeOK, CallTypeOK, Steps, CriticalSteps, Verdicts
<1>1. CASE Begin
  BY <1>1 DEF Begin
<1>2. CASE Probe
  BY <1>2, IdentifiedType DEF Probe, Choose, Goto, Return, book
<1>3. CASE Platform
  BY <1>3 DEF Platform, Goto, Return, book
<1>4. CASE Hook
  BY <1>4 DEF Hook, HookDone, HookRefused, HookFailed, HookDead, Return
<1>5. CASE Enter
  BY <1>5 DEF Enter, Goto, Return, book
<1>6. CASE Load
  BY <1>6 DEF Load, Goto, Leave, book
<1>7. CASE Reprobe
  BY <1>7 DEF Reprobe, Goto, Leave, book
<1>8. CASE SetRegion \/ SetSpeed \/ SetUnrestricted
  BY <1>8 DEF SetRegion, SetSpeed, SetUnrestricted, Optional, Goto, Leave, book
<1>9. CASE Encrypt
  BY <1>9 DEF Encrypt, Goto, Leave
<1>10. CASE GetVid
  BY <1>10 DEF GetVid, Leave, book
<1>11. CASE Close
  BY <1>11 DEF Close, Return, book
<1>12. CASE Environment
  <2>1. CASE Stop
    BY <2>1 DEF Stop
  <2>3. CASE PowerCycle
    BY <2>3 DEF PowerCycle, call
  <2>2. CASE Reconfigure \/ Release
    <3>1. pc' = pc /\ result' = result /\ cancelled' = cancelled /\ verdict' = "none"
      BY <2>2 DEF Reconfigure, Release
    <3> QED BY <3>1
  <2> QED BY <1>12, <2>1, <2>2, <2>3 DEF Environment
<1>13. CASE UNCHANGED vars
  BY <1>13 DEF vars, call
<1> QED
  BY <1>1, <1>2, <1>3, <1>4, <1>5, <1>6, <1>7, <1>8, <1>9, <1>10, <1>11, <1>12, <1>13
  DEF Next, Host

\* One more entry, anywhere in a section, makes a section.
LEMMA InsertedType ==
  ASSUME NEW E, NEW s \in Seq(E), NEW k \in 1..(Len(s) + 1), NEW e \in E
  PROVE  /\ Inserted(s, k, e) \in Seq(E) /\ Len(Inserted(s, k, e)) = Len(s) + 1
         /\ \A i \in 1..Len(s) : \E j \in 1..(Len(s) + 1) : Inserted(s, k, e)[j] = s[i]
<1> DEFINE t == Inserted(s, k, e)
<1>1. Len(s) \in Nat /\ DOMAIN s = 1..Len(s) /\ \A i \in 1..Len(s) : s[i] \in E
  OBVIOUS
<1>2. \A i \in 1..(Len(s) + 1) :
        t[i] = IF i < k THEN s[i] ELSE IF i = k THEN e ELSE s[i - 1]
  BY DEF Inserted
<1>3. ASSUME NEW i \in 1..(Len(s) + 1) PROVE t[i] \in E
  <2>1. CASE i < k
    <3>1. i \in 1..Len(s) BY <2>1, <1>1
    <3> QED BY <1>1, <1>2, <2>1, <3>1
  <2>2. CASE i > k
    <3>1. i - 1 \in 1..Len(s) /\ ~(i < k) /\ i # k BY <2>2, <1>1
    <3>2. t[i] = s[i - 1] BY <1>2, <3>1
    <3> QED BY <1>1, <3>1, <3>2
  <2>3. CASE i = k BY <1>2, <2>3, <1>1
  <2> QED BY <1>1, <2>1, <2>2, <2>3
<1>4. t \in [1..(Len(s) + 1) -> E]
  BY <1>3 DEF Inserted
<1>5. t \in Seq(E) /\ Len(t) = Len(s) + 1
  BY <1>1, <1>4
<1>6. ASSUME NEW i \in 1..Len(s) PROVE \E j \in 1..(Len(s) + 1) : t[j] = s[i]
  <2>1. CASE i < k
    BY <1>1, <1>2, <2>1
  <2>2. CASE i >= k
    <3>1. i + 1 \in 1..(Len(s) + 1) /\ ~(i + 1 < k) /\ i + 1 # k /\ i + 1 - 1 = i
      BY <1>1, <2>2
    <3>2. t[i + 1] = s[i + 1 - 1] BY <1>2, <3>1
    <3> QED BY <3>1, <3>2
  <2> QED BY <1>1, <2>1, <2>2
<1> QED BY <1>5, <1>6

LEMMA CatalogStep ==
  ASSUME TypeOK, [Next]_vars
  PROVE  profiles' \in [Platforms -> Seq(ListedEntries)]
<1>1. CASE Release
  <2>1. PICK platform \in Platforms, entry \in News :
          \E k \in 1..(Len(profiles[platform]) + 1) :
            profiles' = [profiles EXCEPT ![platform] = Inserted(@, k, entry)]
    BY <1>1 DEF Release
  <2>2. PICK k \in 1..(Len(profiles[platform]) + 1) :
          profiles' = [profiles EXCEPT ![platform] = Inserted(@, k, entry)]
    BY <2>1
  <2>3. profiles[platform] \in Seq(ListedEntries) /\ entry \in ListedEntries
    BY <2>1, CatalogAssumption DEF TypeOK, DriveTypeOK
  <2> QED BY <2>2, <2>3, InsertedType DEF TypeOK, DriveTypeOK
<1>2. CASE UNCHANGED profiles
  BY <1>2 DEF TypeOK, DriveTypeOK
<1>3. Release \/ UNCHANGED profiles
  BY DEF Next, Host, Environment, Begin, Probe, Platform, Hook, Enter, Load, Reprobe, SetRegion,
    SetSpeed, SetUnrestricted, Optional, Encrypt, GetVid, Close, Stop, PowerCycle, Reconfigure,
    outside, vars
<1> QED BY <1>1, <1>2, <1>3

LEMMA SpeedStep ==
  ASSUME TypeOK, [Next]_vars
  PROVE  speed' \in SpeedBytes \cup {1, 255}
<1>1. speed' \in SpeedBytes \/ speed' \in {1, 255, speed}
  <2>1. CASE Reconfigure
    BY <2>1 DEF Reconfigure
  <2>2. CASE SetRegion \/ SetSpeed \/ SetUnrestricted
    BY <2>2 DEF SetRegion, SetSpeed, SetUnrestricted, Optional
  <2>3. CASE UNCHANGED speed \/ PowerCycle
    BY <2>3 DEF PowerCycle
  <2>4. Reconfigure \/ SetRegion \/ SetSpeed \/ SetUnrestricted \/ PowerCycle \/ UNCHANGED speed
    BY DEF Next, Host, Environment, Begin, Probe, Platform, Hook, Enter, Load, Reprobe, Encrypt,
      GetVid, Close, Stop, Release, drive, vars
  <2> QED BY <2>1, <2>2, <2>3, <2>4
<1> QED BY <1>1 DEF TypeOK, DriveTypeOK

LEMMA DriveStep ==
  ASSUME TypeOK, [Next]_vars
  PROVE  DriveTypeOK'
<1> SUFFICES /\ hardware' \in Hardware /\ wedges' \in BOOLEAN
             /\ flash' \in Flashable /\ resident' \in Residents
             /\ encrypted' \in BOOLEAN /\ wedged' \in BOOLEAN
             /\ product' \in Products /\ loaderKnows' \in BOOLEAN
  BY CatalogStep, SpeedStep DEF DriveTypeOK
<1>0. /\ hardware \in Hardware /\ wedges \in BOOLEAN
      /\ flash \in Flashable /\ resident \in Residents
      /\ encrypted \in BOOLEAN /\ wedged \in BOOLEAN
      /\ product \in Products /\ loaderKnows \in BOOLEAN
  BY DEF TypeOK, DriveTypeOK
<1> USE <1>0
<1>1. CASE Begin
  BY <1>1 DEF Begin, drive, outside
<1>2. CASE Probe
  BY <1>2 DEF Probe, drive, outside
<1>3. CASE Platform
  BY <1>3 DEF Platform, outside
<1>4. CASE Hook
  BY <1>4 DEF Hook, HookDone, HookRefused, HookFailed, HookDead, Hooks, Residents, outside
<1>5. CASE Enter
  BY <1>5 DEF Enter, drive, outside
<1>6. CASE Load
  <2>1. resident' \in {"loaded", "unknown", resident}
    BY <1>6 DEF Load
  <2> QED BY <1>6, <2>1 DEF Load, Residents, outside
<1>7. CASE Reprobe
  BY <1>7 DEF Reprobe, drive, outside
<1>8. CASE SetRegion \/ SetSpeed \/ SetUnrestricted
  BY <1>8 DEF SetRegion, SetSpeed, SetUnrestricted, Optional, outside
<1>9. CASE Encrypt
  BY <1>9 DEF Encrypt, outside
<1>10. CASE GetVid
  BY <1>10 DEF GetVid, drive, outside
<1>11. CASE Close
  BY <1>11 DEF Close, drive, outside
<1>12. CASE Stop
  BY <1>12 DEF Stop, drive, outside
<1>13. CASE PowerCycle
  BY <1>13 DEF PowerCycle, Residents, Flashable, outside
<1>14. CASE Reconfigure
  BY <1>14 DEF Reconfigure, outside
<1>15. CASE Release
  BY <1>15 DEF Release, drive
<1>16. CASE UNCHANGED vars
  BY <1>16 DEF vars, drive, outside
<1> QED
  BY <1>1, <1>2, <1>3, <1>4, <1>5, <1>6, <1>7, <1>8, <1>9, <1>10, <1>11, <1>12, <1>13, <1>14,
     <1>15, <1>16
  DEF Next, Host, Environment

\* The drive, the call and the history stay in their ranges, and the budgets of
\* calls, faults and events are kept (full_unlock_with_drive).
THEOREM TypeCorrect == Spec => []TypeOK
<1>1. ASSUME Init PROVE TypeOK
  <2>1. DriveTypeOK
    BY <1>1, CatalogAssumption DEF Init, DriveTypeOK, Flashable, Residents
  <2>2. CallTypeOK BY <1>1 DEF Init, CallTypeOK, Steps, Verdicts
  <2>3. HistoryTypeOK BY <1>1, <2>1 DEF Init, DriveTypeOK, HistoryTypeOK
  <2>4. WithinBounds BY <1>1, BoundsAssumption DEF Init, WithinBounds
  <2> QED BY <2>1, <2>2, <2>3, <2>4 DEF TypeOK
<1>2. TypeOK /\ [Next]_vars => TypeOK'
  BY BoundsStep, HistoryStep, CallStep, DriveStep DEF TypeOK
<1> QED BY <1>1, <1>2, PTL DEF Spec

-----------------------------------------------------------------------------
(***************************************************************************)
(* What a call reports, and what it sends to whom.                         *)
(***************************************************************************)

\* Only a refusal looks like no implementation.
LEMMA RefusedIsNone ==
  ASSUME NEW reply, Identified(reply) = "none"
  PROVE  reply = "refused"
<1> DEFINE answer == Answer(reply = "good")
<1>1. Parse(answer) \in {"unknown", "Firmware", "PioneerRuntime"}
  BY DEF Parse
<1> QED BY <1>1 DEF Identified

\* A drive that runs no implementation refuses IDENTITY, or is not heard.
LEMMA BareDriveRefuses ==
  ASSUME NEW reply, Identity(reply), resident = "none"
  PROVE  reply = "refused" \/ (reply = "dead" /\ (died' \/ cancelled))
BY DEF Identity, Command, Blocked

\* Only code of this grammar passes for Firmware: a bare drive does not answer,
\* the others fail at the version or at the extension.
LEMMA FirmwareIsFirmware ==
  ASSUME TypeOK, NEW reply, Identity(reply), Identified(reply) = "Firmware"
  PROVE  resident \in {"flashed", "loaded"}
<1> DEFINE answer == Answer(reply = "good")
<1>1. Parse(answer) = "Firmware" /\ reply # "refused"
  BY DEF Identified
<1>2. answer.whole /\ IsSupported(Version(answer.rest)) /\ answer.ext = "zeros"
  BY <1>1 DEF Parse
<1>3. reply = "good" BY <1>2 DEF Answer
<1>4. resident # "none" BY <1>3, BareDriveRefuses
<1>5. resident # "old"
  <2>1. SUFFICES ASSUME resident = "old" PROVE FALSE
    OBVIOUS
  <2>2. answer.rest = Banner(Versions.old, speed) BY <2>1 DEF Answer
  <2> QED BY <1>2, <2>2, SpeedIsByte, VersionsAreTold
<1>6. resident # "unknown" /\ resident # "pioneer" BY <1>2 DEF Answer
<1> QED BY <1>4, <1>5, <1>6 DEF TypeOK, DriveTypeOK, Residents

Early      == {"probe", "platform", "prepared", "enterLoad", "hook", "rehook"}
Activating == {"region", "speed", "unrestricted", "encrypt", "vid"}

\* Where the loader may run, the drive showed no implementation.
Bare == pc \in {"enterLoad", "load"} => resident = "none" \/ missed \/ disturbed

\* Where the recipe is about to be sent, the drive runs what it is meant for.
Fits == pc \in {"prepared"} \cup Activating => resident \in {"flashed", "loaded"} \/ disturbed

\* A call changes nothing before it has entered its span or the transaction.
Untouched == pc \in Early => ~changed

\* A drive without an implementation gets none from a power cycle.
Unflashed == resident = "none" => flash = "none"

\* A drive for LD is asked for its IDENTITY, and that is all.
LdOwns  == ~loaderKnows /\ LdClaims(profiles, id)
LdFirst == found = "none" /\ (LdOwns \/ pc = "probe")
             => pc \in {"idle", "probe"} /\ (pc = "probe" => resident = "none")

\* Behind a SET Encryption=OFF that was GOOD the drive serves clear sectors.
Opened ==
  pc = "vid" \/ (pc = "close" /\ result = "unlocked")
    => disturbed \/ (~encrypted /\ resident \in {"flashed", "loaded"})

IInv == Bare /\ Fits /\ Untouched /\ Unflashed /\ LdFirst /\ Opened

Reports == StopIsReported /\ UnlockIsReal /\ LdReached

LEMMA OwnsKept == UNCHANGED outside => (LdOwns' <=> LdOwns)
BY DEF outside, LdOwns, id

LEMMA BeginInv ==
  ASSUME TypeOK, IInv, Begin
  PROVE  IInv'
BY DEF IInv, Bare, Fits, Untouched, Unflashed, LdFirst, Opened, Begin, drive, Early, Activating

LEMMA ProbeInv ==
  ASSUME TypeOK, IInv, Probe
  PROVE  IInv'
<1>1. PICK reply \in {"good", "refused", "short", "dead"} :
        /\ Identity(reply)
        /\ missed' = (reply = "refused" /\ resident # "none")
        /\ IF reply = "dead" THEN Return("transport") ELSE Choose(Identified(reply))
  BY DEF Probe
<1>2. pc = "probe" /\ ~changed' /\ UNCHANGED <<drive, outside, found, disturbed>>
  BY DEF Probe, book, IInv, Untouched, Early
<1>3. \/ pc' \in {"idle", "rehook"}
      \/ pc' = "prepared" /\ Identified(reply) = "Firmware"
      \/ pc' \in {"enterLoad", "platform"} /\ Identified(reply) = "none" /\ ~LdOwns
  BY <1>1, IdentifiedType DEF Choose, Goto, Return, LdOwns
<1>4. Bare'
  BY <1>1, <1>2, <1>3, RefusedIsNone DEF Bare, drive
<1>5. Fits'
  BY <1>1, <1>2, <1>3, FirmwareIsFirmware DEF Fits, Activating, drive
<1>6. Untouched' BY <1>2 DEF Untouched
<1>7. Unflashed' BY <1>2 DEF Unflashed, IInv, drive
<1>8. LdFirst'
  <2>1. SUFFICES ASSUME found' = "none", LdOwns' \/ pc' = "probe"
                 PROVE  pc' = "idle"
    BY DEF LdFirst
  <2>2. LdOwns /\ resident = "none"
    BY <1>2, <1>3, <2>1, OwnsKept DEF IInv, LdFirst
  <2>3. reply \in {"refused", "dead"} BY <1>1, <2>2, BareDriveRefuses
  <2>4. Identified("refused") = "none" BY DEF Identified
  <2> QED BY <1>1, <2>2, <2>3, <2>4 DEF LdOwns, Choose, Return
<1>9. Opened' BY <1>3 DEF Opened
<1> QED BY <1>4, <1>5, <1>6, <1>7, <1>8, <1>9 DEF IInv

\* The parts of the invariant, for the steps that disturb few of them.
LEMMA PlatformInv ==
  ASSUME TypeOK, IInv, Platform
  PROVE  IInv'
<1>1. pc = "platform" /\ pc' \in {"idle", "hook"}
  BY DEF Platform, Goto, Return
<1>2. UNCHANGED <<resident, flash, found, changed, outside>>
  BY DEF Platform, book
<1>3. Untouched' BY <1>1, <1>2 DEF IInv, Untouched, Early
<1>4. LdFirst' BY <1>1, <1>2, OwnsKept DEF IInv, LdFirst
<1>5. Unflashed' BY <1>2 DEF IInv, Unflashed
<1> QED BY <1>1, <1>3, <1>4, <1>5 DEF IInv, Bare, Fits, Activating, Opened

LEMMA HookInv ==
  ASSUME TypeOK, IInv, Hook
  PROVE  IInv'
<1>1. pc \in {"hook", "rehook"} /\ pc' = "idle"
  BY DEF Hook, HookDone, HookRefused, HookFailed, HookDead, Return
<1>2. resident' \in {resident, "pioneer"} /\ UNCHANGED <<flash, found, outside>>
  BY DEF Hook, HookDone, HookRefused, HookFailed, HookDead, Hooks
<1>3. LdFirst' BY <1>1, <1>2, OwnsKept DEF IInv, LdFirst
<1>4. Unflashed' BY <1>2 DEF IInv, Unflashed
<1> QED BY <1>1, <1>3, <1>4 DEF IInv, Bare, Fits, Untouched, Early, Activating, Opened

LEMMA EnterInv ==
  ASSUME TypeOK, IInv, Enter
  PROVE  IInv'
<1>1. \/ pc = "prepared" /\ pc' \in {"idle", "region"}
      \/ pc = "enterLoad" /\ pc' \in {"idle", "load"}
  BY DEF Enter, Goto, Return
<1>2. UNCHANGED <<drive, outside, found, missed, disturbed>>
  BY DEF Enter, book
<1>3. LdFirst' BY <1>1, <1>2, OwnsKept DEF IInv, LdFirst, drive
<1>4. Bare' /\ Fits' BY <1>1, <1>2 DEF IInv, Bare, Fits, Activating, drive
<1>5. Untouched' /\ Opened' BY <1>1 DEF Untouched, Early, Opened
<1>6. Unflashed' BY <1>2 DEF IInv, Unflashed, drive
<1> QED BY <1>3, <1>4, <1>5, <1>6 DEF IInv

LEMMA LoadInv ==
  ASSUME TypeOK, IInv, Load
  PROVE  IInv'
<1>1. pc = "load" /\ pc' \in {"reprobe", "close"} /\ (pc' = "close" => result' # "unlocked")
  BY DEF Load, Goto, Leave
<1>2. resident' \in {resident, "loaded", "unknown"} /\ UNCHANGED <<flash, found, outside>>
  BY DEF Load, book
<1>3. LdFirst' BY <1>1, <1>2, OwnsKept DEF IInv, LdFirst
<1>4. Unflashed' BY <1>2 DEF IInv, Unflashed
<1> QED BY <1>1, <1>3, <1>4 DEF IInv, Bare, Fits, Untouched, Early, Activating, Opened

LEMMA ReprobeInv ==
  ASSUME TypeOK, IInv, Reprobe
  PROVE  IInv'
<1>1. PICK reply \in {"good", "refused", "short", "dead"} :
        /\ Identity(reply)
        /\ IF reply = "dead" THEN Leave("transport")
           ELSE IF Identified(reply) = "Firmware" THEN Goto("region") ELSE Leave("declined")
  BY DEF Reprobe
<1>2. pc = "reprobe" /\ UNCHANGED <<drive, outside, found, disturbed>>
  BY DEF Reprobe, book
<1>3. \/ pc' = "close" /\ result' # "unlocked"
      \/ pc' = "region" /\ Identified(reply) = "Firmware"
  BY <1>1 DEF Goto, Leave
<1>4. Fits' BY <1>1, <1>2, <1>3, FirmwareIsFirmware DEF Fits, Activating, drive
<1>5. LdFirst' BY <1>2, <1>3, OwnsKept DEF IInv, LdFirst, drive
<1>6. Unflashed' BY <1>2 DEF IInv, Unflashed, drive
<1> QED BY <1>3, <1>4, <1>5, <1>6 DEF IInv, Bare, Untouched, Early, Opened

LEMMA OptionalInv ==
  ASSUME TypeOK, IInv, SetRegion \/ SetSpeed \/ SetUnrestricted
  PROVE  IInv'
<1>1. /\ pc \in Activating
      /\ \/ pc' \in {"speed", "unrestricted", "encrypt"}
         \/ pc' = "close" /\ result' # "unlocked"
  BY DEF SetRegion, SetSpeed, SetUnrestricted, Optional, Goto, Leave, Activating
<1>2. UNCHANGED <<resident, flash, outside, found, disturbed>>
  BY DEF SetRegion, SetSpeed, SetUnrestricted, Optional, book
<1>3. Fits' BY <1>1, <1>2 DEF IInv, Fits, Activating
<1>4. LdFirst' BY <1>1, <1>2, OwnsKept DEF IInv, LdFirst, Activating
<1>5. Unflashed' BY <1>2 DEF IInv, Unflashed
<1> QED BY <1>1, <1>3, <1>4, <1>5 DEF IInv, Bare, Untouched, Early, Opened

LEMMA EncryptInv ==
  ASSUME TypeOK, IInv, Encrypt
  PROVE  IInv'
<1>1. pc = "encrypt" /\ pc' \in {"vid", "close"} /\ (pc' = "close" => result' # "unlocked")
  BY DEF Encrypt, Goto, Leave
<1>2. UNCHANGED <<resident, flash, outside, found>> /\ disturbed' \in {disturbed, TRUE}
  BY DEF Encrypt
<1>3. pc' = "vid" => disturbed' \/ ~encrypted'
  BY DEF Encrypt, Goto, Leave
<1>4. Fits' BY <1>1, <1>2 DEF IInv, Fits, Activating
<1>5. Opened' BY <1>1, <1>2, <1>3 DEF IInv, Fits, Opened, Activating
<1>6. LdFirst' BY <1>1, <1>2, OwnsKept DEF IInv, LdFirst
<1>7. Unflashed' BY <1>2 DEF IInv, Unflashed
<1> QED BY <1>1, <1>4, <1>5, <1>6, <1>7 DEF IInv, Bare, Untouched, Early

LEMMA GetVidInv ==
  ASSUME TypeOK, IInv, GetVid
  PROVE  IInv'
<1>1. pc = "vid" /\ pc' = "close"
  BY DEF GetVid, Leave
<1>2. UNCHANGED <<drive, outside, found, disturbed>>
  BY DEF GetVid, book
<1>3. Opened' BY <1>1, <1>2 DEF IInv, Opened, drive
<1>4. LdFirst' BY <1>1, <1>2, OwnsKept DEF IInv, LdFirst, drive
<1>5. Unflashed' BY <1>2 DEF IInv, Unflashed, drive
<1> QED BY <1>1, <1>3, <1>4, <1>5 DEF IInv, Bare, Fits, Untouched, Early, Activating

LEMMA CloseInv ==
  ASSUME TypeOK, IInv, Close
  PROVE  IInv'
<1>1. pc' = "idle" /\ UNCHANGED <<drive, outside, found>>
  BY DEF Close, Return, book
<1>2. LdFirst' BY <1>1, OwnsKept DEF IInv, LdFirst, drive
<1>3. Unflashed' BY <1>1 DEF IInv, Unflashed, drive
<1> QED BY <1>1, <1>2, <1>3 DEF IInv, Bare, Fits, Untouched, Early, Activating, Opened

LEMMA EnvironmentInv ==
  ASSUME TypeOK, IInv, Environment \/ UNCHANGED vars
  PROVE  IInv'
<1>1. CASE Stop \/ UNCHANGED vars
  <2>1. UNCHANGED <<drive, outside, pc, result, found, changed, missed, disturbed>>
    BY <1>1 DEF Stop, vars, history, call
  <2>2. LdFirst' BY <2>1, OwnsKept DEF IInv, LdFirst, drive
  <2> QED BY <2>1, <2>2 DEF IInv, Bare, Fits, Untouched, Unflashed, Opened, drive
<1>2. CASE PowerCycle
  <2>1. disturbed' /\ resident' = flash /\ UNCHANGED <<flash, outside, pc, found, changed>>
    BY <1>2 DEF PowerCycle, call
  <2>2. LdFirst' BY <2>1, OwnsKept DEF IInv, LdFirst, Unflashed
  <2> QED BY <2>1, <2>2 DEF IInv, Bare, Fits, Untouched, Unflashed, Opened
<1>3. CASE Reconfigure \/ Release
  <2>1. pc = "idle" /\ pc' = "idle" /\ UNCHANGED <<resident, flash>>
    BY <1>3 DEF Reconfigure, Release, drive
  <2> QED
    BY <2>1 DEF IInv, Bare, Fits, Untouched, Unflashed, LdFirst, Opened, Early, Activating
<1> QED BY <1>1, <1>2, <1>3 DEF Environment

\* The invariant holds throughout.
LEMMA Invariant == Spec => [](TypeOK /\ IInv)
<1>1. Init => IInv
  BY DEF Init, IInv, Bare, Fits, Untouched, Unflashed, LdFirst, Opened, Early, Activating
<1>2. TypeOK /\ IInv /\ [Next]_vars => IInv'
  BY BeginInv, ProbeInv, PlatformInv, HookInv, EnterInv, LoadInv, ReprobeInv, OptionalInv,
     EncryptInv, GetVidInv, CloseInv, EnvironmentInv
  DEF Next, Host
<1> QED BY <1>1, <1>2, TypeCorrect, PTL DEF Spec

\* What was reported stays so until the next call, which the environment can
\* only make void.
LEMMA BetweenCalls ==
  ASSUME TypeOK, Environment \/ Begin \/ UNCHANGED vars, Ended'
  PROVE  /\ Ended /\ UNCHANGED <<verdict, changed, cancelled, found, died, outside>>
         /\ disturbed' \/ UNCHANGED <<encrypted, resident, disturbed>>
<1>1. CASE Begin \/ Reconfigure \/ Release
  BY <1>1 DEF Begin, Reconfigure, Release, Ended
<1>2. CASE Stop
  BY <1>2 DEF Stop, Ended
<1>3. CASE PowerCycle
  BY <1>3 DEF PowerCycle, Ended, call
<1>4. CASE UNCHANGED vars
  BY <1>4 DEF vars, call, history, drive, Ended
<1> QED BY <1>1, <1>2, <1>3, <1>4 DEF Environment

\* The steps that end a call.
LEMMA HostEnds ==
  ASSUME TypeOK, Host, Ended'
  PROVE  Probe \/ Platform \/ Hook \/ Enter \/ Close
BY DEF Host, Load, Reprobe, SetRegion, SetSpeed, SetUnrestricted, Optional, Encrypt, GetVid,
  Goto, Leave, Ended

\* A Stop in a call is reported, or the call had nothing to do and did nothing
\* (CriticalGuard, the pause behind the span).
THEOREM StopReported == Spec => []StopIsReported
<1>1. Init => StopIsReported
  BY DEF Init, StopIsReported, Ended
<1>2. ASSUME TypeOK, IInv, StopIsReported, [Next]_vars PROVE StopIsReported'
  <2>1. SUFFICES ASSUME Ended', cancelled'
                 PROVE  verdict' = "transport" \/ (verdict' = "declined" /\ ~changed')
    BY DEF StopIsReported
  <2>2. CASE Environment \/ Begin \/ UNCHANGED vars
    BY <1>2, <2>1, <2>2, BetweenCalls DEF StopIsReported
  <2>3. CASE Probe
    BY <1>2, <2>1, <2>3, IdentifiedType
    DEF Probe, Choose, Goto, Return, Ended, IInv, Untouched, Early
  <2>4. CASE Platform
    BY <1>2, <2>1, <2>4 DEF Platform, Goto, Return, Ended, IInv, Untouched, Early
  <2>5. CASE Hook
    BY <1>2, <2>1, <2>5
    DEF Hook, HookDone, HookRefused, HookFailed, HookDead, Hooks, Return, Ended, IInv,
        Untouched, Early, Executes, Blocked, CriticalSteps
  <2>6. CASE Enter
    BY <1>2, <2>1, <2>6 DEF Enter, Goto, Return, Ended
  <2>7. CASE Close
    BY <1>2, <2>1, <2>7 DEF Close, Return, Ended, book
  <2> QED BY <1>2, <2>1, <2>2, <2>3, <2>4, <2>5, <2>6, <2>7, HostEnds DEF Next
<1> QED BY <1>1, <1>2, Invariant, PTL DEF Spec

\* An unlock that is reported is one: the drive serves clear sectors, and runs
\* an implementation this host can drive (activate, Backend::finish).
THEOREM UnlocksAreReal == Spec => []UnlockIsReal
<1>1. Init => UnlockIsReal
  BY DEF Init, UnlockIsReal, Ended
<1>2. ASSUME TypeOK, IInv, UnlockIsReal, [Next]_vars PROVE UnlockIsReal'
  <2>1. SUFFICES ASSUME Ended', verdict' = "unlocked", ~disturbed'
                 PROVE  ~encrypted' /\ resident' \in Supported
    BY DEF UnlockIsReal
  <2>2. CASE Environment \/ Begin \/ UNCHANGED vars
    BY <1>2, <2>1, <2>2, BetweenCalls DEF UnlockIsReal
  <2>3. CASE Probe
    BY <1>2, <2>1, <2>3, IdentifiedType DEF Probe, Choose, Goto, Return, Ended
  <2>4. CASE Platform
    BY <1>2, <2>1, <2>4 DEF Platform, Goto, Return, Ended
  <2>5. CASE Hook
    BY <1>2, <2>1, <2>5
    DEF Hook, HookDone, HookRefused, HookFailed, HookDead, Hooks, Return, Supported
  <2>6. CASE Enter
    BY <1>2, <2>1, <2>6 DEF Enter, Goto, Return, Ended
  <2>7. CASE Close
    BY <1>2, <2>1, <2>7
    DEF Close, Return, Ended, book, drive, IInv, Opened, Supported
  <2> QED BY <1>2, <2>1, <2>2, <2>3, <2>4, <2>5, <2>6, <2>7, HostEnds DEF Next
<1> QED BY <1>1, <1>2, Invariant, PTL DEF Spec

\* A drive for LD that runs nothing gets to LD, whatever its bus would have made
\* of the Renesas probe (full_unlock_with_drive).
THEOREM LdIsReached == Spec => []LdReached
<1>1. Init => LdReached
  BY DEF Init, LdReached, Ended
<1>2. ASSUME TypeOK, IInv, LdReached, [Next]_vars PROVE LdReached'
  <2>1. SUFFICES ASSUME Ended', found' = "none", LdOwns'
                 PROVE  verdict' = "declined" \/ died' \/ cancelled'
    BY DEF LdReached, LdOwns
  <2>2. CASE Environment \/ Begin \/ UNCHANGED vars
    BY <1>2, <2>1, <2>2, BetweenCalls, OwnsKept DEF LdReached, LdOwns
  <2>3. CASE Probe
    <3>1. PICK reply \in {"good", "refused", "short", "dead"} :
            /\ Identity(reply)
            /\ IF reply = "dead" THEN Return("transport") ELSE Choose(Identified(reply))
      BY <2>3 DEF Probe
    <3>2. pc = "probe" /\ UNCHANGED <<found, outside, cancelled>>
      BY <2>3 DEF Probe, book
    <3>3. LdOwns /\ resident = "none"
      BY <1>2, <2>1, <3>2, OwnsKept DEF IInv, LdFirst
    <3>4. CASE reply = "dead"
      BY <3>1, <3>2, <3>3, <3>4, BareDriveRefuses
    <3>5. CASE reply = "refused"
      BY <3>1, <3>3, <3>5 DEF Identified, Choose, Return, LdOwns
    <3> QED BY <3>1, <3>3, <3>4, <3>5, BareDriveRefuses
  <2>4. CASE Host /\ ~Probe
    <3>1. pc \notin {"idle", "probe"} /\ UNCHANGED <<found, outside>>
      BY <2>1, <2>4, HostEnds, <1>2 DEF Platform, Hook, Enter, Close, book
    <3> QED BY <1>2, <2>1, <3>1, OwnsKept DEF IInv, LdFirst
  <2> QED BY <1>2, <2>2, <2>3, <2>4 DEF Next
<1> QED BY <1>1, <1>2, Invariant, PTL DEF Spec

\* The recipe for flashed firmware is sent to flashed or loaded firmware only
\* (ProtocolIdentity::parse).
THEOREM RecipeFits == Spec => []BackendFits
<1>1. IInv => BackendFits
  BY DEF IInv, Fits, Activating, BackendFits
<1> QED BY <1>1, Invariant, PTL

\* The loader runs over no implementation the drive shows (load_mediatek).
THEOREM LoaderSparesResidents == Spec => NoBlindLoad
<1>1. TypeOK /\ IInv /\ [Next]_vars
        => [pc = "load" /\ resident' # resident => resident = "none" \/ missed \/ disturbed']_vars
  <2>1. SUFFICES ASSUME TypeOK, IInv, Next, pc = "load", resident' # resident
                 PROVE  resident = "none" \/ missed \/ disturbed'
    OBVIOUS
  <2>2. resident = "none" \/ missed \/ disturbed BY <2>1 DEF IInv, Bare
  <2>3. CASE Load
    BY <2>2, <2>3 DEF Load, book
  <2>4. CASE PowerCycle
    BY <2>4 DEF PowerCycle
  <2>5. Load \/ PowerCycle
    BY <2>1 DEF Next, Host, Environment, Begin, Probe, Platform, Hook, Enter, Reprobe, SetRegion,
      SetSpeed, SetUnrestricted, Optional, Encrypt, GetVid, Close, Stop, Reconfigure, Release,
      drive
  <2> QED BY <2>3, <2>4, <2>5
<1> QED BY <1>1, Invariant, PTL DEF Spec, NoBlindLoad
-----------------------------------------------------------------------------
(***************************************************************************)
(* The catalog of the dispatch grows the way GrowthRebindsExactly asks.    *)
(***************************************************************************)

Entries == [platform : Platforms, four : STRING, product : STRING]

\* One list behind another holds what either holds, and of a larger part the
\* whole is larger.
LEMMA ConcatGrows ==
  ASSUME NEW a \in Seq(Entries), NEW b \in Seq(Entries),
         NEW c \in Seq(Entries), NEW d \in Seq(Entries),
         Grows(a, c), Grows(b, d)
  PROVE  a \o b \in Seq(Entries) /\ Grows(a \o b, c \o d)
<1> DEFINE ab == a \o b
           cd == c \o d
<1>1. /\ ab \in Seq(Entries) /\ DOMAIN ab = 1..(Len(a) + Len(b))
      /\ \A i \in 1..(Len(a) + Len(b)) :
           ab[i] = IF i <= Len(a) THEN a[i] ELSE b[i - Len(a)]
  OBVIOUS
<1>2. /\ DOMAIN cd = 1..(Len(c) + Len(d))
      /\ \A i \in 1..(Len(c) + Len(d)) :
           cd[i] = IF i <= Len(c) THEN c[i] ELSE d[i - Len(c)]
  OBVIOUS
<1>3. /\ Len(a) \in Nat /\ Len(b) \in Nat /\ Len(c) \in Nat /\ Len(d) \in Nat
      /\ DOMAIN a = 1..Len(a) /\ DOMAIN b = 1..Len(b)
      /\ DOMAIN c = 1..Len(c) /\ DOMAIN d = 1..Len(d)
  OBVIOUS
<1> HIDE DEF ab, cd
<1>4. ASSUME NEW i \in DOMAIN ab PROVE \E j \in DOMAIN cd : cd[j] = ab[i]
  <2>1. CASE i <= Len(a)
    <3>1. i \in DOMAIN a /\ ab[i] = a[i] BY <1>1, <1>3, <1>4, <2>1
    <3>2. PICK j \in DOMAIN c : c[j] = a[i] BY <3>1 DEF Grows
    <3>3. j \in DOMAIN cd /\ cd[j] = c[j] BY <1>2, <1>3, <3>2
    <3> QED BY <3>1, <3>2, <3>3
  <2>2. CASE ~(i <= Len(a))
    <3>1. i - Len(a) \in DOMAIN b /\ ab[i] = b[i - Len(a)] BY <1>1, <1>3, <1>4, <2>2
    <3>2. PICK j \in DOMAIN d : d[j] = b[i - Len(a)] BY <3>1 DEF Grows
    <3>3. Len(c) + j \in DOMAIN cd /\ ~(Len(c) + j <= Len(c)) /\ Len(c) + j - Len(c) = j
      BY <1>2, <1>3, <3>2
    <3>4. cd[Len(c) + j] = d[j] BY <1>2, <3>3
    <3> QED BY <3>1, <3>2, <3>3, <3>4
  <2> QED BY <2>1, <2>2
<1> QED BY <1>1, <1>4 DEF Grows, ab, cd

\* A section lists the same drives in the same places.
LEMMA SectionType ==
  ASSUME NEW platform \in Platforms, NEW s \in Seq(ListedEntries)
  PROVE  /\ Section(platform, s) \in Seq(Entries)
         /\ DOMAIN Section(platform, s) = DOMAIN s
         /\ \A i \in DOMAIN s : Section(platform, s)[i] =
              [platform |-> platform, four |-> s[i].four, product |-> s[i].product]
<1>1. Len(s) \in Nat /\ DOMAIN s = 1..Len(s) /\ \A i \in 1..Len(s) : s[i] \in ListedEntries
  OBVIOUS
<1>2. Section(platform, s) \in [1..Len(s) -> Entries]
  BY <1>1 DEF Section, Entries, ListedEntries
<1> QED BY <1>1, <1>2 DEF Section

\* A section that keeps its drives keeps its entries.
LEMMA SectionGrows ==
  ASSUME NEW platform \in Platforms, NEW s \in Seq(ListedEntries),
         NEW t \in Seq(ListedEntries), Grows(s, t)
  PROVE  Grows(Section(platform, s), Section(platform, t))
<1> DEFINE S == Section(platform, s)
           T == Section(platform, t)
<1>1. /\ DOMAIN S = DOMAIN s
      /\ \A i \in DOMAIN s :
           S[i] = [platform |-> platform, four |-> s[i].four, product |-> s[i].product]
  BY SectionType, Zenon
<1>2. /\ DOMAIN T = DOMAIN t
      /\ \A i \in DOMAIN t :
           T[i] = [platform |-> platform, four |-> t[i].four, product |-> t[i].product]
  BY SectionType, Zenon
<1> HIDE DEF S, T
<1>3. ASSUME NEW i \in DOMAIN S PROVE \E j \in DOMAIN T : T[j] = S[i]
  <2>1. PICK j \in DOMAIN t : t[j] = s[i] BY <1>1, <1>3 DEF Grows
  <2>2. T[j] = S[i] BY <1>1, <1>2, <1>3, <2>1
  <2> QED BY <1>2, <2>1, <2>2
<1>4. Grows(S, T) BY <1>3 DEF Grows
<1> QED BY <1>4 DEF S, T

\* A whole catalog is a catalog, and grows with its sections.
LEMMA AllGrows ==
  ASSUME NEW old \in [Platforms -> Seq(ListedEntries)],
         NEW new \in [Platforms -> Seq(ListedEntries)],
         \A platform \in Platforms : Grows(old[platform], new[platform])
  PROVE  All(old) \in Seq(Entries) /\ Grows(All(old), All(new))
<1> DEFINE So(platform) == Section(platform, old[platform])
           Sn(platform) == Section(platform, new[platform])
<1>1. \A platform \in Platforms :
        So(platform) \in Seq(Entries) /\ Sn(platform) \in Seq(Entries)
        /\ Grows(So(platform), Sn(platform))
  BY SectionType, SectionGrows
<1>2. "mt1959_a" \in Platforms /\ "mt1959_b" \in Platforms /\ "renesas" \in Platforms
  BY DEF Platforms
<1>3. /\ All(old) = So("mt1959_a") \o So("mt1959_b") \o So("renesas")
      /\ All(new) = Sn("mt1959_a") \o Sn("mt1959_b") \o Sn("renesas")
  BY DEF All
<1> HIDE DEF So, Sn
<1>4. /\ So("mt1959_a") \o So("mt1959_b") \in Seq(Entries)
      /\ Sn("mt1959_a") \o Sn("mt1959_b") \in Seq(Entries)
  BY <1>1, <1>2
<1>5. Grows(So("mt1959_a") \o So("mt1959_b"), Sn("mt1959_a") \o Sn("mt1959_b"))
  BY <1>1, <1>2, ConcatGrows
<1>6. /\ (So("mt1959_a") \o So("mt1959_b")) \o So("renesas") \in Seq(Entries)
      /\ Grows((So("mt1959_a") \o So("mt1959_b")) \o So("renesas"),
               (Sn("mt1959_a") \o Sn("mt1959_b")) \o Sn("renesas"))
  BY <1>1, <1>2, <1>4, <1>5, ConcatGrows
<1> QED BY <1>3, <1>6

LEMMA AllIsCatalog ==
  ASSUME NEW old \in [Platforms -> Seq(ListedEntries)]
  PROVE  IsCatalog(All(old))
<1>1. All(old) \in Seq(Entries)
  BY AllGrows DEF Grows
<1>2. \A e \in Entries : IsEntry(e)
  BY DEF Entries, IsEntry, NoEntry, Platforms
<1> HIDE DEF Entries
<1>3. /\ Len(All(old)) \in Nat /\ DOMAIN All(old) = 1..Len(All(old))
      /\ \A i \in 1..Len(All(old)) : All(old)[i] \in Entries
  BY <1>1
<1> QED BY <1>2, <1>3 DEF IsCatalog

\* One more drive, anywhere in a section, leaves the others in it.
LEMMA InsertedGrows ==
  ASSUME NEW s \in Seq(ListedEntries), NEW k \in 1..(Len(s) + 1), NEW e \in ListedEntries
  PROVE  Grows(s, Inserted(s, k, e))
<1>1. /\ Inserted(s, k, e) \in Seq(ListedEntries) /\ Len(Inserted(s, k, e)) = Len(s) + 1
      /\ \A i \in 1..Len(s) : \E j \in 1..(Len(s) + 1) : Inserted(s, k, e)[j] = s[i]
  BY InsertedType
<1>2. DOMAIN Inserted(s, k, e) = 1..(Len(s) + 1) /\ DOMAIN s = 1..Len(s)
  BY <1>1
<1> QED BY <1>1, <1>2 DEF Grows

\* A release adds an entry to one section.
LEMMA ReleaseGrows ==
  ASSUME TypeOK, Release
  PROVE  \A platform \in Platforms : Grows(profiles[platform], profiles'[platform])
<1>1. PICK p \in Platforms, entry \in News :
        \E k \in 1..(Len(profiles[p]) + 1) :
          profiles' = [profiles EXCEPT ![p] = Inserted(@, k, entry)]
  BY DEF Release
<1>2. PICK k \in 1..(Len(profiles[p]) + 1) :
        profiles' = [profiles EXCEPT ![p] = Inserted(@, k, entry)]
  BY <1>1
<1>3. profiles[p] \in Seq(ListedEntries) /\ entry \in ListedEntries
  BY <1>1, CatalogAssumption DEF TypeOK, DriveTypeOK
<1>4. Grows(profiles[p], Inserted(profiles[p], k, entry))
  BY <1>2, <1>3, InsertedGrows
<1>5. \A q \in Platforms : q # p => profiles'[q] = profiles[q]
  BY <1>2 DEF TypeOK, DriveTypeOK
<1>6. profiles'[p] = Inserted(profiles[p], k, entry)
  BY <1>2 DEF TypeOK, DriveTypeOK
<1>7. \A q \in Platforms : Grows(profiles[q], profiles[q])
  BY DEF Grows
<1> QED BY <1>4, <1>5, <1>6, <1>7

\* Wherever in the catalog a release adds its entry, a bound drive that reports
\* no product id keeps its own or takes that one.
LEMMA InsertionTakesOver ==
  ASSUME NEW all \in Seq(Entries), IsCatalog(all), NEW k \in 1..(Len(all) + 1), NEW e,
         IsCatalog(Inserted(all, k, e)), NEW who, who.product = NoProduct,
         FindIn(all, who) # NoEntry
  PROVE  \/ FindIn(Inserted(all, k, e), who) = FindIn(all, who)
         \/ FindIn(Inserted(all, k, e), who) = e /\ FourField(e, who)
<1> DEFINE n     == Len(all)
           later == Inserted(all, k, e)
<1>1. /\ n \in Nat /\ DOMAIN all = 1..n /\ k \in 1..(n + 1)
      /\ DOMAIN later = 1..(n + 1)
      /\ \A i \in 1..(n + 1) :
           later[i] = IF i < k THEN all[i] ELSE IF i = k THEN e ELSE all[i - 1]
  BY LenProperties DEF Inserted
<1>2. IsCatalog(later) OBVIOUS
<1> HIDE DEF n, later
<1> DEFINE old == First(Matches(all, who))
           new == First(Matches(later, who))
<1>3. Matches(all, who) # {} BY BlindFirst
<1>4. /\ FindIn(all, who) = all[old]
      /\ old \in 1..n /\ FourField(all[old], who)
      /\ \A j \in 1..n : FourField(all[j], who) => old <= j
  BY <1>1, <1>3, AnonymousFirst DEF Matches
<1>5. Matches(later, who) # {}
  <2>1. CASE old < k
    <3>1. old \in 1..(n + 1) BY <1>1, <1>4
    <3>2. later[old] = all[old] BY <1>1, <3>1, <2>1
    <3> QED BY <1>1, <1>4, <3>1, <3>2 DEF Matches
  <2>2. CASE ~(old < k)
    <3>1. old + 1 \in 1..(n + 1) /\ ~(old + 1 < k) /\ old + 1 # k /\ old + 1 - 1 = old
      BY <1>1, <1>4, <2>2
    <3>2. later[old + 1] = all[old + 1 - 1] BY <1>1, <1>4, <3>1
    <3> QED BY <1>1, <1>4, <3>1, <3>2 DEF Matches
  <2> QED BY <1>1, <2>1, <2>2
<1>6. /\ FindIn(later, who) = later[new]
      /\ new \in 1..(n + 1) /\ FourField(later[new], who)
      /\ \A j \in 1..(n + 1) : FourField(later[j], who) => new <= j
  BY <1>1, <1>2, <1>5, AnonymousFirst DEF Matches
<1> HIDE DEF old, new
<1>7. CASE new = k
  BY <1>1, <1>6, <1>7 DEF later
<1>8. CASE new < k
  <2>1. new \in 1..n /\ later[new] = all[new] BY <1>1, <1>6, <1>8
  <2>2. old <= new BY <1>1, <1>4, <1>6, <2>1
  <2>3. old < k /\ old \in 1..(n + 1) BY <1>1, <1>4, <1>8, <2>1, <2>2
  <2>4. later[old] = all[old] BY <1>1, <2>3
  <2>5. new <= old BY <1>1, <1>4, <1>6, <2>3, <2>4
  <2>6. new = old BY <1>1, <1>4, <2>1, <2>2, <2>5
  <2> QED BY <1>1, <1>4, <1>6, <2>1, <2>6 DEF later
<1>9. CASE new > k
  <2>1. new - 1 \in 1..n /\ ~(new < k) /\ new # k BY <1>1, <1>6, <1>9
  <2>2. later[new] = all[new - 1] BY <1>1, <1>6, <2>1
  <2>3. old <= new - 1 BY <1>1, <1>4, <1>6, <2>1, <2>2
  <2>4. ~(old < k)
    <3>1. SUFFICES ASSUME old < k PROVE FALSE OBVIOUS
    <3>2. old \in 1..(n + 1) BY <1>1, <1>4
    <3>3. later[old] = all[old] BY <1>1, <3>1, <3>2
    <3>4. new <= old BY <1>1, <1>4, <1>6, <3>2, <3>3
    <3> QED BY <1>1, <1>4, <1>6, <1>9, <3>1, <3>4
  <2>5. old + 1 \in 1..(n + 1) /\ ~(old + 1 < k) /\ old + 1 # k /\ old + 1 - 1 = old
    BY <1>1, <1>4, <2>4
  <2>6. later[old + 1] = all[old + 1 - 1] BY <1>1, <1>4, <2>5
  <2>7. new <= old + 1 BY <1>1, <1>4, <1>6, <2>5, <2>6
  <2>8. new - 1 = old BY <1>1, <1>4, <1>6, <2>3, <2>7
  <2> QED BY <1>1, <1>4, <1>6, <2>2, <2>8 DEF later
<1> QED BY <1>1, <1>6, <1>7, <1>8, <1>9 DEF later

\* One more entry in front of a list, or behind one, is one more in the whole.
LEMMA InsertedConcat ==
  ASSUME NEW a \in Seq(Entries), NEW b \in Seq(Entries), NEW e \in Entries
  PROVE  /\ \A k \in 1..(Len(a) + 1) :
              Inserted(a, k, e) \o b = Inserted(a \o b, k, e) /\ k \in 1..(Len(a \o b) + 1)
         /\ \A k \in 1..(Len(b) + 1) :
              /\ a \o Inserted(b, k, e) = Inserted(a \o b, Len(a) + k, e)
              /\ Len(a) + k \in 1..(Len(a \o b) + 1)
<1> DEFINE la == Len(a)
           lb == Len(b)
           ab == a \o b
<1>1. /\ la \in Nat /\ lb \in Nat /\ ab \in Seq(Entries) /\ Len(ab) = la + lb
      /\ \A i \in 1..(la + lb) : ab[i] = IF i <= la THEN a[i] ELSE b[i - la]
  OBVIOUS
<1>2. ASSUME NEW k \in 1..(la + 1)
      PROVE  Inserted(a, k, e) \o b = Inserted(ab, k, e) /\ k \in 1..(Len(ab) + 1)
  <2> DEFINE t == Inserted(a, k, e)
             u == Inserted(ab, k, e)
             tb == t \o b
  <2>1. t \in Seq(Entries) /\ Len(t) = la + 1 /\ u \in Seq(Entries) /\ Len(u) = la + lb + 1
    <3>1. k \in 1..(Len(ab) + 1) BY <1>1, <1>2
    <3>2. t \in Seq(Entries) /\ Len(t) = la + 1 BY <1>2, InsertedType
    <3> HIDE DEF t, la, ab
    <3>3. u \in Seq(Entries) /\ Len(u) = Len(ab) + 1 BY <1>1, <3>1, InsertedType
    <3> QED BY <1>1, <3>2, <3>3
  <2>2. /\ \A i \in 1..(la + 1) : t[i] = IF i < k THEN a[i] ELSE IF i = k THEN e ELSE a[i - 1]
        /\ \A i \in 1..(la + lb + 1) :
             u[i] = IF i < k THEN ab[i] ELSE IF i = k THEN e ELSE ab[i - 1]
    BY <1>1 DEF Inserted
  <2> HIDE DEF t, u
  <2>3. /\ tb \in Seq(Entries) /\ Len(tb) = la + 1 + lb
        /\ \A i \in 1..(la + 1 + lb) : tb[i] = IF i <= la + 1 THEN t[i] ELSE b[i - (la + 1)]
    BY <2>1
  <2> HIDE DEF tb, la, lb, ab
  <2>4. ASSUME NEW i \in 1..(la + lb + 1) PROVE tb[i] = u[i]
    <3>1. CASE i < k
      <4>1. i \in 1..(la + 1) /\ i <= la + 1 /\ i <= la /\ i \in 1..(la + lb)
        BY <2>4, <1>1, <1>2, <3>1
      <4> QED BY <2>4, <1>1, <2>2, <2>3, <3>1, <4>1
    <3>2. CASE i = k
      <4>1. i \in 1..(la + 1) /\ i \in 1..(la + 1 + lb) /\ i <= la + 1 /\ ~(i < k)
        BY <2>4, <1>1, <1>2, <3>2
      <4>2. tb[i] = t[i] BY <2>3, <4>1
      <4>3. t[i] = e /\ u[i] = e BY <2>4, <2>2, <3>2, <4>1
      <4> QED BY <4>2, <4>3
    <3>3. CASE i > k /\ i <= la + 1
      <4>1. i \in 1..(la + 1) /\ i - 1 <= la /\ i - 1 \in 1..(la + lb) /\ ~(i < k) /\ i # k
        BY <2>4, <1>1, <1>2, <3>3
      <4>2. tb[i] = a[i - 1] BY <2>4, <1>1, <2>2, <2>3, <3>3, <4>1
      <4>3. u[i] = ab[i - 1] BY <2>4, <2>2, <4>1
      <4>4. ab[i - 1] = a[i - 1] BY <2>4, <1>1, <4>1
      <4> QED BY <4>2, <4>3, <4>4
    <3>4. CASE i > la + 1
      <4>1. /\ ~(i - 1 <= la) /\ i - 1 \in 1..(la + lb) /\ ~(i < k) /\ i # k
            /\ i - 1 - la = i - (la + 1)
        BY <2>4, <1>1, <1>2, <3>4
      <4>2. tb[i] = b[i - (la + 1)] BY <2>4, <1>1, <2>3, <3>4
      <4>3. u[i] = ab[i - 1] BY <2>4, <2>2, <4>1
      <4>4. ab[i - 1] = b[i - 1 - la] BY <2>4, <1>1, <4>1
      <4> QED BY <4>1, <4>2, <4>3, <4>4
    <3> QED BY <2>4, <1>1, <1>2, <3>1, <3>2, <3>3, <3>4
  <2>5. Len(tb) = Len(u) BY <1>1, <2>1, <2>3
  <2>6. tb = u BY <1>1, <2>1, <2>3, <2>4, <2>5, SeqEqual
  <2>7. k \in 1..(Len(ab) + 1) BY <1>1, <1>2
  <2> QED BY <2>6, <2>7 DEF tb, t, u
<1>3. ASSUME NEW k \in 1..(lb + 1)
      PROVE  /\ a \o Inserted(b, k, e) = Inserted(ab, la + k, e)
             /\ la + k \in 1..(Len(ab) + 1)
  <2> DEFINE t == Inserted(b, k, e)
             u == Inserted(ab, la + k, e)
             at == a \o t
  <2>1. la + k \in 1..(Len(ab) + 1) BY <1>1, <1>3
  <2>2. t \in Seq(Entries) /\ Len(t) = lb + 1 /\ u \in Seq(Entries) /\ Len(u) = la + lb + 1
    <3>1. t \in Seq(Entries) /\ Len(t) = lb + 1 BY <1>3, InsertedType
    <3> HIDE DEF t, la, lb, ab
    <3>2. u \in Seq(Entries) /\ Len(u) = Len(ab) + 1 BY <1>1, <2>1, InsertedType
    <3> QED BY <1>1, <3>1, <3>2
  <2>3. /\ \A i \in 1..(lb + 1) : t[i] = IF i < k THEN b[i] ELSE IF i = k THEN e ELSE b[i - 1]
        /\ \A i \in 1..(la + lb + 1) :
             u[i] = IF i < la + k THEN ab[i] ELSE IF i = la + k THEN e ELSE ab[i - 1]
    BY <1>1 DEF Inserted
  <2> HIDE DEF t, u
  <2>4. /\ at \in Seq(Entries) /\ Len(at) = la + (lb + 1)
        /\ \A i \in 1..(la + (lb + 1)) : at[i] = IF i <= la THEN a[i] ELSE t[i - la]
    <3>1. t \in Seq(Entries) BY <2>2
    <3>2. at \in Seq(Entries) BY <3>1, ConcatProperties
    <3>3. Len(at) = la + Len(t) BY <3>1, ConcatProperties
    <3>4. \A i \in 1..(la + Len(t)) : at[i] = IF i <= la THEN a[i] ELSE t[i - la]
      BY <3>1, ConcatProperties
    <3> HIDE DEF at, la, lb
    <3> QED BY <2>2, <3>2, <3>3, <3>4
  <2> HIDE DEF at, la, lb, ab
  <2>5. ASSUME NEW i \in 1..(la + lb + 1) PROVE at[i] = u[i]
    <3>1. CASE i <= la
      <4>1. i < la + k /\ i \in 1..(la + lb) /\ i \in 1..(la + (lb + 1)) BY <2>5, <1>1, <1>3, <3>1
      <4>2. at[i] = a[i] BY <2>4, <3>1, <4>1
      <4>3. u[i] = ab[i] BY <2>5, <2>3, <4>1
      <4>4. ab[i] = a[i] BY <1>1, <3>1, <4>1
      <4> QED BY <4>2, <4>3, <4>4
    <3>2. CASE i > la /\ i < la + k
      <4>1. /\ ~(i <= la) /\ i \in 1..(la + lb) /\ i \in 1..(la + (lb + 1))
            /\ i - la \in 1..(lb + 1) /\ i - la < k
        BY <2>5, <1>1, <1>3, <3>2
      <4>2. at[i] = t[i - la] BY <2>4, <4>1
      <4>3. t[i - la] = b[i - la] BY <2>3, <4>1
      <4>4. u[i] = ab[i] BY <2>5, <2>3, <3>2
      <4>5. ab[i] = b[i - la] BY <1>1, <4>1
      <4> QED BY <4>2, <4>3, <4>4, <4>5
    <3>3. CASE i = la + k
      <4>1. /\ ~(i <= la) /\ i - la \in 1..(lb + 1) /\ ~(i - la < k) /\ i - la = k
            /\ ~(i < la + k) /\ i \in 1..(la + (lb + 1))
        BY <2>5, <1>1, <1>3, <3>3
      <4>2. at[i] = t[i - la] BY <2>4, <4>1
      <4>3. t[i - la] = e BY <2>3, <4>1
      <4>4. u[i] = e BY <2>5, <2>3, <3>3, <4>1
      <4> QED BY <4>2, <4>3, <4>4
    <3>4. CASE i > la + k
      <4>1. /\ ~(i <= la) /\ i - la \in 1..(lb + 1) /\ ~(i - la < k) /\ i - la # k
            /\ ~(i < la + k) /\ i # la + k
            /\ ~(i - 1 <= la) /\ i - 1 \in 1..(la + lb) /\ i - 1 - la = i - la - 1
        BY <2>5, <1>1, <1>3, <3>4
      <4>2. at[i] = t[i - la] BY <2>5, <1>1, <2>4, <4>1
      <4>3. t[i - la] = b[i - la - 1] BY <2>5, <2>3, <4>1
      <4>4. u[i] = ab[i - 1] BY <2>5, <2>3, <4>1
      <4>5. ab[i - 1] = b[i - 1 - la] BY <2>5, <1>1, <4>1
      <4> QED BY <4>1, <4>2, <4>3, <4>4, <4>5
    <3> QED BY <2>5, <1>1, <1>3, <3>1, <3>2, <3>3, <3>4
  <2>6. Len(at) = Len(u) BY <1>1, <2>2, <2>4
  <2>7. at = u BY <1>1, <2>2, <2>4, <2>5, <2>6, SeqEqual
  <2> QED BY <2>1, <2>7 DEF at, t, u
<1> QED BY <1>2, <1>3

\* A section of one more drive is the section of the others with its entry.
LEMMA InsertedSection ==
  ASSUME NEW platform \in Platforms, NEW s \in Seq(ListedEntries), NEW k \in 1..(Len(s) + 1),
         NEW e \in ListedEntries
  PROVE  Section(platform, Inserted(s, k, e))
           = Inserted(Section(platform, s), k,
               [platform |-> platform, four |-> e.four, product |-> e.product])
<1> DEFINE t == Inserted(s, k, e)
           S == Section(platform, s)
           T == Section(platform, t)
           f == [platform |-> platform, four |-> e.four, product |-> e.product]
           U == Inserted(S, k, f)
           n == Len(s)
<1>1. n \in Nat /\ DOMAIN s = 1..n BY LenProperties
<1>2. t \in Seq(ListedEntries) /\ Len(t) = n + 1 BY InsertedType
<1>3. DOMAIN t = 1..(n + 1) BY <1>2, LenProperties
<1>4. \A i \in 1..(n + 1) : t[i] = IF i < k THEN s[i] ELSE IF i = k THEN e ELSE s[i - 1]
  BY DEF Inserted
<1> HIDE DEF t
<1>5. /\ S \in Seq(Entries) /\ DOMAIN S = 1..n
      /\ \A i \in 1..n :
           S[i] = [platform |-> platform, four |-> s[i].four, product |-> s[i].product]
  BY <1>1, SectionType, Zenon
<1>6. /\ T \in Seq(Entries) /\ DOMAIN T = 1..(n + 1)
      /\ \A i \in 1..(n + 1) :
           T[i] = [platform |-> platform, four |-> t[i].four, product |-> t[i].product]
  BY <1>2, <1>3, SectionType, Zenon
<1>7. f \in Entries BY DEF Entries, ListedEntries
<1> HIDE DEF S, T, f, n
<1>8. Len(S) = n BY <1>1, <1>5, LenProperties
<1>9. k \in 1..(n + 1) BY DEF n
<1>10. U \in Seq(Entries) /\ Len(U) = n + 1 BY <1>5, <1>7, <1>8, <1>9, InsertedType
<1>11. \A i \in 1..(n + 1) : U[i] = IF i < k THEN S[i] ELSE IF i = k THEN f ELSE S[i - 1]
  BY <1>8 DEF Inserted
<1> HIDE DEF U
<1>12. ASSUME NEW i \in 1..(n + 1) PROVE T[i] = U[i]
  <2>1. CASE i < k
    <3>1. i \in 1..n BY <1>1, <1>9, <2>1
    <3> QED BY <1>4, <1>5, <1>6, <1>11, <2>1, <3>1
  <2>2. CASE i = k
    <3>1. t[i] = e /\ U[i] = f BY <1>1, <1>4, <1>9, <1>11, <2>2
    <3> QED BY <1>6, <3>1 DEF f
  <2>3. CASE i > k
    <3>1. i - 1 \in 1..n /\ ~(i < k) /\ i # k BY <1>1, <1>9, <2>3
    <3>2. t[i] = s[i - 1] /\ U[i] = S[i - 1] BY <1>4, <1>11, <3>1
    <3> QED BY <1>5, <1>6, <3>1, <3>2
  <2> QED BY <1>1, <1>9, <2>1, <2>2, <2>3
<1>13. Len(T) = n + 1 BY <1>1, <1>6, LenProperties
<1>14. T = U BY <1>6, <1>10, <1>12, <1>13, SeqEqual
<1> QED BY <1>14 DEF T, U, S, f, t

\* The whole catalog behind a release is the one before it, with one entry more.
LEMMA ReleaseInserts ==
  ASSUME NEW old \in [Platforms -> Seq(ListedEntries)],
         NEW new \in [Platforms -> Seq(ListedEntries)],
         NEW p \in Platforms, NEW entry \in ListedEntries, NEW k \in 1..(Len(old[p]) + 1),
         new[p] = Inserted(old[p], k, entry), \A q \in Platforms : q # p => new[q] = old[q]
  PROVE  \E place \in 1..(Len(All(old)) + 1) :
           All(new) = Inserted(All(old), place,
             [platform |-> p, four |-> entry.four, product |-> entry.product])
<1> DEFINE So(q) == Section(q, old[q])
           Sn(q) == Section(q, new[q])
           e == [platform |-> p, four |-> entry.four, product |-> entry.product]
<1>1. e \in Entries BY DEF Entries, ListedEntries
<1>2. \A q \in Platforms : old[q] \in Seq(ListedEntries) OBVIOUS
<1>3. \A q \in Platforms : So(q) \in Seq(Entries) /\ DOMAIN So(q) = DOMAIN old[q]
  BY <1>2, SectionType, Zenon
<1>4. Len(So(p)) = Len(old[p])
  <2> DEFINE S == So(p)
             s == old[p]
  <2>1. S \in Seq(Entries) /\ s \in Seq(ListedEntries) /\ DOMAIN S = DOMAIN s
    BY <1>2, <1>3, Zenon
  <2> HIDE DEF S, s
  <2>2. Len(S) = Len(s) BY <2>1, LenProperties
  <2> QED BY <2>2 DEF S, s
<1>5. Sn(p) = Inserted(So(p), k, e)
  <2>1. new[p] = Inserted(old[p], k, entry) OBVIOUS
  <2> QED BY <1>2, <2>1, InsertedSection
<1>6. \A q \in Platforms : q # p => Sn(q) = So(q)
  BY Zenon
<1>7. k \in 1..(Len(So(p)) + 1) BY <1>4
<1>8. "mt1959_a" \in Platforms /\ "mt1959_b" \in Platforms /\ "renesas" \in Platforms
      /\ (p = "mt1959_a" \/ p = "mt1959_b" \/ p = "renesas")
  BY DEF Platforms
<1>9. /\ All(old) = So("mt1959_a") \o So("mt1959_b") \o So("renesas")
      /\ All(new) = Sn("mt1959_a") \o Sn("mt1959_b") \o Sn("renesas")
  BY DEF All
<1> DEFINE ab == So("mt1959_a") \o So("mt1959_b")
<1> HIDE DEF So, Sn, e
<1>10. ab \in Seq(Entries) BY <1>3, <1>8
<1>11. CASE p = "mt1959_a"
  <2>1. /\ Inserted(So(p), k, e) \o So("mt1959_b") = Inserted(ab, k, e)
        /\ k \in 1..(Len(ab) + 1)
    <3>1. So(p) \in Seq(Entries) /\ So("mt1959_b") \in Seq(Entries) BY <1>3, <1>8
    <3>2. /\ Inserted(So(p), k, e) \o So("mt1959_b") = Inserted(So(p) \o So("mt1959_b"), k, e)
          /\ k \in 1..(Len(So(p) \o So("mt1959_b")) + 1)
      BY <1>1, <1>7, <3>1, InsertedConcat, Zenon
    <3> QED BY <1>11, <3>2, Zenon
  <2>2. /\ Inserted(ab, k, e) \o So("renesas") = Inserted(ab \o So("renesas"), k, e)
        /\ k \in 1..(Len(ab \o So("renesas")) + 1)
    BY <1>1, <1>3, <1>8, <1>10, <2>1, InsertedConcat
  <2>3. Sn("mt1959_b") = So("mt1959_b") /\ Sn("renesas") = So("renesas")
    BY <1>6, <1>8, <1>11
  <2>4. All(new) = Inserted(All(old), k, e)
    BY <1>5, <1>9, <1>11, <2>1, <2>2, <2>3, Zenon
  <2> QED BY <1>9, <2>2, <2>4, Zenon DEF e
<1>12. CASE p = "mt1959_b"
  <2> DEFINE place == Len(So("mt1959_a")) + k
  <2>1. /\ So("mt1959_a") \o Inserted(So(p), k, e) = Inserted(ab, place, e)
        /\ place \in 1..(Len(ab) + 1)
    BY <1>1, <1>3, <1>7, <1>8, <1>12, InsertedConcat
  <2> HIDE DEF place
  <2>2. /\ Inserted(ab, place, e) \o So("renesas") = Inserted(ab \o So("renesas"), place, e)
        /\ place \in 1..(Len(ab \o So("renesas")) + 1)
    BY <1>1, <1>3, <1>8, <1>10, <2>1, InsertedConcat
  <2>3. Sn("mt1959_a") = So("mt1959_a") /\ Sn("renesas") = So("renesas")
    BY <1>6, <1>8, <1>12
  <2>4. All(new) = Inserted(All(old), place, e)
    BY <1>5, <1>9, <1>12, <2>1, <2>2, <2>3, Zenon
  <2> QED BY <1>9, <2>2, <2>4, Zenon DEF e
<1>13. CASE p = "renesas"
  <2> DEFINE place == Len(ab) + k
  <2>1. /\ ab \o Inserted(So(p), k, e) = Inserted(ab \o So(p), place, e)
        /\ place \in 1..(Len(ab \o So(p)) + 1)
    BY <1>1, <1>3, <1>7, <1>8, <1>10, InsertedConcat
  <2> HIDE DEF place
  <2>2. Sn("mt1959_a") = So("mt1959_a") /\ Sn("mt1959_b") = So("mt1959_b")
    BY <1>6, <1>8, <1>13
  <2>3. All(new) = Inserted(All(old), place, e)
    BY <1>5, <1>9, <1>13, <2>1, <2>2, Zenon
  <2> QED BY <1>9, <1>13, <2>1, <2>3, Zenon DEF e
<1> QED BY <1>8, <1>11, <1>12, <1>13

\* A release that adds a drive to the bundled catalog hands no bound drive that
\* reports a product id to another profile's firmware, unless the entry it is
\* bound to then names it exactly; a bound drive that reports none keeps its
\* entry or takes the new one (find_by_drive_id).
THEOREM ReleasesRebindExactly == Spec => BindingStable
<1> DEFINE Stable ==
      LET before == Find(profiles, id)
          after  == Find(profiles, id)'
      IN before # NoEntry /\ after # before =>
           IF product # NoProduct
           THEN after = NoEntry \/ Exact(after, id)
           ELSE Added(after) /\ FourField(after, id)
<1>1. TypeOK /\ [Next]_vars => [Stable]_vars
  <2>1. SUFFICES ASSUME TypeOK, Next PROVE Stable
    BY Zenon
  <2>2. CASE Release
    <3>1. /\ profiles \in [Platforms -> Seq(ListedEntries)]
          /\ profiles' \in [Platforms -> Seq(ListedEntries)]
      BY <2>1, CatalogStep DEF TypeOK, DriveTypeOK
    <3>2. IsCatalog(All(profiles)) /\ IsCatalog(All(profiles'))
      BY <3>1, AllIsCatalog
    <3>3. Grows(All(profiles), All(profiles'))
      BY <2>1, <2>2, <3>1, ReleaseGrows, AllGrows
    <3>4. id' = id /\ id.product = product
      BY <2>2 DEF Release, outside, id
    <3>5. Find(profiles, id) = FindIn(All(profiles), id)
          /\ Find(profiles, id)' = FindIn(All(profiles'), id)
      BY <3>4 DEF Find
    <3>6. PICK p \in Platforms, entry \in News :
            \E k \in 1..(Len(profiles[p]) + 1) :
              profiles' = [profiles EXCEPT ![p] = Inserted(@, k, entry)]
      BY <2>2 DEF Release
    <3>7. PICK k \in 1..(Len(profiles[p]) + 1) :
            profiles' = [profiles EXCEPT ![p] = Inserted(@, k, entry)]
      BY <3>6
    <3>8. entry \in ListedEntries BY <3>6, CatalogAssumption
    <3> DEFINE e == [platform |-> p, four |-> entry.four, product |-> entry.product]
    <3>9. /\ profiles'[p] = Inserted(profiles[p], k, entry)
          /\ \A q \in Platforms : q # p => profiles'[q] = profiles[q]
      BY <3>1, <3>6, <3>7, Zenon
    <3>10. Added(e)
      BY <3>6, <3>7, <3>9, Zenon DEF Added
    <3>11. PICK place \in 1..(Len(All(profiles)) + 1) :
             All(profiles') = Inserted(All(profiles), place, e)
      <4> DEFINE old == profiles
                 new == profiles'
      <4>1. /\ old \in [Platforms -> Seq(ListedEntries)]
            /\ new \in [Platforms -> Seq(ListedEntries)]
            /\ p \in Platforms /\ k \in 1..(Len(old[p]) + 1)
        BY <3>1, <3>6, <3>7
      <4>2. new[p] = Inserted(old[p], k, entry) BY <3>9
      <4>3. \A q \in Platforms : q # p => new[q] = old[q] BY <3>9
      <4> HIDE DEF old, new
      <4>4. \E place \in 1..(Len(All(old)) + 1) : All(new) = Inserted(All(old), place, e)
        BY <3>8, <4>1, <4>2, <4>3, ReleaseInserts
      <4> QED BY <4>4 DEF old, new
    <3> HIDE DEF id, e
    <3>12. id.product # NoProduct /\ FindIn(All(profiles), id) # NoEntry =>
             \/ FindIn(All(profiles'), id) = FindIn(All(profiles), id)
             \/ FindIn(All(profiles'), id) = NoEntry
             \/ Exact(FindIn(All(profiles'), id), id)
      BY <3>2, <3>3, GrowthRebindsExactly
    <3>13. id.product = NoProduct /\ FindIn(All(profiles), id) # NoEntry =>
             \/ FindIn(All(profiles'), id) = FindIn(All(profiles), id)
             \/ FindIn(All(profiles'), id) = e /\ FourField(e, id)
      <4> DEFINE all == All(profiles)
      <4>1. all \in Seq(Entries) BY <3>1, AllGrows DEF Grows
      <4>2. IsCatalog(all) /\ IsCatalog(Inserted(all, place, e)) BY <3>2, <3>11
      <4>3. place \in 1..(Len(all) + 1) BY <3>11
      <4> HIDE DEF all
      <4>4. ASSUME id.product = NoProduct, FindIn(all, id) # NoEntry
            PROVE  \/ FindIn(Inserted(all, place, e), id) = FindIn(all, id)
                   \/ FindIn(Inserted(all, place, e), id) = e /\ FourField(e, id)
        BY <4>1, <4>2, <4>3, <4>4, InsertionTakesOver, Zenon
      <4> QED BY <3>11, <4>4, Zenon DEF all
    <3>14. CASE product # NoProduct
      BY <3>4, <3>5, <3>12, <3>14
    <3>15. CASE product = NoProduct
      <4>1. Find(profiles, id) # NoEntry /\ Find(profiles, id)' # Find(profiles, id) =>
              Find(profiles, id)' = e /\ FourField(e, id)
        BY <3>4, <3>5, <3>13, <3>15
      <4>2. Find(profiles, id) # NoEntry /\ Find(profiles, id)' # Find(profiles, id) =>
              Added(Find(profiles, id)') /\ FourField(Find(profiles, id)', id)
        BY <3>10, <4>1
      <4> QED BY <3>15, <4>2
    <3> QED BY <3>14, <3>15
  <2>3. CASE UNCHANGED <<profiles, product>>
    <3>1. Find(profiles, id)' = Find(profiles, id)
      BY <2>3 DEF Find, id
    <3> QED BY <3>1
  <2>4. Release \/ UNCHANGED <<profiles, product>>
    BY <2>1 DEF Next, Host, Environment, Begin, Probe, Platform, Hook, Enter, Load, Reprobe,
      SetRegion, SetSpeed, SetUnrestricted, Optional, Encrypt, GetVid, Close, Stop, PowerCycle,
      Reconfigure, outside
  <2> QED BY <2>2, <2>3, <2>4
<1> QED BY <1>1, TypeCorrect, PTL DEF Spec, BindingStable
-----------------------------------------------------------------------------
(***************************************************************************)
(* Running code is recognised and unlocked.                                *)
(***************************************************************************)

Undisturbed == found \in Supported /\ ~(faulty \/ died \/ cancelled \/ disturbed)

\* An undisturbed call on a drive that runs an implementation goes from the
\* knock to the back end of that implementation and through it to its end.
Course ==
  /\ pc \in {"idle", "probe", "prepared", "rehook", "close"} \cup Activating
  /\ pc \in Early => resident = found
  /\ pc = "rehook" => resident = "pioneer"
  /\ pc = "close" => result = "unlocked"
  /\ Ended => verdict = "unlocked"

OnCourse == Undisturbed => Course

\* A command that neither failed nor was refused, in a call nobody stopped,
\* was served; where refusals are ridden out it may have been refused.
LEMMA ServedOrFaulty ==
  ASSUME TypeOK, NEW reply, NEW answer, NEW tolerated, Command(reply, answer, tolerated),
         ~cancelled, ~faulty', ~died'
  PROVE  reply = answer \/ (tolerated /\ reply = "refused")
<1>1. CASE reply = IF Executes THEN answer ELSE "dead"
  <2>1. died' = (died \/ (~Executes /\ ~Blocked)) => Executes
    BY DEF Blocked
  <2>2. CASE died' = (died \/ (~Executes /\ ~Blocked))
    BY <1>1, <2>1, <2>2
  <2>3. CASE ~(died' = (died \/ (~Executes /\ ~Blocked)))
    <3>1. faulty' = (faulty \/ ~(tolerated /\ reply = "refused"))
      BY <2>3 DEF Command
    <3> QED BY <3>1
  <2> QED BY <2>2, <2>3
<1>2. CASE ~(reply = IF Executes THEN answer ELSE "dead")
  <2>1. faulty' = (faulty \/ ~(tolerated /\ reply = "refused"))
    BY <1>2 DEF Command
  <2> QED BY <2>1
<1> QED BY <1>1, <1>2

\* What went wrong with a command stays on record.
LEMMA CommandKeeps ==
  ASSUME NEW reply, NEW answer, NEW tolerated, Command(reply, answer, tolerated)
  PROVE  (died => died') /\ (faulty => faulty')
<1>1. died => died'
  BY Zenon DEF Command
<1>2. faulty => faulty'
  BY Zenon DEF Command
<1> QED BY <1>1, <1>2

\* What was wrong with a call stays wrong until the next one.
LEMMA WrongStays ==
  ASSUME TypeOK, [Next]_vars, ~Begin, Undisturbed'
  PROVE  Undisturbed
<1> DEFINE Kept == /\ found' = found /\ (cancelled => cancelled') /\ (disturbed => disturbed')
                   /\ (died => died') /\ (faulty => faulty')
<1> SUFFICES Kept BY DEF Undisturbed
<1> DEFINE Rest == UNCHANGED <<found, cancelled, disturbed>>
<1>1. CASE Probe \/ Reprobe \/ GetVid
  <2>1. (died => died') /\ (faulty => faulty')
    BY <1>1, CommandKeeps, Zenon DEF Probe, Reprobe, GetVid, Identity
  <2>2. Rest BY <1>1 DEF Probe, Reprobe, GetVid, book
  <2> QED BY <2>1, <2>2
<1>2. CASE Platform \/ Load
  <2>1. \/ UNCHANGED <<died, faulty>>
        \/ \E reply, answer : Command(reply, answer, FALSE)
    BY <1>2 DEF Platform, Load
  <2>2. (died => died') /\ (faulty => faulty')
    <3>1. CASE UNCHANGED <<died, faulty>>
      BY <3>1
    <3>2. CASE \E reply, answer : Command(reply, answer, FALSE)
      BY <3>2, CommandKeeps, Zenon
    <3> QED BY <2>1, <3>1, <3>2
  <2>3. Rest BY <1>2 DEF Platform, Load, book
  <2> QED BY <2>2, <2>3
<1>3. CASE Hook
  <2>1. HookDone \/ HookRefused \/ HookFailed \/ HookDead
    BY <1>3, Zenon DEF Hook
  <2>2. found' = found /\ disturbed' = disturbed
    BY <1>3, Zenon DEF Hook
  <2>3. died => died'
    <3>1. CASE HookDone \/ HookRefused \/ HookDead
      BY <3>1, Zenon DEF HookDone, HookRefused, HookDead
    <3>2. CASE HookFailed
      <4>1. died' = died \/ died' = TRUE BY <3>2 DEF HookFailed
      <4> QED BY <4>1, Zenon
    <3> QED BY <2>1, <3>1, <3>2
  <2>4. faulty => faulty'
    BY <2>1, Zenon DEF HookDone, HookRefused, HookFailed, HookDead
  <2>5. cancelled => cancelled'
    <3>1. cancelled' = cancelled \/ cancelled' = TRUE
      BY <2>1 DEF HookDone, HookRefused, HookFailed, HookDead
    <3> QED BY <3>1, Zenon
  <2> QED BY <2>2, <2>3, <2>4, <2>5
<1>4. CASE Enter \/ Close
  BY <1>4 DEF Enter, Close, book
<1>5. CASE SetRegion \/ SetSpeed \/ SetUnrestricted
  <2>1. (died => died') /\ (faulty => faulty')
    BY <1>5, CommandKeeps, Zenon DEF SetRegion, SetSpeed, SetUnrestricted, Optional
  <2>2. Rest BY <1>5 DEF SetRegion, SetSpeed, SetUnrestricted, Optional, book
  <2> QED BY <2>1, <2>2
<1>6. CASE Encrypt
  <2>1. \/ UNCHANGED <<died, faulty>>
        \/ \E reply, answer : Command(reply, answer, FALSE)
    BY <1>6 DEF Encrypt
  <2>2. (died => died') /\ (faulty => faulty')
    <3>1. CASE UNCHANGED <<died, faulty>>
      BY <3>1
    <3>2. CASE \E reply, answer : Command(reply, answer, FALSE)
      BY <3>2, CommandKeeps, Zenon
    <3> QED BY <2>1, <3>1, <3>2
  <2>3. UNCHANGED <<found, cancelled>> /\ (disturbed' = disturbed \/ disturbed' = TRUE)
    BY <1>6 DEF Encrypt
  <2>4. disturbed => disturbed' BY <2>3, Zenon
  <2> QED BY <2>2, <2>3, <2>4
<1>7. CASE Environment
  <2>1. UNCHANGED <<found, died, faulty>>
    BY <1>7 DEF Environment, Stop, PowerCycle, Reconfigure, Release, call, history
  <2>2. /\ cancelled' = cancelled \/ cancelled' = TRUE
        /\ disturbed' = disturbed \/ disturbed' = TRUE
    BY <1>7 DEF Environment, Stop, PowerCycle, Reconfigure, Release, call, history
  <2>3. cancelled => cancelled'
    <3>1. cancelled' = cancelled \/ cancelled' = TRUE BY <2>2
    <3> QED BY <3>1, Zenon
  <2>4. disturbed => disturbed'
    <3>1. disturbed' = disturbed \/ disturbed' = TRUE BY <2>2
    <3> QED BY <3>1, Zenon
  <2> QED BY <2>1, <2>3, <2>4
<1>8. CASE UNCHANGED vars
  BY <1>8 DEF vars, call, history
<1> QED
  BY <1>1, <1>2, <1>3, <1>4, <1>5, <1>6, <1>7, <1>8 DEF Next, Host

\* A supported implementation that answers is identified as what it is.
LEMMA SupportedIsIdentified ==
  ASSUME TypeOK, resident \in Supported
  PROVE  /\ resident = "pioneer" => Identified("good") = "PioneerRuntime"
         /\ resident # "pioneer" => Identified("good") = "Firmware"
<1> DEFINE answer == Answer(TRUE)
<1>1. /\ answer.whole /\ answer.rest = Banner(Versions.supported, speed)
      /\ answer.ext = IF resident = "pioneer" THEN "pioneer" ELSE "zeros"
  BY DEF Answer, Supported
<1>2. IsSupported(Version(answer.rest))
  BY <1>1, SpeedIsByte, VersionsAreTold
<1>3. Identified("good") = Parse(answer) BY DEF Identified
<1> HIDE DEF answer
<1> QED BY <1>1, <1>2, <1>3 DEF Parse

LEMMA ProbeCourse ==
  ASSUME TypeOK, Undisturbed, Course, Probe, Undisturbed'
  PROVE  Course'
<1>1. PICK reply \in {"good", "refused", "short", "dead"} :
        /\ Identity(reply)
        /\ missed' = (reply = "refused" /\ resident # "none")
        /\ IF reply = "dead" THEN Return("transport") ELSE Choose(Identified(reply))
  BY DEF Probe
<1>2. pc = "probe" /\ resident = found /\ resident \in Supported
  BY DEF Probe, Course, Undisturbed, Early
<1>3. Command(reply, "good", FALSE)
  BY <1>1, <1>2 DEF Identity, Supported
<1>4. reply = "good"
  BY <1>3, ServedOrFaulty DEF Undisturbed
<1>5. Choose(Identified("good")) BY <1>1, <1>4
<1>6. resident' = resident /\ found' = found BY DEF Probe, drive, book
<1>7. CASE resident = "pioneer"
  <2>1. Goto("rehook")
    BY <1>2, <1>5, <1>7, SupportedIsIdentified DEF Choose
  <2> QED BY <1>2, <1>6, <1>7, <2>1 DEF Goto, Course, Early, Activating, Ended
<1>8. CASE resident # "pioneer"
  <2>1. Goto("prepared")
    BY <1>2, <1>5, <1>8, SupportedIsIdentified DEF Choose
  <2> QED BY <1>2, <1>6, <2>1 DEF Goto, Course, Early, Activating, Ended
<1> QED BY <1>7, <1>8

LEMMA RehookCourse ==
  ASSUME TypeOK, Undisturbed, Course, Hook, Undisturbed'
  PROVE  Course'
<1>1. pc = "rehook" /\ resident = "pioneer" /\ Hookable
  BY DEF Hook, Course, Activating, Hookable
<1>2. HookDone
  BY <1>1 DEF Hook, HookRefused, HookFailed, HookDead, Undisturbed, Blocked
<1>3. Return("unlocked") BY <1>2 DEF HookDone, Undisturbed
<1> QED BY <1>3 DEF Return, Course, Early, Ended

LEMMA ActivateCourse ==
  ASSUME TypeOK, Undisturbed, Course, Undisturbed',
         SetRegion \/ SetSpeed \/ SetUnrestricted \/ Encrypt \/ GetVid
  PROVE  Course'
<1>1. CASE SetRegion \/ SetSpeed \/ SetUnrestricted
  <2>1. PICK next \in {"speed", "unrestricted", "encrypt"},
             reply \in {"good", "refused", "dead"} :
          /\ Command(reply, "good", TRUE)
          /\ IF reply = "dead" THEN Leave("transport") ELSE Goto(next)
    BY <1>1 DEF SetRegion, SetSpeed, SetUnrestricted, Optional
  <2>2. reply # "dead"
    BY <2>1, ServedOrFaulty DEF Undisturbed
  <2> QED BY <2>1, <2>2 DEF Goto, Course, Early, Activating, Ended
<1>2. CASE Encrypt
  <2>1. PICK reply \in {"good", "refused", "dead"} :
          /\ Command(reply, "good", FALSE)
          /\ CASE reply = "dead" -> Leave("transport")
               [] reply = "refused" -> Leave("declined")
               [] reply = "good" -> Goto("vid")
    BY <1>2 DEF Encrypt, Undisturbed
  <2>2. reply = "good"
    BY <2>1, ServedOrFaulty DEF Undisturbed
  <2> QED BY <2>1, <2>2 DEF Goto, Course, Early, Activating, Ended
<1>3. CASE GetVid
  <2>1. PICK reply \in {"good", "refused", "dead"} :
          /\ Command(reply, "good", TRUE)
          /\ Leave(IF reply = "dead" THEN "transport" ELSE "unlocked")
    BY <1>3 DEF GetVid
  <2>2. reply # "dead"
    BY <2>1, ServedOrFaulty DEF Undisturbed
  <2> QED BY <2>1, <2>2 DEF Leave, Course, Early, Activating, Ended
<1> QED BY <1>1, <1>2, <1>3

LEMMA CourseStep ==
  ASSUME TypeOK, OnCourse, [Next]_vars
  PROVE  OnCourse'
<1>1. CASE Begin
  BY <1>1 DEF Begin, OnCourse, Course, drive, Early, Activating, Ended
<1>2. CASE ~Begin
  <2>1. SUFFICES ASSUME Undisturbed' PROVE Course'
    BY DEF OnCourse
  <2>2. Undisturbed /\ Course
    BY <1>2, <2>1, WrongStays DEF OnCourse
  <2>3. CASE Probe
    BY <2>1, <2>2, <2>3, ProbeCourse
  <2>4. CASE Hook
    BY <2>1, <2>2, <2>4, RehookCourse
  <2>5. CASE SetRegion \/ SetSpeed \/ SetUnrestricted \/ Encrypt \/ GetVid
    BY <2>1, <2>2, <2>5, ActivateCourse
  <2>6. CASE Enter
    <3>1. pc = "prepared" /\ ~cancelled
      BY <2>2, <2>6 DEF Enter, Course, Activating, Undisturbed
    <3>2. Goto("region") BY <2>6, <3>1 DEF Enter
    <3> QED BY <3>2 DEF Goto, Course, Early, Activating, Ended
  <2>7. CASE Close
    <3>1. Return("unlocked")
      BY <2>2, <2>7 DEF Close, Course, Undisturbed
    <3> QED BY <3>1 DEF Return, Course, Early, Ended
  <2>8. CASE Platform \/ Load \/ Reprobe
    BY <2>2, <2>8 DEF Platform, Load, Reprobe, Course, Activating
  <2>9. CASE Stop \/ PowerCycle
    BY <2>1, <2>9 DEF Stop, PowerCycle, Undisturbed
  <2>10. CASE Reconfigure \/ Release
    BY <2>10 DEF Reconfigure, Release, Course, Early, Ended
  <2>11. CASE UNCHANGED vars
    BY <2>2, <2>11 DEF vars, drive, call, history, Course, Ended
  <2> QED
    BY <1>2, <2>3, <2>4, <2>5, <2>6, <2>7, <2>8, <2>9, <2>10, <2>11
    DEF Next, Host, Environment
<1> QED BY <1>1, <1>2

\* A drive that runs an implementation whose banner this host can read is
\* unlocked by every call that nothing disturbs, whatever optional settings
\* it refuses (FirmwareIdentity::parse, activate).
THEOREM RunningCodeIsUnlocked == Spec => []Recognised
<1>1. Init => OnCourse
  BY DEF Init, OnCourse, Course, Early, Ended
<1>2. TypeOK /\ OnCourse /\ [Next]_vars => OnCourse'
  BY CourseStep
<1>3. OnCourse => Recognised
  BY DEF OnCourse, Undisturbed, Course, Recognised
<1> QED BY <1>1, <1>2, <1>3, TypeCorrect, PTL DEF Spec
-----------------------------------------------------------------------------
(***************************************************************************)
(* How long a call can take, and how long a Stop can wait.                 *)
(***************************************************************************)

\* How many steps are left of the call, at most; the Renesas transaction and the
\* live loader are one step each.
Remaining ==
  CASE pc = "probe"        -> 10
    [] pc = "enterLoad"    -> 9
    [] pc = "load"         -> 8
    [] pc = "reprobe"      -> 7
    [] pc = "prepared"     -> 7
    [] pc = "region"       -> 6
    [] pc = "speed"        -> 5
    [] pc = "unrestricted" -> 4
    [] pc = "encrypt"      -> 3
    [] pc = "vid"          -> 2
    [] pc = "platform"     -> 2
    [] pc = "hook"         -> 1
    [] pc = "rehook"       -> 1
    [] pc = "close"        -> 1
    [] pc = "idle"         -> 0

\* Each step of the host leads on, into another back end or to the end of the call.
LEMMA Advances ==
  ASSUME Host
  PROVE  Remaining' < Remaining
<1>1. CASE Probe
  <2>1. pc = "probe" /\ pc' \in {"prepared", "rehook", "enterLoad", "platform", "idle"}
    <3>1. PICK reply \in {"good", "refused", "short", "dead"} :
            IF reply = "dead" THEN Return("transport") ELSE Choose(Identified(reply))
      BY <1>1 DEF Probe
    <3>2. Identified(reply) \in {"Firmware", "PioneerRuntime", "unknown", "none"}
      BY DEF Identified, Parse
    <3> HIDE DEF Identified
    <3> QED BY <1>1, <3>1, <3>2 DEF Probe, Choose, Goto, Return
  <2> QED BY <2>1 DEF Remaining
<1>2. CASE Platform
  <2>1. pc = "platform" /\ pc' \in {"hook", "idle"}
    BY <1>2 DEF Platform, Goto, Return
  <2> QED BY <2>1 DEF Remaining
<1>3. CASE Hook
  <2>1. pc \in {"hook", "rehook"} /\ pc' = "idle"
    BY <1>3 DEF Hook, HookDone, HookRefused, HookFailed, HookDead, Return
  <2> QED BY <2>1 DEF Remaining
<1>4. CASE Enter \/ Load \/ Reprobe
  <2>1. \/ pc = "prepared" /\ pc' \in {"region", "idle"}
        \/ pc = "enterLoad" /\ pc' \in {"load", "idle"}
        \/ pc = "load" /\ pc' \in {"reprobe", "close"}
        \/ pc = "reprobe" /\ pc' \in {"region", "close"}
    BY <1>4 DEF Enter, Load, Reprobe, Goto, Return, Leave
  <2> QED BY <2>1 DEF Remaining
<1>5. CASE SetRegion \/ SetSpeed \/ SetUnrestricted
  <2>1. \/ pc = "region" /\ pc' \in {"speed", "close"}
        \/ pc = "speed" /\ pc' \in {"unrestricted", "close"}
        \/ pc = "unrestricted" /\ pc' \in {"encrypt", "close"}
    BY <1>5 DEF SetRegion, SetSpeed, SetUnrestricted, Optional, Goto, Leave
  <2> QED BY <2>1 DEF Remaining
<1>6. CASE Encrypt \/ GetVid \/ Close
  <2>1. \/ pc = "encrypt" /\ pc' \in {"vid", "close"}
        \/ pc = "vid" /\ pc' = "close"
        \/ pc = "close" /\ pc' = "idle"
    BY <1>6 DEF Encrypt, GetVid, Close, Goto, Return, Leave
  <2> QED BY <2>1 DEF Remaining
<1> QED BY <1>1, <1>2, <1>3, <1>4, <1>5, <1>6 DEF Host

\* Outside its critical span a cancelled transport keeps every command from the
\* drive, and entering a span fails.
LEMMA StopServed ==
  ASSUME pc \in Steps, cancelled = TRUE, pc \notin CriticalSteps, Host
  PROVE  pc' = "idle" /\ verdict' = "transport"
<1>1. Blocked /\ ~Executes BY DEF Blocked, Executes
<1>2. ASSUME NEW reply, NEW answer, NEW tolerated, Command(reply, answer, tolerated)
      PROVE  reply = "dead"
  BY <1>1, <1>2 DEF Command, Misbehaves
<1>3. Probe \/ Platform \/ Hook \/ Enter
  BY DEF Steps, CriticalSteps, Host, Load, Reprobe, SetRegion, SetSpeed, SetUnrestricted,
     Optional, Encrypt, GetVid, Close
<1>4. CASE Probe
  <2>1. PICK reply \in {"good", "refused", "short", "dead"} :
          Identity(reply) /\ (reply = "dead" => Return("transport"))
    BY <1>4 DEF Probe
  <2> QED BY <1>2, <2>1 DEF Identity, Return
<1>5. CASE Platform
  BY <1>1, <1>2, <1>5 DEF Platform, Return
<1>6. CASE Hook
  BY <1>1, <1>6 DEF Hook, HookDone, HookRefused, HookFailed, HookDead, Misbehaves, Return
<1>7. CASE Enter
  BY <1>7 DEF Enter, Return
<1> QED BY <1>3, <1>4, <1>5, <1>6, <1>7

\* A call comes to its end whatever the drive answers: no back end leads back to
\* one in front of it, ten steps are the most there are, and no other event
\* lengthens the call.  A Stop outside the critical span ends it at its next step,
\* in Transport (full_unlock_with_drive, CriticalGuard::enter).
THEOREM CallsAreBounded ==
  Spec => /\ [](Remaining \in 0..10)
          /\ [][/\ Host => Remaining' < Remaining
                /\ Environment => Remaining' = Remaining
                /\ Host /\ cancelled /\ pc \notin CriticalSteps =>
                     pc' = "idle" /\ verdict' = "transport"]_vars
<1> DEFINE Step == /\ Host => Remaining' < Remaining
                   /\ Environment => Remaining' = Remaining
                   /\ Host /\ cancelled /\ pc \notin CriticalSteps =>
                        pc' = "idle" /\ verdict' = "transport"
<1>1. TypeOK => Remaining \in 0..10
  <2> SUFFICES ASSUME TypeOK PROVE Remaining \in 0..10
    OBVIOUS
  <2>1. pc \in Steps BY DEF TypeOK, CallTypeOK
  <2> QED BY <2>1 DEF Steps, CriticalSteps, Remaining
<1>2. TypeOK /\ [Next]_vars => [Step]_vars
  <2> SUFFICES ASSUME TypeOK PROVE Step
    OBVIOUS
  <2>1. Environment => Remaining' = Remaining
    BY DEF Environment, Stop, PowerCycle, Reconfigure, Release, Remaining, call
  <2>2. Host /\ cancelled /\ pc \notin CriticalSteps => pc' = "idle" /\ verdict' = "transport"
    BY StopServed DEF TypeOK, CallTypeOK
  <2> QED BY <2>1, <2>2, Advances
<1> QED
  BY TypeCorrect, <1>1, <1>2, PTL DEF Spec
===============================================================================
