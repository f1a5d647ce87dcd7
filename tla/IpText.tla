------------------------------- MODULE IpText -------------------------------
(***************************************************************************)
(* Reading and writing IP addresses as text (lib/src/ip_address.cpp).      *)
(*                                                                         *)
(* A text is a sequence of items: a word, which is the sequence of its     *)
(* digits as numbers 0 .. 15, and the character that ends it.  "end" is    *)
(* the end of the text or a character that is not part of an address,      *)
(* which the parsers put back.  White space ("space") is such a character  *)
(* in an IPv4 address, except before its slash, where it is skipped.  In   *)
(* an IPv6 address it is skipped everywhere up to the slash, within a word *)
(* too: "8 9" is the word 89.  Words have up to nine digits: parse_num     *)
(* does its arithmetic in an int.                                          *)
(*                                                                         *)
(* An object is its version and kind; reading gives it the bytes or quads  *)
(* and the mask length.  The parser is the record p, fed one item at a     *)
(* time; "undefined" stands for what a compiler may make of the use of a   *)
(* variable that was never set or of an array below its start.             *)
(***************************************************************************)
EXTENDS Integers, SequencesExt

CONSTANTS
    Items6,     \* what may come next in the text of an IPv6 address
    Items4,     \* the same for an IPv4 address
    Masks       \* the words that may follow the slash

Terminators == {":", "-", ".", "/", "end"}

ASSUME ItemsAssumption ==
    /\ Items6 \subseteq [word : Seq(0 .. 15), then : Terminators \cup {"space"}]
    /\ Items4 \subseteq [word : Seq(0 .. 15), then : Terminators]
    /\ Masks \subseteq Seq(0 .. 15)

VARIABLES
    input,      \* the items read so far, without the white space
    held,       \* the digits of a word that white space interrupted
    p,          \* the parser
    os          \* the number base the output stream is left in

textVars == <<input, held, p, os>>

\* The value of a word: parse_num with base 10, the conversion of a quad with 16.
Value(word, base) == FoldLeft(LAMBDA v, d : base * v + d, 0, word)

\* The greatest number a quad holds; bytes and mask lengths are smaller.
MaxQuad == 65535

\* The digits a stream writes for a number in a base, without leading zeros.
Digits(base, v) ==
    LET digits[w \in 0 .. MaxQuad] ==
            IF w < base THEN <<w>> ELSE Append(digits[w \div base], w % base)
    IN  digits[v]

IsDecimal(word) == \A i \in DOMAIN word : word[i] < 10

\* The digits up to the first one that is not decimal.
DecimalPrefix(word) ==
    IF IsDecimal(word) THEN word
    ELSE SubSeq(word, 1, (CHOOSE i \in DOMAIN word :
                            word[i] >= 10 /\ \A j \in 1 .. i - 1 : word[j] < 10) - 1)

-----------------------------------------------------------------------------
(***************************************************************************)
(* The parser of IPv6 addresses.                                           *)
(***************************************************************************)
Start(version, kind) ==
    [version |-> version, kind |-> kind, status |-> "reading",
     delimiter |-> "none", start |-> TRUE, need |-> FALSE,
     deflated |-> FALSE, first |-> 0,
     quads |-> <<>>, decimals |-> <<>>, mask |-> 0]

Failed(q) == [q EXCEPT !.status = "failed"]
Undefined(q) == [q EXCEPT !.status = "undefined"]

\* The first delimiter is a colon or a dash; only a colon may become a dot.
CanDelimit(q, c) ==
    \/ q.delimiter = "none" /\ c \in {":", "-"}
    \/ q.delimiter = c
    \/ q.delimiter = ":" /\ c = "."

Quad(q, word) ==
    IF q.need \/ Len(q.quads) = 8 THEN Failed(q)
    ELSE [q EXCEPT !.quads = Append(@, Value(word, 16)), !.start = FALSE]

Decimal(q, word) ==
    IF ~CanDelimit(q, ".") \/ q.need \/ Len(q.decimals) = 4 THEN Failed(q)
    ELSE IF word = <<>> THEN Undefined(q)
    ELSE IF Value(word, 10) > 255 THEN Failed(q)
    ELSE [q EXCEPT !.decimals = Append(@, Value(word, 10)), !.delimiter = ".", !.start = FALSE]

\* A delimiter without a word before it opens the address or compresses zeros.
Compression(q, c) ==
    IF ~CanDelimit(q, c) THEN Failed(q)
    ELSE IF q.start THEN [q EXCEPT !.delimiter = c, !.start = FALSE, !.need = TRUE]
    ELSE IF q.deflated THEN Failed(q)
    ELSE [q EXCEPT !.delimiter = c, !.need = FALSE, !.deflated = TRUE, !.first = Len(q.quads)]

\* A network goes on, and only with a slash after its address.
Complete(q, then) ==
    IF q.kind = "host" THEN [q EXCEPT !.status = "done"]
    ELSE IF then = "/" THEN [q EXCEPT !.status = "slash"]
    ELSE Failed(q)

number_of_quads(q) == IF q.decimals = <<>> THEN 8 ELSE 6

InflatedTooFar(q) ==
    LET n == number_of_quads(q)
        l == Len(q.quads)
        moved == l - q.first
    IN  [j \in 1 .. n |->
            IF j > n - moved + 1 /\ j + l - n \in DOMAIN q.quads THEN q.quads[j + l - n]
            ELSE IF j > q.first THEN 0 ELSE q.quads[j]]

(***************************************************************************)
(* inflate moves the quads after the compression to the end, last one      *)
(* first, and fills the gap.  With more quads than the address has room    *)
(* for, the move goes towards the front and repeats quads it has already   *)
(* overwritten.                                                            *)
(***************************************************************************)
Inflated(q) ==
    LET n == number_of_quads(q)
        l == Len(q.quads)
        moved == l - q.first
        Source(j) ==
            IF l <= n THEN j + l - n ELSE l - 1 - ((n - 1 - j) % (l - n))
    IN  [j \in 1 .. n |->
            IF j - 1 >= n - moved THEN q.quads[Source(j - 1) + 1]
            ELSE IF j - 1 >= q.first THEN 0 ELSE q.quads[j]]

Finished(q, then) ==
    LET n == number_of_quads(q)
        l == Len(q.quads)
    IN  IF q.deflated /\ l - q.first > n THEN Undefined(q)
        ELSE IF (~q.deflated /\ l # n) \/ Len(q.decimals) \notin {0, 4} THEN Failed(q)
        ELSE Complete([q EXCEPT !.quads = IF q.deflated THEN Inflated(q) ELSE @], then)

\* fetch and the turn of parse that takes its token; a word of the decimal
\* part ends at the first digit that is not decimal, and so does the text.
Token6(q, item) ==
    LET decimal == q.decimals # <<>>
        word == IF decimal THEN DecimalPrefix(item.word) ELSE item.word
        then == IF word = item.word THEN item.then ELSE "end"
        Closed(r) == IF r.status = "reading" THEN Finished(r, then) ELSE r
    IN  IF Len(word) > 4 THEN Failed(q)
        ELSE CASE word = <<>> /\ then \in {"/", "end"} -> Finished(q, then)
               [] word = <<>> /\ then \in {":", "-"} -> Compression(q, then)
               [] then = "." -> IF IsDecimal(word) THEN Decimal(q, word) ELSE Failed(q)
               [] word # <<>> /\ then \in {":", "-"} ->
                     IF CanDelimit(q, then) THEN Quad([q EXCEPT !.delimiter = then], word) ELSE Failed(q)
               [] OTHER -> Closed(IF decimal THEN Decimal(q, word) ELSE Quad(q, word))

(***************************************************************************)
(* The parser of IPv4 addresses, and the mask length after the slash.      *)
(***************************************************************************)
Token4(q, item) ==
    LET word == DecimalPrefix(item.word)
        then == IF word = item.word THEN item.then ELSE "end"
        r == [q EXCEPT !.decimals = Append(@, Value(word, 10))]
    IN  IF word = <<>> \/ Value(word, 10) > 255 THEN Failed(q)
        ELSE IF Len(r.decimals) = 4 THEN Complete(r, then)
        ELSE IF then = "." THEN r ELSE Failed(q)

Limit(version) == IF version = "ipv4" THEN 32 ELSE 128

MaskRead(q, word) ==
    IF DecimalPrefix(word) = <<>> \/ Value(DecimalPrefix(word), 10) > Limit(q.version) THEN Failed(q)
    ELSE [q EXCEPT !.status = "done", !.mask = Value(DecimalPrefix(word), 10)]

Read(q, item) ==
    IF q.status = "slash" THEN MaskRead(q, item.word)
    ELSE IF q.version = "ipv6" THEN Token6(q, item) ELSE Token4(q, item)

ReadAll(q, text) ==
    FoldLeft(LAMBDA r, item : IF r.status \in {"reading", "slash"} THEN Read(r, item) ELSE r, q, text)

-----------------------------------------------------------------------------
(***************************************************************************)
(* Writing.  A written text is a sequence of items too.  The stream keeps  *)
(* the number base that was last set on it: the quads set hexadecimal, the *)
(* decimal part of an IPv6 address and its mask set decimal, the bytes of  *)
(* an IPv4 address are written in whatever base there is.                  *)
(***************************************************************************)
Styles == {"customary", "dot_decimal", "canonical", "strict", "expanded", "microsoft", "dotted_quad"}

Item(word, then) == [word |-> word, then |-> then]

\* Numbers in a base with a delimiter between them, the last one ended by then.
Row(numbers, base, delimiter, then) ==
    [i \in DOMAIN numbers |->
        Item(Digits(base, numbers[i]), IF i = Len(numbers) THEN then ELSE delimiter)]

\* The first of the longest runs of zeros, if it has two or more.
find_zero_sequence(quads) ==
    LET Runs == {r \in (DOMAIN quads) \X (2 .. Len(quads)) :
                    /\ r[1] + r[2] - 1 <= Len(quads)
                    /\ \A i \in r[1] .. r[1] + r[2] - 1 : quads[i] = 0}
    IN  {r \in Runs : \A s \in Runs : s[2] < r[2] \/ (s[2] = r[2] /\ r[1] <= s[1])}

expanded(quads, then) == Row(quads, 16, ":", then)

ends_with_deflated(quads) == \E r \in find_zero_sequence(quads) : r[1] + r[2] > Len(quads)

deflated_in_front(quads, delimiter, then) ==
    IF find_zero_sequence(quads) = {} THEN expanded(quads, then)
    ELSE LET r == CHOOSE z \in find_zero_sequence(quads) : TRUE
             before == SubSeq(quads, 1, r[1] - 1)
             after == SubSeq(quads, r[1] + r[2], Len(quads))
         IN  Row(before, 16, delimiter, delimiter) \o <<Item(<<>>, delimiter)>>
                \o (IF after = <<>> THEN <<Item(<<>>, then)>> ELSE Row(after, 16, delimiter, then))

\* Without a run the address is expanded, which has colons whatever the style.
deflated(quads, delimiter, then) ==
    IF find_zero_sequence(quads) = {} THEN expanded(quads, then)
    ELSE LET r == CHOOSE z \in find_zero_sequence(quads) : TRUE
             before == SubSeq(quads, 1, r[1] - 1)
             after == SubSeq(quads, r[1] + r[2], Len(quads))
         IN  Row(before, 16, delimiter, delimiter)
                \o <<Item(<<>>, delimiter)>>
                \o (IF before = <<>> THEN <<Item(<<>>, delimiter)>> ELSE <<>>)
                \o (IF after = <<>> THEN <<Item(<<>>, then)>> ELSE Row(after, 16, delimiter, then))

\* The last four bytes as decimals.  Without a run of zeros before them
\* nothing tells whether a colon is due: its place may be left empty, and
\* then the last quad and the first decimal are one word.
dotted_quad(quads, bytes) ==
    LET head == SubSeq(quads, 1, 6)
        tail == Row(bytes, 10, ".", "end")
        shown == deflated(head, ":", ":")
        joined == [Head(tail) EXCEPT !.word = shown[Len(shown)].word \o @]
    IN  CASE find_zero_sequence(head) = {} ->
                {shown \o tail, Front(shown) \o <<joined>> \o Tail(tail)}
          [] ends_with_deflated(head) -> {Front(shown) \o tail}
          [] OTHER -> {shown \o tail}

\* A network clears its host part.
MaskedNumbers(numbers, width, mask) ==
    [i \in DOMAIN numbers |->
        LET kept == mask - width * (i - 1)
        IN  CASE kept >= width -> numbers[i]
              [] kept <= 0 -> 0
              [] OTHER -> numbers[i] - (numbers[i] % 2^(width - kept))]

Numbers6(q) ==
    IF q.decimals = <<>> THEN q.quads
    ELSE q.quads \o <<256 * q.decimals[1] + q.decimals[2], 256 * q.decimals[3] + q.decimals[4]>>

\* What was read, as the object it is assigned to: assign(const std::string&).
Object(q) ==
    LET numbers == IF q.version = "ipv6" THEN Numbers6(q) ELSE q.decimals
        width == IF q.version = "ipv6" THEN 16 ELSE 8
    IN  [version |-> q.version, kind |-> q.kind, mask |-> q.mask,
         numbers |-> IF q.kind = "host" THEN numbers ELSE MaskedNumbers(numbers, width, q.mask)]

\* The same for an object that operator >> read into.  It assigns the address it
\* has made to it, and an IPv4 network then keeps its own mask.
Streamed(q, own) ==
    IF q.version = "ipv4" /\ q.kind = "network"
    THEN [Object(q) EXCEPT !.mask = own, !.numbers = MaskedNumbers(@, 8, own)]
    ELSE Object(q)

\* The ranges of hosts that originate in IPv4: mapped, translated, translated locally.
Originated(quads) ==
    \/ SubSeq(quads, 1, 6) \in {<<0, 0, 0, 0, 0, 65535>>, <<100, 65435, 0, 0, 0, 0>>}
    \/ SubSeq(quads, 1, 3) = <<100, 65435, 1>>

LastBytes(quads) == <<quads[7] \div 256, quads[7] % 256, quads[8] \div 256, quads[8] % 256>>

Written(text, base) == [text |-> text, base |-> base]

\* The quads in a style; a zero address compressed leaves the base alone.
Visualized6(quads, style, then, base) ==
    CASE style = "expanded" -> {Written(expanded(quads, then), 16)}
      [] style = "dotted_quad" ->
            {Written(text, 10) : text \in dotted_quad(quads, LastBytes(quads))}
      [] style \in {"canonical", "strict", "microsoft"} ->
            {Written(deflated(quads, IF style = "microsoft" THEN "-" ELSE ":", then),
                     IF \E i \in DOMAIN quads : quads[i] # 0 THEN 16 ELSE base)}
      [] OTHER -> {}

V6HostVisualize(quads, style, base) ==
    LET named == IF style = "customary" THEN "canonical" ELSE style
    IN  Visualized6(quads, IF named = "canonical" /\ Originated(quads) THEN "dotted_quad" ELSE named,
                    "end", base)

V6NetworkVisualize(quads, mask, style, base) ==
    IF style = "dotted_quad" THEN {}
    ELSE {Written(w.text \o <<Item(Digits(10, mask), "end")>>, 10) :
            w \in Visualized6(quads, IF style = "customary" THEN "canonical" ELSE style, "/", base)}

\* Bytes and mask are written with whatever base the stream has.
V4Visualize(bytes, kind, mask, style, base) ==
    IF style \notin {"customary", "dot_decimal"} THEN {}
    ELSE {Written(IF kind = "host" THEN Row(bytes, base, ".", "end")
                  ELSE Row(bytes, base, ".", "/") \o <<Item(Digits(base, mask), "end")>>, base)}

Visualize(o, style, base) ==
    IF o.version = "ipv4" THEN V4Visualize(o.numbers, o.kind, o.mask, style, base)
    ELSE IF o.kind = "host" THEN V6HostVisualize(o.numbers, style, base)
    ELSE V6NetworkVisualize(o.numbers, o.mask, style, base)

-----------------------------------------------------------------------------
(***************************************************************************)
(* The machine reads a text into an object of any class and writes the     *)
(* object to a stream, and then reads another one.                         *)
(***************************************************************************)
TextInit ==
    /\ input = <<>>
    /\ held = <<>>
    /\ \E version \in {"ipv4", "ipv6"}, kind \in {"host", "network"} : p = Start(version, kind)
    /\ os = 10

Items(q) ==
    IF q.status = "slash" THEN {Item(word, "end") : word \in Masks}
    ELSE IF q.version = "ipv6" THEN Items6 ELSE Items4

\* fetch reads with >>, which skips white space: the next digits belong to the
\* same word, unless it is too long already or has ended before.
GoesOn(item) ==
    /\ item.then = "space"
    /\ Len(held \o item.word) <= 4
    /\ p.decimals # <<>> => IsDecimal(item.word)

SkipSpace(item) ==
    /\ p.status = "reading"
    /\ GoesOn(item)
    /\ held' = held \o item.word
    /\ UNCHANGED <<input, p, os>>

Whole(item) == Item(held \o item.word, IF item.then = "space" THEN "end" ELSE item.then)

Take(item) ==
    /\ p.status \in {"reading", "slash"}
    /\ ~GoesOn(item)
    /\ p' = Read(p, Whole(item))
    /\ input' = Append(input, Whole(item))
    /\ held' = <<>>
    /\ UNCHANGED os

Write(style) ==
    /\ p.status = "done"
    /\ \E w \in Visualize(Object(p), style, os) : os' = w.base
    /\ UNCHANGED <<input, held, p>>

Again(version, kind) ==
    /\ p.status \notin {"reading", "slash"}
    /\ p' = Start(version, kind)
    /\ input' = <<>>
    /\ UNCHANGED <<held, os>>

TextNext ==
    \/ \E item \in Items(p) : Take(item) \/ SkipSpace(item)
    \/ \E style \in Styles : Write(style)
    \/ \E version \in {"ipv4", "ipv6"}, kind \in {"host", "network"} : Again(version, kind)

TextSpec == TextInit /\ [][TextNext]_textVars

-----------------------------------------------------------------------------
(***************************************************************************)
(* The notation itself, as the reference for the parser: quads of up to    *)
(* four digits, eight of them or six and four decimals, one delimiter      *)
(* throughout, and at most one run of zero quads left out, whose place is  *)
(* between two delimiters.                                                 *)
(***************************************************************************)
Ends == {"/", "end"}

Ended(text) ==
    /\ text # <<>> /\ text[Len(text)].then \in Ends
    /\ \A i \in 1 .. Len(text) - 1 : text[i].then \notin Ends

Quads(items) == [i \in DOMAIN items |-> Value(items[i].word, 16)]

WellFormed(items, delimiter) ==
    \A i \in DOMAIN items :
        /\ Len(items[i].word) \in 1 .. 4
        /\ items[i].then \in {delimiter} \cup Ends

\* The items on either side of a gap, which is the empty item between two
\* delimiters; it has an empty item as neighbour where the address begins or
\* the text ends.
Before(items, gap, delimiter) ==
    IF gap = 2 /\ items[1] = Item(<<>>, delimiter) THEN <<>> ELSE SubSeq(items, 1, gap - 1)

After(items, gap) ==
    IF gap = Len(items) - 1 /\ items[gap + 1].word = <<>> /\ items[gap + 1].then \in Ends
    THEN <<>> ELSE SubSeq(items, gap + 1, Len(items))

\* The quads an address may stand for when n of them are to be written.
Denoted(items, n, delimiter) ==
    (IF Len(items) = n /\ WellFormed(items, delimiter) THEN {Quads(items)} ELSE {}) \cup
    UNION {
        LET before == Before(items, gap, delimiter)
            after == After(items, gap)
            missing == n - Len(before) - Len(after)
        IN  IF missing >= 1 /\ WellFormed(before, delimiter) /\ WellFormed(after, delimiter)
            THEN {Quads(before) \o [i \in 1 .. missing |-> 0] \o Quads(after)} ELSE {}
        : gap \in {i \in 2 .. Len(items) : items[i] = Item(<<>>, delimiter)}}

Bytes(items) == [i \in DOMAIN items |-> Value(items[i].word, 10)]

WellFormedDecimals(items) ==
    /\ \A i \in 1 .. 3 : items[i].then = "."
    /\ \A i \in 1 .. 4 :
          /\ Len(items[i].word) \in 1 .. 3 /\ IsDecimal(items[i].word)
          /\ Value(items[i].word, 10) \in 0 .. 255

Meaning6(text) ==
    LET head == SubSeq(text, 1, Len(text) - 4)
        tail == SubSeq(text, Len(text) - 3, Len(text))
        low == Bytes(tail)
    IN  Denoted(text, 8, ":") \cup Denoted(text, 8, "-") \cup
        IF Len(text) >= 4 /\ WellFormedDecimals(tail)
        THEN {quads \o <<256 * low[1] + low[2], 256 * low[3] + low[4]>> : quads \in Denoted(head, 6, ":")}
        ELSE {}

\* Ways to end an address that was begun: with one or more quads, with a
\* compression at the end or before the last quad, with one to three decimals.
OnesBetween(n, delimiter) ==
    [i \in 1 .. n |-> Item(<<1>>, IF i = n THEN "end" ELSE delimiter)]

Endings ==
    {OnesBetween(n, delimiter) : n \in 1 .. 8, delimiter \in {":", "-"}} \cup
    {<<Item(<<>>, delimiter)>> \o OnesBetween(1, delimiter) : delimiter \in {":", "-"}} \cup
    {<<Item(<<>>, "end")>>} \cup
    {OnesBetween(n, ".") : n \in 1 .. 3}

\* The text is the beginning of an address in the notation.
Begins(text) ==
    /\ \A i \in DOMAIN text : text[i].then \notin Ends
    /\ \E rest \in Endings : Meaning6(text \o rest) # {}

\* Every address written in one of the notations the documentation of the
\* styles describes is read, and as the address it denotes: compression at
\* either end or in the middle, of any length, with and without a decimal part.
\* The parser never gives a text up that may still become such an address.
\* A text with white space is read as the one without it, up to the slash: the
\* reading does not stop there, as the documentation of operator >> has it.
ReadsTheNotation ==
    p.version = "ipv6" =>
        /\ p.status # "reading" => ~Begins(input)
        /\ Ended(input) /\ (p.kind = "network" => input[Len(input)].then = "/")
              => \A quads \in Meaning6(input) : p.status \in {"done", "slash"} /\ Numbers6(p) = quads

ReadBack(o, text) ==
    LET q == ReadAll(Start(o.version, o.kind), text)
    IN  q.status = "done" /\ Object(q) = o /\ Streamed(q, o.mask) = o

\* An object written in any style that may be used for it is read back by
\* assign(string) as the same object, mask and all, and the text needs no
\* character the parser does not take.  operator >> gives the same object too,
\* unless it is an IPv4 network and the one that is read into has another mask:
\* that mask stays.  Where the code leaves open whether a colon is written, the
\* text with the colon is meant; an IPv4 address is written to a stream that
\* writes decimal numbers.
WritesWhatItReads ==
    p.status = "done" =>
        \A style \in Styles :
            LET outcomes == Visualize(Object(p), style, IF p.version = "ipv4" THEN 10 ELSE os)
            IN  outcomes # {} => \E w \in outcomes : ReadBack(Object(p), w.text)
=============================================================================
