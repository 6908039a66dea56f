----------------------------- MODULE TextFilter -----------------------------
(* The filters between bytes and text of qca_textfilter.cpp, Hex and Base64, *)
(* that get their input in chunks: what an update() cannot convert yet is    *)
(* kept for the next one or for final().                                     *)
(*                                                                           *)
(* A byte is a number below 256; a character is the number it stands for, or *)
(* one of Padding, LineFeed and Other.                                       *)
EXTENDS Integers, Sequences, SequencesExt

CONSTANTS
  Bytes,      \* the bytes that are encoded
  Digits,     \* the characters that are decoded
  Columns,    \* the column of line breaks; 0 without
  MaxLength   \* bound on what a filter is given

Padding == 64
LineFeed == 65
Other == -1

VARIABLES
  f,      \* the filter: what it does, its settings, and what it keeps
  fed,    \* all that update() was given since clear()
  out,    \* all that came out
  done    \* final() has been called

textVars == <<f, fed, out, done>>

Clear(as, dir, column) ==
  [as |-> as, dir |-> dir, column |-> column, partial |-> <<>>, ok |-> TRUE, col |-> 0]

Result(filter, text) == [f |-> filter, out |-> text]

\* The parts of s of length n each, and what is left.
Parts(s, n) == [k \in 1..(Len(s) \div n) |-> SubSeq(s, n * (k - 1) + 1, n * k)]
Rest(s, n) == SubSeq(s, (Len(s) - (Len(s) % n)) + 1, Len(s))
Map(s, Op(_)) == FlattenSeq([k \in DOMAIN s |-> Op(s[k])])

-----------------------------------------------------------------------------
(* Hex.  partial holds the digit that waits for its second one: the flag     *)
(* partial of the code, which nothing but clear() takes back, and val.       *)

HexEncode(filter, in) == Result(filter, Map(in, LAMBDA b : <<b \div 16, b % 16>>))

HexDecode(filter, in) ==
  LET digits == filter.partial \o in
      ok == filter.ok /\ \A k \in DOMAIN in : in[k] \in 0..15
      rest == Rest(digits, 2)
  IN  IF ~ok THEN Result([filter EXCEPT !.ok = FALSE], <<>>)
      ELSE Result([filter EXCEPT !.partial = IF rest # <<>> THEN rest ELSE @],
                  Map(Parts(digits, 2), LAMBDA p : <<p[1] * 16 + p[2]>>))

HexUpdate(filter, in) ==
  IF filter.dir = "Encode" THEN HexEncode(filter, in) ELSE HexDecode(filter, in)

HexFinal(filter) == Result([filter EXCEPT !.ok = @ /\ filter.partial = <<>>], <<>>)

-----------------------------------------------------------------------------
(* Base64.                                                                   *)

\* Three bytes are four characters, one and two are padded.
b64encode(s) ==
  LET Four(p) == <<p[1] \div 4, (p[1] % 4) * 16 + (p[2] \div 16),
                   (p[2] % 16) * 4 + (p[3] \div 64), p[3] % 64>>
      tail == Rest(s, 3)
  IN  Map(Parts(s, 3), Four)
      \o CASE Len(tail) = 0 -> <<>>
           [] Len(tail) = 1 -> SubSeq(Four(tail \o <<0, 0>>), 1, 2) \o <<Padding, Padding>>
           [] Len(tail) = 2 -> SubSeq(Four(tail \o <<0>>), 1, 3) \o <<Padding>>

\* Only the padding at the very end shortens the result; elsewhere the padding
\* of the last two places of a part counts as the bits it has.
b64decode(s) ==
  LET Three(p) == <<((p[1] * 4) + ((p[2] \div 16) % 4)) % 256,
                    (p[2] % 16) * 16 + ((p[3] \div 4) % 16),
                    (p[3] % 4) * 64 + (p[4] % 64)>>
      whole == Map(Parts(s, 4), Three)
      Bad(p) == \/ p[1] \notin 0..63 \/ p[2] \notin 0..63
                \/ p[3] \notin 0..Padding \/ p[4] \notin 0..Padding
  IN  IF Len(s) % 4 # 0 \/ \E k \in DOMAIN Parts(s, 4) : Bad(Parts(s, 4)[k])
      THEN [ok |-> FALSE, out |-> <<>>]
      ELSE [ok |-> TRUE,
            out |-> IF s # <<>> /\ s[Len(s) - 1] = Padding THEN SubSeq(whole, 1, Len(whole) - 2)
                    ELSE IF s # <<>> /\ Last(s) = Padding THEN Front(whole)
                    ELSE whole]

\* A line feed at the end of each line that is full; col is where s begins.
insert_linebreaks(s, col, lfAt) ==
  LET needed == (Len(s) + col) \div lfAt
      firstlen == lfAt - col
      at == firstlen + lfAt * (needed - 1)
      Line(k) == IF k = 1 THEN SubSeq(s, 1, firstlen)
                 ELSE SubSeq(s, firstlen + lfAt * (k - 2) + 1, firstlen + lfAt * (k - 1))
  IN  IF needed = 0 THEN [out |-> s, col |-> col + Len(s)]
      ELSE [out |-> FlattenSeq([k \in 1..needed |-> Append(Line(k), LineFeed)])
                    \o SubSeq(s, at + 1, Len(s)),
            col |-> Len(s) - at]

Base64Encode(filter, s) ==
  LET broken == insert_linebreaks(b64encode(s), filter.col, filter.column)
  IN  IF filter.column = 0 THEN Result(filter, b64encode(s))
      ELSE Result([filter EXCEPT !.col = broken.col], broken.out)

Base64Decode(filter, s) ==
  LET decoded == b64decode(s)
  IN  Result([filter EXCEPT !.ok = @ /\ decoded.ok], decoded.out)

Base64Update(filter, given) ==
  LET in == IF filter.dir = "Decode" /\ filter.column # 0
            THEN SelectSeq(given, LAMBDA c : c # LineFeed) ELSE given
      chunk == IF filter.dir = "Encode" THEN 3 ELSE 4
      all == filter.partial \o in
      s == SubSeq(all, 1, Len(all) - (Len(all) % chunk))
      kept == [filter EXCEPT !.partial = Rest(all, chunk)]
  IN  IF s = <<>> \/ in = <<>> THEN Result(kept, <<>>)
      ELSE IF filter.dir = "Encode" THEN Base64Encode(kept, s) ELSE Base64Decode(kept, s)

Base64Final(filter) ==
  IF filter.dir = "Encode" THEN Base64Encode(filter, filter.partial)
  ELSE Base64Decode(filter, filter.partial)

-----------------------------------------------------------------------------
UpdateOf(filter, in) == IF filter.as = "Hex" THEN HexUpdate(filter, in) ELSE Base64Update(filter, in)
FinalOf(filter) == IF filter.as = "Hex" THEN HexFinal(filter) ELSE Base64Final(filter)

\* process(): all at once.
Process(filter, in) ==
  LET first == UpdateOf(Clear(filter.as, filter.dir, filter.column), in)
      last == FinalOf(first.f)
  IN  [ok |-> last.f.ok, out |-> IF last.f.ok THEN first.out \o last.out ELSE <<>>]

Alphabet == IF f.dir = "Encode" THEN Bytes ELSE Digits

\* clear(), at any time.
clear ==
  /\ f' = Clear(f.as, f.dir, f.column)
  /\ fed' = <<>> /\ out' = <<>> /\ done' = FALSE

Update ==
  /\ ~done
  /\ \E n \in 1..3 : \E in \in [1..n -> Alphabet] :
       /\ Len(fed) + n <= MaxLength
       /\ f' = UpdateOf(f, in).f
       /\ out' = out \o UpdateOf(f, in).out
       /\ fed' = fed \o in
  /\ UNCHANGED done

Final ==
  /\ ~done
  /\ f' = FinalOf(f).f
  /\ out' = out \o FinalOf(f).out
  /\ done' = TRUE
  /\ UNCHANGED fed

Init ==
  /\ \E as \in {"Hex", "Base64"}, dir \in {"Encode", "Decode"}, column \in Columns :
       (as = "Hex" => column = 0) /\ f = Clear(as, dir, column)
  /\ fed = <<>> /\ out = <<>> /\ done = FALSE
Next == clear \/ Update \/ Final

-----------------------------------------------------------------------------
\* Padding, which belongs to the end, is nowhere else.
PaddedAtEnd == \A k \in DOMAIN fed : fed[k] = Padding => \A j \in k..Len(fed) : fed[j] \in {Padding, LineFeed}

(* What went in in chunks comes out as if it had gone in at once, and fails  *)
(* if it would have failed; and what was encoded is decoded to what it was.  *)
(* (Hex decodes only if no chunk has ended within a byte.)                   *)
ChunksDoNotMatter ==
  done /\ PaddedAtEnd /\ ~(f.as = "Hex" /\ f.partial # <<>>) =>
    LET once == Process(f, fed)
    IN  /\ f.ok = once.ok
        /\ f.ok => out = once.out
        /\ f.dir = "Encode" =>
             Process([f EXCEPT !.dir = "Decode"], out) = [ok |-> TRUE, out |-> fed]

(* The same without the exception, which does not hold: once a chunk has     *)
(* ended within a byte, final() fails.                                       *)
HexInChunks == done /\ f.as = "Hex" => f.ok = Process(f, fed).ok
=============================================================================
