--------------------------- MODULE MCSampleFormat ---------------------------
(***************************************************************************)
(* Files for SampleFormat, with bytes of two bits and 32 for 256 in the    *)
(* numbers of the header: a short goes to 1023, a uint32_t to 1048575.     *)
(***************************************************************************)
EXTENDS SampleFormat

Whole == [wave |-> TRUE, fmt |-> TRUE, data |-> TRUE]

\* A header whose sizes agree but for the field named wrong.
MCFile(riff, big, m, len, c, r, b, wrong, size) ==
  LET off(field) == IF wrong = field THEN 1 ELSE 0 IN
  [codec |-> "wav", riff |-> riff, big |-> big,
   wave |-> m.wave, fmt |-> m.fmt, data |-> m.data,
   fmt_length |-> len, format_type |-> 1 + off("type"), channels |-> c,
   rate |-> r, avg |-> ((r * c * b) % Int32) \div ByteBits + off("avg"),
   align |-> (c * b) \div ByteBits + off("align"), bits |-> b,
   data_size |-> 24 + off("data"), size |-> size]

\* At most one wrong marker; rates whose product with the others wraps; zero
\* channels, rates and bits; samples of half a byte and of one to five bytes;
\* format chunks that are too short, of the known lengths, as long as the
\* buffer and longer; files that end early; numbers with either end first.
MCWavFiles ==
  {MCFile(riff, big, m, len, c, r, b, wrong, size) :
     riff \in {"RIFF", "RIFX", "other"}, big \in BOOLEAN,
     m \in {Whole} \cup {[Whole EXCEPT ![k] = FALSE] : k \in DOMAIN Whole},
     len \in {15, 16, 40, 64, 65}, c \in {0, 1, 2}, r \in {0, 11, 100000},
     b \in {0, 1, 2, 4, 6}, wrong \in {"none", "type", "avg", "align", "data"},
     size \in {30, 80}}
    \cup
  {MCFile(riff, FALSE, Whole, len, c, 11, b, "none", 80) :
     riff \in {"RIFF", "RIFX"}, len \in {16, 18}, c \in {1, 2}, b \in {8, 10}}

MCFlacFile(c, b) ==
  [MCFile("other", FALSE, Whole, 16, c, 11, b, "none", 80) EXCEPT !.codec = "flac"]

MCFiles == MCWavFiles \cup {MCFlacFile(c, b) : c \in {1, 2}, b \in {2, 3, 4, 6}}

\* Silence, and the loudest and softest values of a sample.
MCValues(n) == {-Half(n), -1, 0, 1, Half(n) - 1}

MCStereoFlac == {MCFlacFile(2, 4)}
=============================================================================
