---------------------------- MODULE BridgeProofs ----------------------------
(***************************************************************************)
(* What becomes of play_file and of the program around it.  The first part *)
(* is about play_file alone: that it gives back what it acquired, and in   *)
(* the right order, for every file, wherever it fails.  IInv says what may *)
(* be alive at each call: the parts of an object go together with the      *)
(* pointer to it.  The second part takes this to the program of Bridge,    *)
(* and adds what its log holds and what may have crashed it.  The third is *)
(* about what the program stores: the numbers and the strings of the       *)
(* command line, and the list of the cards with theirs.                    *)
(***************************************************************************)
EXTENDS Bridge, FiniteSetTheorems, TLAPS

Labels ==
  {"guess", "stream_open", "decoder_open", "player_open", "play",
   "player_release", "decoder_release", "stream_free", "returned", "crashed"}

TypeOK ==
  /\ pc \in Labels
  /\ alive \subseteq Resources
  /\ decoder \in BOOLEAN
  /\ player \in BOOLEAN

\* A stream that is there is named, and has a buffer.
StreamHeld ==
  /\ alive \cap StreamParts # {} => {"buffer", "name"} \subseteq alive
  /\ pc \in {"decoder_open", "player_open", "play"} => {"buffer", "name"} \subseteq alive
  /\ pc = "returned" => alive \cap StreamParts = {}

\* The parts of a decoder are there together with the pointer to it, unless
\* the program has ended before that was set, and only in a stream.
DecoderHeld ==
  /\ decoder => {"struct decoder", "dest buffer"} \subseteq alive
  /\ alive \cap DecoderParts # {} =>
       (decoder \/ pc = "crashed") /\ {"buffer", "name"} \subseteq alive
  /\ "native decoder" \in alive => format = "flac"
  /\ pc \in {"player_open", "play"} => decoder
  /\ pc \in {"guess", "stream_open", "decoder_open", "stream_free", "returned"}
       => ~decoder

HandleHeld ==
  "pcm handle" \in alive => decoder /\ pc \in {"play", "player_release", "crashed"}

IInv == TypeOK /\ StreamHeld /\ DecoderHeld /\ HandleHeld
-----------------------------------------------------------------------------
LEMMA PartlySome ==
  ASSUME NEW a, NEW b, NEW c, NEW got
  PROVE  /\ got \in Partly(<<a, b>>) => got \subseteq {a, b}
         /\ got \in Partly(<<a, b, c>>) => got \subseteq {a, b, c}
BY DEF Partly

\* What a decoder consists of is what its release function releases.
LEMMA DecoderIsReleased ==
  /\ \A got \in Partly(DecoderOrder) : got \subseteq DecoderRelease
  /\ {DecoderOrder[i] : i \in DOMAIN DecoderOrder} = DecoderRelease
<1>1. CASE format = "flac"
  <2> DEFINE order == <<"struct decoder", "native decoder", "dest buffer">>
  <2>1. /\ DecoderOrder = order
        /\ DecoderRelease = {"struct decoder", "native decoder", "dest buffer"}
    BY <1>1 DEF DecoderOrder, DecoderRelease, DecoderParts
  <2>2. /\ DOMAIN order = {1, 2, 3}
        /\ order[1] = "struct decoder" /\ order[2] = "native decoder"
        /\ order[3] = "dest buffer"
    OBVIOUS
  <2>3. {order[i] : i \in DOMAIN order} = DecoderRelease
    <3> HIDE DEF order
    <3>1. QED
      BY <2>1, <2>2
  <2>4. \A got \in Partly(order) : got \subseteq DecoderRelease
    BY <2>1, PartlySome
  <2>5. QED
    BY <2>1, <2>3, <2>4
<1>2. CASE format # "flac"
  <2> DEFINE order == <<"struct decoder", "dest buffer">>
  <2>1. /\ DecoderOrder = order
        /\ DecoderRelease = {"struct decoder", "dest buffer"}
    BY <1>2 DEF DecoderOrder, DecoderRelease
  <2>2. /\ DOMAIN order = {1, 2}
        /\ order[1] = "struct decoder" /\ order[2] = "dest buffer"
    OBVIOUS
  <2>3. {order[i] : i \in DOMAIN order} = DecoderRelease
    <3> HIDE DEF order
    <3>1. QED
      BY <2>1, <2>2
  <2>4. \A got \in Partly(order) : got \subseteq DecoderRelease
    BY <2>1, PartlySome
  <2>5. QED
    BY <2>1, <2>3, <2>4
<1>3. QED
  BY <1>1, <1>2

LEMMA InitInvariant == Init => IInv
BY DEF Init, IInv, TypeOK, Labels, Resources, StreamHeld, DecoderHeld, HandleHeld

LEMMA GuessKeeps == ASSUME IInv, pcm_guess_format PROVE IInv'
BY DEF IInv, TypeOK, Labels, Resources, StreamHeld, DecoderHeld, HandleHeld,
       pcm_guess_format, Succeed, Fail, DecoderParts, StreamParts

LEMMA StreamOpenKeeps == ASSUME IInv, io_rf_stream_open_file PROVE IInv'
<1>1. pc = "stream_open" /\ UNCHANGED <<format, ext, decoder, player>>
  BY DEF io_rf_stream_open_file
<1>2. CASE Succeed("decoder_open", alive \cup StreamParts)
  BY <1>1, <1>2
     DEF IInv, TypeOK, Labels, Resources, StreamHeld, DecoderHeld, HandleHeld,
         Succeed, DecoderParts, StreamParts
<1>3. CASE \E got \in Partly(<<"fd", "buffer">>) : Fail(alive \cup (got \ StreamUndo))
  <2>1. Fail(alive)
    <3>1. PICK got \in Partly(<<"fd", "buffer">>) : Fail(alive \cup (got \ StreamUndo))
      BY <1>3
    <3>2. got \ StreamUndo = {}
      BY PartlySome DEF StreamUndo
    <3>3. QED
      BY <3>1, <3>2
  <2>2. QED
    BY <1>1, <2>1
       DEF IInv, TypeOK, Labels, Resources, StreamHeld, DecoderHeld, HandleHeld,
           Fail, DecoderParts, StreamParts
<1>4. QED
  BY <1>2, <1>3 DEF io_rf_stream_open_file

LEMMA DecoderOpenKeeps == ASSUME IInv, pcm_decoder_open PROVE IInv'
<1>1. pc = "decoder_open" /\ UNCHANGED <<format, ext, player>>
  BY DEF pcm_decoder_open
<1>2. PICK got \in Partly(DecoderOrder) :
        \E left \in IF HeaderReader \in got THEN MaybeRead(alive) ELSE {alive} :
          \/ /\ got = DecoderRelease
             /\ Succeed("player_open", left \cup got)
             /\ decoder' = TRUE
          \/ /\ Fail(left \cup (got \ DecoderRelease))
             /\ UNCHANGED decoder
          \/ /\ pc' = "crashed" /\ alive' = left \cup got
             /\ UNCHANGED decoder
  BY DecoderIsReleased DEF pcm_decoder_open, EndsProgram
<1>3. PICK left :
        /\ left \in {alive, alive \ {"fd"}}
        /\ \/ /\ Succeed("player_open", left \cup DecoderRelease)
              /\ decoder' = TRUE
           \/ Fail(left) /\ UNCHANGED decoder
           \/ pc' = "crashed" /\ alive' = left \cup got /\ UNCHANGED decoder
  <2>1. got \ DecoderRelease = {}
    BY DecoderIsReleased
  <2>2. QED
    BY <1>2, <2>1 DEF MaybeRead
<1>4. CASE Succeed("player_open", left \cup DecoderRelease) /\ decoder' = TRUE
  BY <1>1, <1>3, <1>4
     DEF IInv, TypeOK, Labels, Resources, StreamHeld, DecoderHeld, HandleHeld,
         Succeed, DecoderParts, StreamParts, DecoderRelease
<1>5. CASE Fail(left) /\ UNCHANGED decoder
  BY <1>1, <1>3, <1>5
     DEF IInv, TypeOK, Labels, Resources, StreamHeld, DecoderHeld, HandleHeld,
         Fail, DecoderParts, StreamParts
<1>6. CASE pc' = "crashed" /\ alive' = left \cup got /\ UNCHANGED decoder
  <2>1. got \subseteq DecoderRelease
    BY DecoderIsReleased
  <2>2. got \subseteq DecoderParts /\ ("native decoder" \in got => format = "flac")
    BY <2>1 DEF DecoderRelease, DecoderParts
  <2>3. QED
    BY <1>1, <1>3, <1>6, <2>2
       DEF IInv, TypeOK, Labels, Resources, StreamHeld, DecoderHeld, HandleHeld,
           DecoderParts, StreamParts
<1>7. QED
  BY <1>3, <1>4, <1>5, <1>6

LEMMA PlayerOpenKeeps == ASSUME IInv, player_open PROVE IInv'
<1>1. pc = "player_open" /\ UNCHANGED <<format, ext, decoder>>
  BY DEF player_open
<1>2. PICK left \in {alive, alive \ {"fd"}}, got \in SUBSET Kept :
        /\ player' \in BOOLEAN
        /\ \/ Fail(left \cup got)
           \/ Succeed("play", left \cup Kept \cup {"pcm handle"})
           \/ pc' = "crashed" /\ alive' = left \cup Kept \cup {"pcm handle"}
  <2>1. ASSUME NEW got \in Partly(<<"output", "struct player">>)
        PROVE  got \in SUBSET Kept
    BY PartlySome DEF Kept
  <2>2. QED
    BY <2>1 DEF player_open, MaybeRead, EndsProgram, IInv, TypeOK
<1>3. QED
  BY <1>1, <1>2
     DEF IInv, TypeOK, Labels, Resources, StreamHeld, DecoderHeld, HandleHeld,
         Succeed, Fail, DecoderParts, StreamParts, Kept

LEMMA PlayKeeps == ASSUME IInv, play PROVE IInv'
BY DEF IInv, TypeOK, Labels, Resources, StreamHeld, DecoderHeld, HandleHeld,
       play, MaybeRead, Succeed, Fail, EndsProgram, DecoderParts, StreamParts

LEMMA PlayerReleaseKeeps == ASSUME IInv, player_release PROVE IInv'
BY DEF IInv, TypeOK, Labels, Resources, StreamHeld, DecoderHeld, HandleHeld,
       player_release, HandleRelease, DecoderParts, StreamParts

LEMMA DecoderReleaseKeeps == ASSUME IInv, pcm_decoder_decode_release PROVE IInv'
<1>1. CASE decoder
  BY <1>1
     DEF IInv, TypeOK, Labels, Resources, StreamHeld, DecoderHeld, HandleHeld,
         pcm_decoder_decode_release, DecoderRelease, DecoderParts, StreamParts
<1>2. CASE ~decoder
  BY <1>2
     DEF IInv, TypeOK, Labels, Resources, StreamHeld, DecoderHeld, HandleHeld,
         pcm_decoder_decode_release, DecoderParts, StreamParts
<1>3. QED
  BY <1>1, <1>2

LEMMA StreamFreeKeeps == ASSUME IInv, io_rf_stream_free PROVE IInv'
BY DEF IInv, TypeOK, Labels, Resources, StreamHeld, DecoderHeld, HandleHeld,
       io_rf_stream_free, DecoderParts, StreamParts

LEMMA StepKeeps == ASSUME IInv, [Next]_vars PROVE IInv'
<1>1. CASE UNCHANGED vars
  BY <1>1
     DEF IInv, TypeOK, StreamHeld, DecoderHeld, HandleHeld, vars
<1>2. QED
  BY <1>1, GuessKeeps, StreamOpenKeeps, DecoderOpenKeeps, PlayerOpenKeeps, PlayKeeps,
     PlayerReleaseKeeps, DecoderReleaseKeeps, StreamFreeKeeps
     DEF Next, play_file, Done

\* What is alive at each call of play_file (main.c:108-165).
THEOREM Invariance == Spec => []IInv
<1>1. Init => IInv
  BY InitInvariant
<1>2. IInv /\ [Next]_vars => IInv'
  BY StepKeeps
<1>3. QED
  BY <1>1, <1>2, PTL DEF Spec

\* play_file returns with nothing but the struct player and ALSA's output in
\* its hands, whichever of its calls failed (player.c:547 and 595-604).
THEOREM NothingIsLeftOver == Spec => []NothingIsLeft
<1>1. IInv => NothingIsLeft
  BY DEF IInv, TypeOK, Resources, StreamHeld, DecoderHeld, HandleHeld, NothingIsLeft,
         DecoderParts, StreamParts, Kept
<1>2. QED
  BY <1>1, Invariance, PTL

\* An open handle has a whole decoder behind it, and that a stream with its
\* buffer, at every call and in every order of failures.
THEOREM UsersAreFirst == Spec => []UsersGoFirst
<1>1. IInv => UsersGoFirst
  BY DEF IInv, StreamHeld, DecoderHeld, HandleHeld, UsersGoFirst, DecoderParts
<1>2. QED
  BY <1>1, Invariance, PTL
-----------------------------------------------------------------------------
(***************************************************************************)
(* The program.                                                            *)
(***************************************************************************)

Opens == {"guess", "stream_open", "decoder_open", "player_open"}

OddHere == odd \cap ({"header", "long period"} \cup Remainder) # {}

\* Nothing has failed before the release functions; without a failed open
\* they have what they release; and play_file ends the program only after a
\* failed open or with something odd.
FailedFirst ==
  /\ failed \in Opens \cup {"none", "play"}
  /\ pc \in Opens \cup {"play"} => failed = "none"
  /\ pc = "play" => "pcm handle" \in alive
  /\ pc = "player_release" /\ failed \notin Opens => decoder /\ "pcm handle" \in alive
  /\ pc = "decoder_release" /\ failed \notin Opens => decoder
  /\ pc = "crashed" => failed \in Opens \/ (failed = "none" /\ OddHere)

LEMMA PlayFileFailsFirst == ASSUME IInv, FailedFirst, play_file PROVE FailedFirst'
<1>1. CASE pcm_guess_format
  BY <1>1 DEF FailedFirst, Opens, pcm_guess_format, Succeed, Fail
<1>2. CASE io_rf_stream_open_file
  BY <1>2 DEF FailedFirst, Opens, io_rf_stream_open_file, Succeed, Fail
<1>3. CASE pcm_decoder_open
  <2>1. /\ pc = "decoder_open" /\ UNCHANGED <<format, odd>>
        /\ \/ pc' = "player_open" /\ UNCHANGED failed
           \/ pc' = "player_release" /\ failed' = pc
           \/ /\ pc' = "crashed" /\ UNCHANGED failed
              /\ odd \cap ({"header"} \cup Remainder) # {}
    BY <1>3 DEF pcm_decoder_open, Succeed, Fail, EndsProgram
  <2>2. QED
    BY <2>1 DEF FailedFirst, Opens, OddHere, Remainder
<1>4. CASE player_open
  <2>1. /\ pc = "player_open" /\ UNCHANGED <<format, odd>>
        /\ \/ pc' = "play" /\ UNCHANGED failed /\ "pcm handle" \in alive'
           \/ pc' = "player_release" /\ failed' = pc
           \/ /\ pc' = "crashed" /\ UNCHANGED failed
              /\ odd \cap ({"long period"} \cup Remainder) # {}
    BY <1>4 DEF player_open, Succeed, Fail, EndsProgram
  <2>2. QED
    BY <2>1 DEF FailedFirst, Opens, OddHere, Remainder
<1>5. CASE play
  <2>1. /\ pc = "play" /\ UNCHANGED <<format, odd, decoder>>
        /\ \/ /\ pc' = "player_release" /\ failed' \in {failed, pc}
              /\ ("pcm handle" \in alive => "pcm handle" \in alive')
           \/ pc' = "crashed" /\ UNCHANGED failed /\ odd \cap Remainder # {}
    BY <1>5 DEF play, MaybeRead, Succeed, Fail, EndsProgram
  <2>2. QED
    BY <2>1 DEF FailedFirst, Opens, OddHere, Remainder, IInv, DecoderHeld
<1>6. CASE player_release
  BY <1>6 DEF FailedFirst, Opens, IInv, HandleHeld, player_release, HandleRelease
<1>7. CASE pcm_decoder_decode_release
  BY <1>7 DEF FailedFirst, Opens, IInv, HandleHeld, pcm_decoder_decode_release
<1>8. CASE io_rf_stream_free
  BY <1>8 DEF FailedFirst, Opens, io_rf_stream_free
<1>9. QED
  BY <1>1, <1>2, <1>3, <1>4, <1>5, <1>6, <1>7, <1>8 DEF play_file

\* What is never freed stays, and is all there once there is a player.
LEMMA PlayerKeepsOutput ==
  ASSUME IInv, play_file
  PROVE  /\ Kept \subseteq alive => Kept \subseteq alive'
         /\ player' /\ ~player => Kept \subseteq alive'
<1>1. CASE pcm_guess_format \/ io_rf_stream_open_file
  <2>1. UNCHANGED player
    BY <1>1 DEF pcm_guess_format, io_rf_stream_open_file
  <2>2. alive \subseteq alive'
    BY <1>1 DEF pcm_guess_format, io_rf_stream_open_file, Succeed, Fail
  <2>3. QED
    BY <2>1, <2>2
<1>2. CASE pcm_decoder_open
  <2>1. UNCHANGED player
    BY <1>2 DEF pcm_decoder_open
  <2>2. alive \ {"fd"} \subseteq alive'
    BY <1>2 DEF pcm_decoder_open, MaybeRead, Succeed, Fail, EndsProgram
  <2>3. QED
    BY <2>1, <2>2 DEF Kept
<1>3. CASE player_open
  <2>1. alive \ {"fd"} \subseteq alive'
    BY <1>3 DEF player_open, MaybeRead, Succeed, Fail, EndsProgram
  <2>2. UNCHANGED player \/ Kept \subseteq alive'
    BY <1>3 DEF player_open, MaybeRead, Succeed, Fail, EndsProgram
  <2>3. Kept \subseteq alive => Kept \subseteq alive'
    BY <2>1 DEF Kept
  <2>4. QED
    BY <2>2, <2>3
<1>4. CASE play
  <2>1. UNCHANGED player
    BY <1>4 DEF play
  <2>2. alive \ {"fd"} \subseteq alive'
    BY <1>4 DEF play, MaybeRead, Succeed, Fail, EndsProgram
  <2>3. QED
    BY <2>1, <2>2 DEF Kept
<1>5. CASE player_release \/ pcm_decoder_decode_release \/ io_rf_stream_free
  <2>1. UNCHANGED player \/ ~player'
    BY <1>5 DEF player_release, pcm_decoder_decode_release, io_rf_stream_free
  <2>2. alive \cap Kept \subseteq alive'
    BY <1>5
       DEF player_release, HandleRelease, pcm_decoder_decode_release, DecoderRelease,
           DecoderParts, io_rf_stream_free, StreamParts, Kept
  <2>3. QED
    BY <2>1, <2>2
<1>6. QED
  BY <1>1, <1>2, <1>3, <1>4, <1>5 DEF play_file

LEMMA PlayFileKeeps == ASSUME IInv, play_file PROVE IInv'
BY GuessKeeps, StreamOpenKeeps, DecoderOpenKeeps, PlayerOpenKeeps, PlayKeeps,
   PlayerReleaseKeeps, DecoderReleaseKeeps, StreamFreeKeeps DEF play_file
-----------------------------------------------------------------------------
\* A card that is printed has all its strings, unless memory was short.
CardsKnown ==
  /\ shortages \in Nat
  /\ cards_pc = "ctl_close" /\ cards[index] = "good" =>
       held = Cards!Fields \/ shortages > 0
  /\ cards_pc = "returned" /\ info /\ cards_error = "none" =>
       held = Cards!Fields \/ shortages > 0
  /\ cards_pc = "crashed" => shortages > 0

LEMMA SameCardinality == \A S : Cards!Cardinality(S) = Cardinality(S)
BY DEF Cards!Cardinality, Cardinality

LEMMA FieldsFinite == IsFiniteSet(Cards!Fields)
<1> DEFINE F == ((({} \cup {"hardware_id"}) \cup {"long_name"}) \cup {"driver_name"})
<1>1. IsFiniteSet(F)
  BY FS_EmptySet, FS_AddElement
<1>2. IsFiniteSet((F \cup {"mixer_name"}) \cup {"components"})
  <2> HIDE DEF F
  <2>1. QED
    BY <1>1, FS_AddElement
<1>3. Cards!Fields = (F \cup {"mixer_name"}) \cup {"components"}
  BY DEF Cards!Fields
<1>4. QED
  BY <1>2, <1>3

LEMMA FieldsAreFinite ==
  ASSUME NEW got \in SUBSET Cards!Fields
  PROVE  /\ Cardinality(Cards!Fields \ got) \in Nat
         /\ Cardinality(Cards!Fields \ got) = 0 => got = Cards!Fields
<1>1. IsFiniteSet(Cards!Fields)
  BY FieldsFinite
<1>2. IsFiniteSet(Cards!Fields \ got)
  BY <1>1, FS_Subset
<1>3. QED
  BY <1>2, FS_CardinalityType, FS_EmptySet

LEMMA ListKeeps == ASSUME CardsKnown, Cards!Step PROVE CardsKnown'
<1>1. CASE Cards!soundc_get_next_info
  BY <1>1 DEF CardsKnown, Cards!soundc_get_next_info, Cards!Shortage, Cards!Return
<1>2. CASE Cards!snd_card_next
  BY <1>2 DEF CardsKnown, Cards!snd_card_next, Cards!Return, Cards!struct
<1>3. CASE Cards!open_and_fetch_sound_card_details
  <2>1. \/ cards_pc' \in {"next_info", "fetch"} /\ UNCHANGED shortages
        \/ /\ cards_pc' = "returned" /\ cards_error' = "enomem"
           /\ shortages' = shortages + 1
    BY <1>3
       DEF Cards!open_and_fetch_sound_card_details, Cards!Shortage, Cards!Opened,
           Cards!Return
  <2>2. QED
    BY <2>1 DEF CardsKnown
<1>4. CASE Cards!fetch_sound_card_details
  <2>1. cards_pc' = "ctl_close" /\ UNCHANGED <<cards, index>>
    BY <1>4 DEF Cards!fetch_sound_card_details
  <2>2. CASE cards[index] = "no info" /\ UNCHANGED shortages
    BY <2>1, <2>2 DEF CardsKnown
  <2>3. ASSUME NEW got \in SUBSET Cards!Fields, held' = got,
               Cards!Shortage(Cards!Cardinality(Cards!Fields \ got))
        PROVE  CardsKnown'
    <3>1. shortages' = shortages + Cardinality(Cards!Fields \ got)
      BY <2>3, SameCardinality DEF Cards!Shortage
    <3>2. shortages' \in Nat /\ (got = Cards!Fields \/ shortages' > 0)
      BY <3>1, FieldsAreFinite DEF CardsKnown
    <3>3. QED
      BY <2>1, <2>3, <3>2 DEF CardsKnown
  <2>4. QED
    BY <1>4, <2>2, <2>3 DEF Cards!fetch_sound_card_details
<1>5. CASE Cards!snd_ctl_close
  BY <1>5
     DEF CardsKnown, Cards!snd_ctl_close, Cards!Opened, Cards!Return, Cards!struct
<1>6. CASE Cards!Header
  <2>1. UNCHANGED <<cards_pc, cards, index, info, held, cards_error, shortages>>
    BY <1>6 DEF Cards!Header, Cards!struct
  <2>2. QED
    BY <2>1 DEF CardsKnown
<1>7. CASE Cards!PrintCard
  BY <1>7 DEF CardsKnown, Cards!PrintCard, Cards!struct, Cards!Fields
<1>8. CASE Cards!Return_list_sound_cards
  BY <1>8 DEF CardsKnown, Cards!Return_list_sound_cards, Cards!struct
<1>9. QED
  BY <1>1, <1>2, <1>3, <1>4, <1>5, <1>6, <1>7, <1>8 DEF Cards!Step
-----------------------------------------------------------------------------
(***************************************************************************)
(* The log: which of its functions can put a verbose line on the terminal, *)
(* where none of them puts a dump.                                         *)
(***************************************************************************)
Lines == {"verbose", "info", "error", "complaint"}

Kinds == Lines \cup {"dump"}

LogType ==
  [verbose : BOOLEAN, open : BOOLEAN,
   stdout : SUBSET Kinds, stderr : SUBSET Kinds, file : SUBSET Kinds]

\* A log that is at least as verbose as l was, and has no dump more.
Undumped(k, l) ==
  /\ l.verbose => k.verbose
  /\ "dump" \in k.stdout => "dump" \in l.stdout

\* A log that is as open as l was, and has no more verbose lines on stdout.
Quieter(k, l) ==
  /\ k \in LogType
  /\ k.open = l.open
  /\ "verbose" \in k.stdout => "verbose" \in l.stdout
  /\ Undumped(k, l)

LEMMA PutQuietly ==
  ASSUME NEW l \in LogType, NEW stream \in {"stdout", "stderr", "file"},
         NEW line \in Lines
  PROVE  /\ Main!Put(l, stream, line) \in LogType
         /\ Main!Put(l, stream, line).open = l.open
         /\ Undumped(Main!Put(l, stream, line), l)
         /\ stream # "stdout" \/ line # "verbose" => Quieter(Main!Put(l, stream, line), l)
<1>1. CASE stream = "stdout"
  BY <1>1 DEF Main!Put, LogType, Quieter, Undumped, Kinds, Lines
<1>2. CASE stream = "stderr"
  BY <1>2 DEF Main!Put, LogType, Quieter, Undumped, Kinds, Lines
<1>3. CASE stream = "file"
  BY <1>3 DEF Main!Put, LogType, Quieter, Undumped, Kinds, Lines
<1>4. QED
  BY <1>1, <1>2, <1>3

LEMMA FileLines ==
  ASSUME NEW l \in LogType, NEW line \in Lines, NEW k \in Main!print_st(l, line)
  PROVE  Quieter(k, l)
<1>1. "complaint" \in Lines
  BY DEF Lines
<1>2. QED
  BY <1>1, PutQuietly DEF Main!print_st

LEMMA VerboseLines ==
  ASSUME NEW l \in LogType, NEW k \in Main!log_verbose(l)
  PROVE  /\ k \in LogType /\ k.open = l.open /\ Undumped(k, l)
         /\ l.open => Quieter(k, l)
<1>1. "verbose" \in Lines
  BY DEF Lines
<1>2. CASE ~l.verbose
  <2>1. k = l
    BY <1>2 DEF Main!log_verbose
  <2>2. QED
    BY <2>1 DEF Quieter, Undumped
<1>3. CASE l.verbose /\ l.open
  <2>1. k \in Main!print_st(l, "verbose")
    BY <1>3 DEF Main!log_verbose
  <2>2. Quieter(k, l)
    BY <1>1, <2>1, FileLines
  <2>3. QED
    BY <2>2 DEF Quieter
<1>4. CASE l.verbose /\ ~l.open
  <2>1. k = Main!Put(l, "stdout", "verbose")
    BY <1>4 DEF Main!log_verbose
  <2>2. QED
    BY <1>1, <1>4, <2>1, PutQuietly
<1>5. QED
  BY <1>2, <1>3, <1>4 DEF LogType

LEMMA OtherLines ==
  ASSUME NEW l \in LogType, NEW k \in Main!log_info(l) \cup Main!log_error(l)
  PROVE  Quieter(k, l)
<1>1. PICK stream \in {"stdout", "stderr"}, line \in {"info", "error"} :
        k \in Main!PrintAnd(l, stream, line)
  BY DEF Main!log_info, Main!log_error
<1>2. line \in Lines /\ line # "verbose"
  BY <1>1 DEF Lines
<1>3. Quieter(Main!Put(l, stream, line), l)
  BY <1>1, <1>2, PutQuietly
<1>4. CASE l.open
  <2>1. k \in Main!print_st(Main!Put(l, stream, line), line)
    BY <1>1, <1>4 DEF Main!PrintAnd
  <2>2. Quieter(k, Main!Put(l, stream, line))
    BY <1>2, <1>3, <2>1, FileLines DEF Quieter
  <2>3. QED
    BY <1>3, <2>2 DEF Quieter, Undumped
<1>5. CASE ~l.open
  BY <1>1, <1>3, <1>5 DEF Main!PrintAnd
<1>6. QED
  BY <1>4, <1>5

LEMMA AnyLines ==
  ASSUME NEW l \in LogType, NEW k \in Main!Lines(l)
  PROVE  /\ k \in LogType /\ k.open = l.open /\ Undumped(k, l)
         /\ l.open => Quieter(k, l)
<1> DEFINE infos == {l} \cup Main!log_info(l)
           errors == infos \cup UNION {Main!log_error(j) : j \in infos}
<1>1. \A j \in infos : Quieter(j, l)
  BY OtherLines DEF Quieter, Undumped
<1>2. \A j \in errors : Quieter(j, l)
  <2>1. ASSUME NEW i \in infos, NEW j \in Main!log_error(i)
        PROVE  Quieter(j, l)
    <3>1. Quieter(i, l)
      BY <1>1
    <3>2. Quieter(j, i)
      BY <3>1, OtherLines DEF Quieter, Undumped
    <3>3. QED
      BY <3>1, <3>2 DEF Quieter, Undumped
  <2>2. QED
    BY <1>1, <2>1
<1>3. k \in errors \cup UNION {Main!log_verbose(j) : j \in errors}
  BY DEF Main!Lines
<1>4. ASSUME NEW j \in errors, k \in Main!log_verbose(j)
      PROVE  /\ k \in LogType /\ k.open = l.open /\ Undumped(k, l)
             /\ l.open => Quieter(k, l)
  <2>1. Quieter(j, l)
    BY <1>2
  <2>2. k \in LogType /\ k.open = j.open /\ Undumped(k, j) /\ (j.open => Quieter(k, j))
    BY <1>4, <2>1, VerboseLines DEF Quieter, Undumped
  <2>3. QED
    BY <2>1, <2>2 DEF Quieter, Undumped
<1>5. CASE k \in errors
  BY <1>2, <1>5 DEF Quieter, Undumped
<1>6. QED
  <2>1. CASE k \in errors
    BY <1>5, <2>1
  <2>2. CASE k \notin errors
    <3> HIDE DEF errors
    <3>1. PICK j \in errors : k \in Main!log_verbose(j)
      BY <1>3, <2>2
    <3>2. QED
      BY <1>4, <3>1, Zenon
  <2>3. QED
    BY <2>1, <2>2
-----------------------------------------------------------------------------
Given == Main!Options \cup Main!NumberOptions

LogGiven == \E i \in DOMAIN given : given[i][1] = "log"

WritableGiven == \E i \in DOMAIN given : given[i] = <<"log", "writable">>

\* The log file is open from the option that names it to the end, and
\* nothing verbose is said before main has all the options.
LogKnown ==
  /\ log \in LogType
  /\ given \in Seq(Given)
  /\ log.open => LogGiven
  /\ WritableGiven /\ main_pc \in {"parse", "play_file", "list_sound_cards", "done", "failed"}
       => log.open
  /\ WritableGiven \/ main_pc = "parse" => "verbose" \notin log.stdout

\* What a device that has been described leaves.
DumpKnown == "dump" \in log.stdout => log.verbose /\ Kept \subseteq alive

\* Nothing but a line of another kind, or its setting, changes the log, but
\* for the option --log-output.
LEMMA KeywordLogs ==
  ASSUME NEW o \in Main!Options, Main!Keyword(o)
  PROVE  \/ o[1] = "log" /\ Main!log_open_output_st(o[2])
         \/ /\ o[1] # "log" /\ main_pc' \in {"parse", "failed"}
            /\ \/ UNCHANGED log
               \/ log' \in Main!log_error(log)
               \/ log' = [log EXCEPT !.verbose = TRUE]
<1>1. CASE o[1] = "log"
  BY <1>1 DEF Main!Keyword
<1>2. CASE o[1] = "file"
  BY <1>2 DEF Main!Keyword, Main!SAVE_ARG_STRDUP, Main!Accept, Main!Refuse
<1>3. CASE o[1] = "hardware"
  BY <1>3
     DEF Main!Keyword, Main!SAVE_ARG_STRDUP, Main!Accept, Main!Refuse, Main!RefuseLoudly
<1>4. CASE o[1] = "format"
  BY <1>4 DEF Main!Keyword, Main!Accept, Main!Refuse, Main!RefuseLoudly
<1>5. CASE o[1] = "verbose"
  BY <1>5 DEF Main!Keyword, Main!Accept
<1>6. o[1] \in {"file", "hardware", "format", "log", "verbose"}
  <2>1. CASE o = <<"verbose", Main!None>>
    BY <2>1
  <2>2. CASE o # <<"verbose", Main!None>>
    <3>1. \/ o \in {"file"} \X Extensions
          \/ o \in {"hardware"} \X {"card", "no card"}
          \/ o \in {"format"} \X {"wav", "flac", "ogg"}
          \/ o \in {"log"} \X {"writable", "unwritable"}
      BY <2>2 DEF Main!Options
    <3>2. QED
      BY <3>1
  <2>3. QED
    BY <2>1, <2>2
<1>7. QED
  BY <1>1, <1>2, <1>3, <1>4, <1>5, <1>6

\* An option more.
LEMMA OneMore ==
  ASSUME given \in Seq(Given), NEW o \in Given, given' = Append(given, o)
  PROVE  /\ given' \in Seq(Given)
         /\ LogGiven' <=> LogGiven \/ o[1] = "log"
         /\ WritableGiven' <=> WritableGiven \/ o = <<"log", "writable">>
<1>1. /\ given' \in Seq(Given)
      /\ DOMAIN given' = DOMAIN given \cup {Len(given) + 1}
      /\ given'[Len(given) + 1] = o
      /\ \A i \in DOMAIN given : given'[i] = given[i]
  OBVIOUS
<1>2. QED
  BY <1>1 DEF LogGiven, WritableGiven

LEMMA OptionKeepsLog ==
  ASSUME LogKnown, NEW o \in Main!Options, given' = Append(given, o),
         main_pc = "parse", Main!Keyword(o)
  PROVE  LogKnown' /\ Undumped(log', log)
<1>1. o \in Given
  BY DEF Given
<1>2. /\ given' \in Seq(Given)
      /\ LogGiven' <=> LogGiven \/ o[1] = "log"
      /\ WritableGiven' <=> WritableGiven \/ o = <<"log", "writable">>
  BY <1>1, OneMore DEF LogKnown
<1>3. CASE o[1] # "log"
  <2>1. o # <<"log", "writable">>
    BY <1>3
  <2>2. Quieter(log', log)
    <3>1. CASE log' = [log EXCEPT !.verbose = TRUE]
      BY <3>1 DEF LogKnown, LogType, Quieter, Undumped
    <3>2. CASE UNCHANGED log
      BY <3>2 DEF LogKnown, Quieter, Undumped
    <3>3. CASE log' \in Main!log_error(log)
      BY <3>3, OtherLines DEF LogKnown
    <3>4. QED
      BY <1>3, <3>1, <3>2, <3>3, KeywordLogs
  <2>3. QED
    BY <1>2, <1>3, <2>1, <2>2 DEF LogKnown, Quieter, Undumped
<1>4. CASE o[1] = "log"
  <2>1. Main!log_open_output_st(o[2])
    BY <1>4, KeywordLogs
  <2>2. CASE log.open
    BY <1>2, <1>4, <2>1, <2>2 DEF LogKnown, Undumped, Main!log_open_output_st
  <2>3. CASE ~log.open /\ o[2] = "writable"
    <3>1. log' = [log EXCEPT !.open = TRUE]
      BY <2>1, <2>3 DEF Main!log_open_output_st
    <3>2. /\ log' \in LogType /\ log'.open /\ log'.stdout = log.stdout
          /\ log'.verbose = log.verbose
      BY <3>1 DEF LogKnown, LogType
    <3>3. QED
      BY <1>2, <1>4, <3>2 DEF LogKnown, Undumped
  <2>4. CASE ~log.open /\ o[2] # "writable"
    <3>1. log' = Main!Put(log, "stderr", "complaint")
      BY <2>1, <2>4 DEF Main!log_open_output_st
    <3>2. Quieter(log', log)
      BY <3>1, PutQuietly DEF LogKnown, Lines
    <3>3. o # <<"log", "writable">>
      BY <2>4
    <3>4. QED
      BY <1>2, <1>4, <3>2, <3>3 DEF LogKnown, Quieter, Undumped
  <2>5. QED
    BY <2>2, <2>3, <2>4
<1>5. QED
  BY <1>3, <1>4

LEMMA NumberKeepsLog ==
  ASSUME LogKnown, NEW o \in Main!NumberOptions, given' = Append(given, o),
         main_pc = "parse", Main!SAVE_ARG_UL(o[1], o[2])
  PROVE  LogKnown' /\ Undumped(log', log)
<1>1. o \in Given /\ o[1] # "log" /\ o # <<"log", "writable">>
  BY DEF Given, Main!NumberOptions
<1>2. /\ given' \in Seq(Given)
      /\ LogGiven' <=> LogGiven
      /\ WritableGiven' <=> WritableGiven
  BY <1>1, OneMore DEF LogKnown
<1>3. main_pc' \in {"parse", "failed"} /\ (UNCHANGED log \/ log' \in Main!log_error(log))
  BY DEF Main!SAVE_ARG_UL, Main!Accept, Main!Refuse
<1>4. Quieter(log', log)
  BY <1>3, OtherLines DEF LogKnown, Quieter, Undumped
<1>5. QED
  BY <1>2, <1>3, <1>4 DEF LogKnown, Quieter, Undumped

LEMMA OptionsKeepLog ==
  ASSUME LogKnown, Options PROVE LogKnown' /\ Undumped(log', log)
<1>1. CASE Main!argp_parser
  BY <1>1, OptionKeepsLog, NumberKeepsLog DEF Main!argp_parser
<1>2. CASE Main!ArgumentLeft
  <2>1. main_pc = "parse" /\ main_pc' = "exited" /\ UNCHANGED given
    BY <1>2 DEF Main!ArgumentLeft
  <2>2. Quieter(log', log)
    BY <1>2, OtherLines DEF LogKnown, Main!ArgumentLeft
  <2>3. QED
    BY <2>1, <2>2 DEF LogKnown, Quieter, Undumped, LogGiven, WritableGiven
<1>3. CASE Main!argp_exit
  BY <1>3 DEF LogKnown, Undumped, LogGiven, WritableGiven, Main!argp_exit
<1>4. QED
  BY <1>1, <1>2, <1>3 DEF Options

LEMMA StartKeepsLog ==
  ASSUME LogKnown, Main!Start PROVE LogKnown' /\ Undumped(log', log)
<1>1. /\ main_pc = "parse" /\ main_pc' \in {"play_file", "list_sound_cards"}
      /\ UNCHANGED given
  BY DEF Main!Start
<1>2. PICK l \in Main!log_verbose(log) : log' \in Main!log_verbose(l)
  BY DEF Main!Start, Main!log_full_system_information
<1>3. l \in LogType /\ l.open = log.open /\ Undumped(l, log) /\ (log.open => Quieter(l, log))
  BY <1>2, VerboseLines DEF LogKnown
<1>4. log' \in LogType /\ log'.open = l.open /\ Undumped(log', l)
      /\ (l.open => Quieter(log', l))
  BY <1>2, <1>3, VerboseLines
<1>5. QED
  BY <1>1, <1>3, <1>4 DEF LogKnown, Quieter, Undumped, LogGiven, WritableGiven

LEMMA ReturnKeepsLog ==
  ASSUME LogKnown, NEW bad, Main!Return(bad) PROVE LogKnown' /\ Undumped(log', log)
<1>1. /\ main_pc \in {"play_file", "list_sound_cards"} /\ main_pc' \in {"failed", "done"}
      /\ UNCHANGED given
  BY DEF Main!Return
<1>2. log' \in LogType /\ log'.open = log.open /\ Undumped(log', log)
      /\ (log.open => Quieter(log', log))
  BY AnyLines DEF LogKnown, Main!Return
<1>3. QED
  BY <1>1, <1>2 DEF LogKnown, Quieter, Undumped, LogGiven, WritableGiven

LEMMA FinishKeepsLog ==
  ASSUME LogKnown, Main!Finish PROVE LogKnown' /\ Undumped(log', log)
<1>1. main_pc \in {"done", "failed"} /\ main_pc' = "returned" /\ UNCHANGED given
  BY DEF Main!Finish
<1>2. PICK l \in Main!log_verbose(log) : log' = [l EXCEPT !.open = FALSE]
  BY DEF Main!Finish, Main!log_free
<1>3. l \in LogType /\ Undumped(l, log) /\ (log.open => Quieter(l, log))
  BY <1>2, VerboseLines DEF LogKnown
<1>4. log' \in LogType /\ ~log'.open /\ log'.stdout = l.stdout
      /\ log'.verbose = l.verbose
  BY <1>2, <1>3 DEF LogType
<1>5. QED
  BY <1>1, <1>3, <1>4 DEF LogKnown, Quieter, Undumped, LogGiven, WritableGiven
\* ALSA's dump is not verbose of the log, and needs a player that was not there.
LEMMA DumpKeepsLog ==
  ASSUME LogKnown, DumpKnown, IInv, play_file, snd_pcm_dump, UNCHANGED <<main_pc, given>>
  PROVE  LogKnown' /\ DumpKnown'
<1>1. CASE log.verbose /\ player' /\ ~player
  <2>1. log' = [log EXCEPT !.stdout = @ \cup {"dump"}]
    BY <1>1 DEF snd_pcm_dump, Main!Put
  <2>2. /\ log' \in LogType /\ log'.open = log.open /\ log'.verbose = log.verbose
        /\ log'.stdout = log.stdout \cup {"dump"}
    BY <2>1 DEF LogKnown, LogType, Kinds
  <2>3. LogKnown'
    BY <2>2 DEF LogKnown, LogGiven, WritableGiven
  <2>4. Kept \subseteq alive'
    BY <1>1, PlayerKeepsOutput
  <2>5. QED
    BY <1>1, <2>2, <2>3, <2>4 DEF DumpKnown
<1>2. CASE UNCHANGED log
  BY <1>2, PlayerKeepsOutput DEF LogKnown, LogGiven, WritableGiven, DumpKnown, Kept
<1>3. QED
  BY <1>1, <1>2 DEF snd_pcm_dump
-----------------------------------------------------------------------------
(***************************************************************************)
(* All of it.                                                              *)
(***************************************************************************)

\* Until main has the options it has called nothing.
Unstarted == main_pc = "parse" => pc = "guess" /\ alive = {}

ProgramInv ==
  /\ IInv
  /\ FailedFirst
  /\ CardsKnown
  /\ LogKnown
  /\ DumpKnown
  /\ Unstarted
  /\ CrashesHaveACause

LEMMA ProgramInit == BridgeInit => ProgramInv
<1> SUFFICES ASSUME BridgeInit PROVE ProgramInv
  OBVIOUS
<1> USE DEF BridgeInit
<1>1. IInv
  BY DEF PlayFileInit, IInv, TypeOK, Labels, Resources, StreamHeld, DecoderHeld,
         HandleHeld
<1>2. FailedFirst /\ Unstarted
  BY DEF PlayFileInit, FailedFirst, Opens, Unstarted
<1>3. CardsKnown
  BY DEF Cards!Init, CardsKnown
<1>4. LogKnown /\ DumpKnown
  BY DEF Main!Init, LogKnown, DumpKnown, LogType, WritableGiven
<1>5. CrashesHaveACause
  BY DEF Main!Init, CrashesHaveACause
<1>6. QED
  BY <1>1, <1>2, <1>3, <1>4, <1>5 DEF ProgramInv

\* The options: the only crash is the assertion that the log is not open.
LEMMA SecondLogCrashes ==
  ASSUME LogKnown, Options, main_pc' = "crashed"
  PROVE  Cardinality({i \in DOMAIN given' : given'[i][1] = "log"}) > 1
<1>1. PICK o \in Main!Options : given' = Append(given, o) /\ Main!Keyword(o)
  BY DEF Options, Main!argp_parser, Main!SAVE_ARG_UL, Main!Accept, Main!Refuse,
         Main!ArgumentLeft, Main!argp_exit
<1>2. o[1] = "log" /\ log.open
  BY <1>1, KeywordLogs DEF Main!log_open_output_st, Main!Accept
<1>3. PICK i \in DOMAIN given : given[i][1] = "log"
  BY <1>2 DEF LogKnown, LogGiven
<1> DEFINE n == Len(given) + 1
           logs == {j \in DOMAIN given' : given'[j][1] = "log"}
<1>4. /\ n \in Nat /\ DOMAIN given' = 1 .. n
      /\ i \in 1 .. n /\ i # n
      /\ given'[i] = given[i] /\ given'[n] = o
  BY <1>1, <1>3 DEF LogKnown, Given
<1>5. {i, n} \subseteq logs /\ logs \subseteq 1 .. n
  BY <1>2, <1>3, <1>4
<1> HIDE DEF n, logs
<1>6. IsFiniteSet(logs)
  <2>1. IsFiniteSet(1 .. n)
    BY <1>4, FS_Interval
  <2>2. QED
    BY <1>5, <2>1, FS_Subset
<1>7. IsFiniteSet({i}) /\ Cardinality({i}) = 1
  BY FS_Singleton
<1>8. Cardinality({i} \cup {n}) = 2
  <2>1. n \notin {i}
    BY <1>4
  <2>2. Cardinality({i} \cup {n}) = Cardinality({i}) + 1
    BY <1>7, <2>1, FS_AddElement
  <2>3. QED
    BY <1>7, <2>2
<1>9. Cardinality({i} \cup {n}) <= Cardinality(logs)
  BY <1>5, <1>6, FS_Subset
<1>10. Cardinality(logs) > 1
  BY <1>6, <1>8, <1>9, FS_CardinalityType
<1>11. QED
  BY <1>10, Zenon DEF logs

LEMMA OptionsKeep == ASSUME ProgramInv, Options PROVE ProgramInv'
<1>1. main_pc = "parse" /\ UNCHANGED <<vars, cardsVars>>
  BY DEF Options, Main!argp_parser, Main!ArgumentLeft, Main!argp_exit
<1>2. IInv' /\ FailedFirst' /\ Unstarted'
  BY <1>1
     DEF ProgramInv, IInv, TypeOK, StreamHeld, DecoderHeld, HandleHeld, FailedFirst,
         OddHere, Remainder, Unstarted, vars
<1>3. CardsKnown'
  BY <1>1 DEF ProgramInv, CardsKnown, cardsVars
<1>4. LogKnown' /\ DumpKnown'
  BY <1>1, OptionsKeepLog DEF ProgramInv, DumpKnown, Undumped, vars
<1>5. CrashesHaveACause'
  BY SecondLogCrashes DEF ProgramInv, CrashesHaveACause
<1>6. QED
  BY <1>2, <1>3, <1>4, <1>5 DEF ProgramInv

LEMMA StartFileKeeps == ASSUME ProgramInv, StartFile PROVE ProgramInv'
<1>1. /\ main_pc = "parse" /\ main_pc' \in {"play_file", "list_sound_cards"}
      /\ UNCHANGED <<pc, alive, decoder, player, failed, cardsVars>>
      /\ alive = {} /\ pc = "guess"
  BY DEF StartFile, Main!Start, ProgramInv, Unstarted
<1>2. IInv' /\ FailedFirst' /\ Unstarted'
  BY <1>1
     DEF ProgramInv, IInv, TypeOK, StreamHeld, DecoderHeld, HandleHeld, FailedFirst,
         Unstarted
<1>3. CardsKnown'
  BY <1>1 DEF ProgramInv, CardsKnown, cardsVars
<1>4. LogKnown' /\ DumpKnown'
  BY <1>1, StartKeepsLog DEF ProgramInv, StartFile, DumpKnown, Undumped
<1>5. CrashesHaveACause'
  BY <1>1 DEF CrashesHaveACause
<1>6. QED
  BY <1>2, <1>3, <1>4, <1>5 DEF ProgramInv

LEMMA StartListKeeps == ASSUME ProgramInv, StartList PROVE ProgramInv'
<1>1. /\ main_pc' \in {"play_file", "list_sound_cards"} /\ UNCHANGED vars
      /\ cards_pc' = "next_info" /\ UNCHANGED shortages
  BY DEF StartList, Main!Start, Cards!list_sound_cards
<1>2. IInv' /\ FailedFirst' /\ Unstarted'
  BY <1>1
     DEF ProgramInv, IInv, TypeOK, StreamHeld, DecoderHeld, HandleHeld, FailedFirst,
         OddHere, Remainder, Unstarted, vars
<1>3. CardsKnown'
  BY <1>1 DEF ProgramInv, CardsKnown
<1>4. LogKnown' /\ DumpKnown'
  BY <1>1, StartKeepsLog DEF ProgramInv, StartList, DumpKnown, Undumped, vars
<1>5. CrashesHaveACause'
  BY <1>1 DEF CrashesHaveACause
<1>6. QED
  BY <1>2, <1>3, <1>4, <1>5 DEF ProgramInv

LEMMA PlayFileStepKeeps == ASSUME ProgramInv, PlayFileStep PROVE ProgramInv'
<1>1. /\ main_pc = "play_file" /\ play_file /\ snd_pcm_dump
      /\ UNCHANGED <<main_pc, given, cardsVars>>
  BY DEF PlayFileStep
<1>2. IInv' /\ FailedFirst'
  BY <1>1, PlayFileKeeps, PlayFileFailsFirst DEF ProgramInv
<1>3. CardsKnown'
  BY <1>1 DEF ProgramInv, CardsKnown, cardsVars
<1>4. LogKnown' /\ DumpKnown'
  BY <1>1, DumpKeepsLog DEF ProgramInv
<1>5. Unstarted' /\ CrashesHaveACause'
  BY <1>1 DEF Unstarted, CrashesHaveACause
<1>6. QED
  BY <1>2, <1>3, <1>4, <1>5 DEF ProgramInv

LEMMA ListStepKeeps == ASSUME ProgramInv, ListStep PROVE ProgramInv'
<1>1. main_pc = "list_sound_cards" /\ Cards!Step /\ UNCHANGED <<vars, mainVars>>
  BY DEF ListStep
<1>2. IInv' /\ FailedFirst'
  BY <1>1
     DEF ProgramInv, IInv, TypeOK, StreamHeld, DecoderHeld, HandleHeld, FailedFirst,
         OddHere, Remainder, vars
<1>3. CardsKnown'
  BY <1>1, ListKeeps DEF ProgramInv
<1>4. LogKnown' /\ DumpKnown'
  BY <1>1
     DEF ProgramInv, LogKnown, LogGiven, WritableGiven, DumpKnown, mainVars, vars
<1>5. Unstarted' /\ CrashesHaveACause'
  BY <1>1 DEF Unstarted, CrashesHaveACause, mainVars
<1>6. QED
  BY <1>2, <1>3, <1>4, <1>5 DEF ProgramInv

\* The steps of main after the options, which leave what they called alone.
LEMMA MainKeeps ==
  ASSUME ProgramInv, Return \/ Crash \/ Finish PROVE ProgramInv'
<1>1. main_pc' # "parse" /\ UNCHANGED <<vars, cardsVars>>
  BY DEF Return, Crash, Finish, Main!Return, Main!Crash, Main!Finish
<1>2. IInv' /\ FailedFirst' /\ Unstarted'
  BY <1>1
     DEF ProgramInv, IInv, TypeOK, StreamHeld, DecoderHeld, HandleHeld, FailedFirst,
         OddHere, Remainder, Unstarted, vars
<1>3. CardsKnown'
  BY <1>1 DEF ProgramInv, CardsKnown, cardsVars
<1>4. LogKnown' /\ DumpKnown'
  <2>1. CASE Return
    BY <1>1, <2>1, ReturnKeepsLog DEF ProgramInv, Return, DumpKnown, Undumped, vars
  <2>2. CASE Crash
    BY <1>1, <2>2
       DEF ProgramInv, LogKnown, LogGiven, WritableGiven, DumpKnown, Crash, Main!Crash, vars
  <2>3. CASE Finish
    BY <1>1, <2>3, FinishKeepsLog DEF ProgramInv, Finish, DumpKnown, Undumped, vars
  <2>4. QED
    BY <2>1, <2>2, <2>3
<1>5. CrashesHaveACause'
  <2>1. CASE Return \/ Finish
    BY <2>1 DEF Return, Finish, Main!Return, Main!Finish, CrashesHaveACause
  <2>2. CASE Crash
    <3>1. \/ failed \in Opens
          \/ failed = "none" /\ OddHere
          \/ shortages > 0
      BY <2>2 DEF Crash, ProgramInv, FailedFirst, CardsKnown
    <3>2. QED
      BY <1>1, <3>1 DEF CrashesHaveACause, Opens, OddHere, Remainder, vars, cardsVars
  <2>3. QED
    BY <2>1, <2>2
<1>6. QED
  BY <1>2, <1>3, <1>4, <1>5 DEF ProgramInv

LEMMA ProgramKeeps == ASSUME ProgramInv, [BridgeNext]_bridgeVars PROVE ProgramInv'
<1>1. CASE UNCHANGED bridgeVars
  <2>1. UNCHANGED <<vars, mainVars, cardsVars>>
    BY <1>1 DEF bridgeVars
  <2>2. IInv' /\ FailedFirst' /\ Unstarted'
    BY <2>1
       DEF ProgramInv, IInv, TypeOK, StreamHeld, DecoderHeld, HandleHeld, FailedFirst,
           OddHere, Remainder, Unstarted, vars, mainVars
  <2>3. CardsKnown'
    BY <2>1 DEF ProgramInv, CardsKnown, cardsVars
  <2>4. LogKnown' /\ DumpKnown'
    BY <2>1
       DEF ProgramInv, LogKnown, LogGiven, WritableGiven, DumpKnown, mainVars, vars
  <2>5. CrashesHaveACause'
    BY <2>1 DEF ProgramInv, CrashesHaveACause, Remainder, vars, mainVars, cardsVars
  <2>6. QED
    BY <2>2, <2>3, <2>4, <2>5 DEF ProgramInv
<1>2. QED
  BY <1>1, OptionsKeep, StartFileKeeps, StartListKeeps, PlayFileStepKeeps, ListStepKeeps,
     MainKeeps DEF BridgeNext, Program

\* What is known of the program between any two of its steps (main.c:198-311).
THEOREM ProgramInvariance == BridgeSpec => []ProgramInv
<1>1. BridgeInit => ProgramInv
  BY ProgramInit
<1>2. ProgramInv /\ [BridgeNext]_bridgeVars => ProgramInv'
  BY ProgramKeeps
<1>3. QED
  BY <1>1, <1>2, PTL DEF BridgeSpec

\* Once a log file is given, and wherever on the command line, no line of the
\* log that is verbose is on the terminal, however many lines there are and
\* whether or not they can be written; a dump is there only of a device that a
\* verbose program has set up (main.c:365-369, log.c:107-123, player.c:584-586).
THEOREM OnlyDumpsStray == BridgeSpec => []OnlyDumpIsAstray
<1>1. ProgramInv => OnlyDumpIsAstray
  BY DEF ProgramInv, LogKnown, WritableGiven, DumpKnown, OnlyDumpIsAstray
<1>2. QED
  BY <1>1, ProgramInvariance, PTL

\* The program crashes only where CrashesHaveACause says, for any number of
\* options, cards and shortages; never because play failed, and never with a
\* file and a device that are not odd, unless an open failed (log.c:48,
\* player.c:173 and 180, main.c:161-162).
THEOREM EveryCrashHasACause == BridgeSpec => []CrashesHaveACause
<1>1. ProgramInv => CrashesHaveACause
  BY DEF ProgramInv
<1>2. QED
  BY <1>1, ProgramInvariance, PTL

\* What play_file promises of what it acquires holds of the program that
\* calls it (main.c:161-163).
THEOREM ProgramLeavesNothing == BridgeSpec => [](NothingIsLeft /\ UsersGoFirst)
<1>1. ProgramInv => NothingIsLeft
  BY DEF ProgramInv, IInv, TypeOK, Resources, StreamHeld, DecoderHeld, HandleHeld,
         NothingIsLeft, DecoderParts, StreamParts, Kept
<1>2. ProgramInv => UsersGoFirst
  BY DEF ProgramInv, IInv, StreamHeld, DecoderHeld, HandleHeld, UsersGoFirst, DecoderParts
<1>3. QED
  BY <1>1, <1>2, ProgramInvariance, PTL
-----------------------------------------------------------------------------
(***************************************************************************)
(* The values and the strings of the command line.                         *)
(***************************************************************************)
NumberKeys == {"buffer", "period", "count"}

StringKeys == {"file", "hardware"}

\* The option that counts is the last of its kind.
IsLast(i, places) == i \in places /\ \A j \in places : j <= i

NumbersKnown ==
  main_pc \in {"parse", "play_file", "list_sound_cards"} =>
    \A key \in NumberKeys :
      /\ config[key] = 0 <=> Main!Places(key) = {}
      /\ \A i \in DOMAIN given :
           IsLast(i, Main!Places(key)) =>
             config[key] \in {given[i][2], given[i][2] % Unsigned}

Copied == ({"file"} \X Extensions) \cup {<<"hardware", "card">>}

CopiedPlaces(key) == {i \in DOMAIN given : given[i] \in Copied /\ given[i][1] = key}

Replaced ==
  {i \in DOMAIN given :
     /\ given[i] \in Copied
     /\ \E j \in i + 1 .. Len(given) : given[j] \in Copied /\ given[j][1] = given[i][1]}

KeysHeld == {key \in StringKeys : config[key] # Main!None}

\* A string is held by the configuration or has been lost to a later one.
StringsKnown ==
  /\ strings = Cardinality(Replaced) + Cardinality(KeysHeld)
  /\ main_pc = "parse" =>
       \A key \in StringKeys :
         IF key \in KeysHeld THEN \E i \in DOMAIN given : IsLast(i, CopiedPlaces(key))
                             ELSE CopiedPlaces(key) = {}
  /\ main_pc = "returned" => KeysHeld = {}

ConfigKnown ==
  /\ DOMAIN config = NumberKeys \cup StringKeys \cup {"format"}
  /\ NumbersKnown
  /\ StringsKnown
-----------------------------------------------------------------------------
\* An option more, and where options are.
LEMMA Places ==
  ASSUME given \in Seq(Given), NEW o \in Given, given' = Append(given, o)
  PROVE  /\ Len(given) \in Nat /\ DOMAIN given = 1 .. Len(given)
         /\ Len(given') = Len(given) + 1 /\ DOMAIN given' = 1 .. Len(given) + 1
         /\ given'[Len(given) + 1] = o
         /\ \A i \in DOMAIN given : given'[i] = given[i]
OBVIOUS

LEMMA PlacesOfKey ==
  ASSUME given \in Seq(Given), NEW o \in Given, given' = Append(given, o), NEW key
  PROVE  Main!Places(key)' = IF o[1] = key THEN Main!Places(key) \cup {Len(given) + 1}
                                           ELSE Main!Places(key)
BY Places DEF Main!Places

LEMMA NoCopyMore ==
  ASSUME given \in Seq(Given), NEW o \in Given, given' = Append(given, o), o \notin Copied
  PROVE  /\ Replaced' = Replaced
         /\ \A key : CopiedPlaces(key)' = CopiedPlaces(key)
<1>1. \A key : CopiedPlaces(key)' = CopiedPlaces(key)
  BY Places DEF CopiedPlaces
<1>2. Replaced' = Replaced
  BY Places DEF Replaced
<1>3. QED
  BY <1>1, <1>2

\* A string that is copied replaces all of its key, which, but for the last,
\* had been replaced already.
LEMMA OneCopyMore ==
  ASSUME given \in Seq(Given), NEW o \in Given, given' = Append(given, o), o \in Copied
  PROVE  /\ \A key : CopiedPlaces(key)' = IF key = o[1]
                                          THEN CopiedPlaces(key) \cup {Len(given) + 1}
                                          ELSE CopiedPlaces(key)
         /\ Replaced' = Replaced \cup CopiedPlaces(o[1])
         /\ \A i : IsLast(i, CopiedPlaces(o[1])) =>
              i \notin Replaced /\ Replaced' = Replaced \cup {i}
<1> DEFINE n == Len(given) + 1
<1>1. /\ n \in Nat /\ DOMAIN given = 1 .. n - 1 /\ Len(given) = n - 1
      /\ Len(given') = n /\ DOMAIN given' = 1 .. n /\ given'[n] = o
      /\ \A i \in DOMAIN given : given'[i] = given[i]
  BY Places
<1> HIDE DEF n
<1>2. \A key : CopiedPlaces(key)' = IF key = o[1] THEN CopiedPlaces(key) \cup {n}
                                                  ELSE CopiedPlaces(key)
  BY <1>1 DEF CopiedPlaces
<1>3. Replaced' = Replaced \cup CopiedPlaces(o[1])
  <2>1. ASSUME NEW i \in Replaced'
        PROVE  i \in Replaced \cup CopiedPlaces(o[1])
    <3>1. /\ i \in 1 .. n /\ given'[i] \in Copied
          /\ \E j \in i + 1 .. n : given'[j] \in Copied /\ given'[j][1] = given'[i][1]
      BY <1>1 DEF Replaced
    <3>2. PICK j \in i + 1 .. n : given'[j] \in Copied /\ given'[j][1] = given'[i][1]
      BY <3>1
    <3>3. i \in 1 .. n - 1 /\ given'[i] = given[i]
      BY <1>1, <3>1, <3>2
    <3>4. CASE j = n
      BY <1>1, <3>1, <3>2, <3>3, <3>4 DEF CopiedPlaces
    <3>5. CASE j # n
      <4>1. j \in i + 1 .. n - 1 /\ given'[j] = given[j]
        BY <1>1, <3>1, <3>2, <3>5
      <4>2. QED
        BY <1>1, <3>1, <3>2, <3>3, <4>1 DEF Replaced
    <3>6. QED
      BY <3>4, <3>5
  <2>2. ASSUME NEW i \in Replaced
        PROVE  i \in Replaced'
    <3>1. /\ i \in 1 .. n - 1 /\ given[i] \in Copied
          /\ \E j \in i + 1 .. n - 1 : given[j] \in Copied /\ given[j][1] = given[i][1]
      BY <1>1 DEF Replaced
    <3>2. PICK j \in i + 1 .. n - 1 : given[j] \in Copied /\ given[j][1] = given[i][1]
      BY <3>1
    <3>3. j \in 1 .. n - 1 /\ j \in i + 1 .. n /\ given'[j] = given[j] /\ given'[i] = given[i]
      BY <1>1, <3>1, <3>2
    <3>4. QED
      BY <1>1, <3>1, <3>2, <3>3 DEF Replaced
  <2>3. ASSUME NEW i \in CopiedPlaces(o[1])
        PROVE  i \in Replaced'
    <3>1. i \in 1 .. n - 1 /\ given[i] \in Copied /\ given[i][1] = o[1]
      BY <1>1 DEF CopiedPlaces
    <3>2. n \in i + 1 .. n /\ given'[i] = given[i]
      BY <1>1, <3>1
    <3>3. QED
      BY <1>1, <3>1, <3>2 DEF Replaced
  <2>4. QED
    BY <2>1, <2>2, <2>3
<1>4. ASSUME NEW i, IsLast(i, CopiedPlaces(o[1]))
      PROVE  i \notin Replaced /\ Replaced' = Replaced \cup {i}
  <2>1. /\ i \in 1 .. n - 1 /\ given[i] \in Copied /\ given[i][1] = o[1]
        /\ \A j \in CopiedPlaces(o[1]) : j <= i
    BY <1>1, <1>4 DEF IsLast, CopiedPlaces
  <2>2. i \notin Replaced
    <3>1. SUFFICES ASSUME i \in Replaced PROVE FALSE
      OBVIOUS
    <3>2. PICK j \in i + 1 .. n - 1 : given[j] \in Copied /\ given[j][1] = given[i][1]
      BY <1>1, <3>1 DEF Replaced
    <3>3. j \in 1 .. n - 1 /\ j > i
      BY <1>1, <2>1, <3>2
    <3>4. j \in CopiedPlaces(o[1])
      BY <1>1, <2>1, <3>2, <3>3 DEF CopiedPlaces
    <3>5. QED
      BY <2>1, <3>3, <3>4
  <2>3. ASSUME NEW j \in CopiedPlaces(o[1]), j # i
        PROVE  j \in Replaced
    <3>1. j \in 1 .. n - 1 /\ given[j] \in Copied /\ given[j][1] = o[1] /\ j <= i
      BY <1>1, <2>1 DEF CopiedPlaces
    <3>2. i \in j + 1 .. n - 1
      BY <1>1, <2>1, <2>3, <3>1
    <3>3. QED
      BY <1>1, <2>1, <3>1, <3>2 DEF Replaced
  <2>4. i \in CopiedPlaces(o[1])
    BY <1>4 DEF IsLast
  <2>5. QED
    BY <1>3, <2>2, <2>3, <2>4
<1>5. QED
  BY <1>2, <1>3, <1>4 DEF n

LEMMA CountsAreNumbers ==
  ASSUME given \in Seq(Given)
  PROVE  /\ IsFiniteSet(Replaced) /\ Cardinality(Replaced) \in Nat
         /\ IsFiniteSet(KeysHeld) /\ Cardinality(KeysHeld) \in Nat
<1>1. IsFiniteSet(1 .. Len(given))
  BY FS_Interval
<1>2. Replaced \subseteq 1 .. Len(given)
  BY DEF Replaced
<1>3. IsFiniteSet(StringKeys)
  <2>1. IsFiniteSet({"file"})
    BY FS_Singleton
  <2>2. IsFiniteSet({"file"} \cup {"hardware"})
    BY <2>1, FS_AddElement
  <2>3. StringKeys = {"file"} \cup {"hardware"}
    BY DEF StringKeys
  <2>4. QED
    BY <2>2, <2>3
<1>4. KeysHeld \subseteq StringKeys
  BY DEF KeysHeld
<1>5. IsFiniteSet(Replaced) /\ IsFiniteSet(KeysHeld)
  BY <1>1, <1>2, <1>3, <1>4, FS_Subset
<1>6. QED
  BY <1>5, FS_CardinalityType

LEMMA AddOne ==
  ASSUME NEW S, IsFiniteSet(S), NEW e
  PROVE  Cardinality(S \cup {e}) = IF e \in S THEN Cardinality(S) ELSE Cardinality(S) + 1
BY FS_AddElement

LEMMA TakeOne ==
  ASSUME NEW S, IsFiniteSet(S), NEW e
  PROVE  Cardinality(S \ {e}) = IF e \in S THEN Cardinality(S) - 1 ELSE Cardinality(S)
BY FS_RemoveElement
-----------------------------------------------------------------------------
LEMMA PairOfItsParts == ASSUME NEW A, NEW B, NEW o \in A \X B PROVE o = <<o[1], o[2]>>
OBVIOUS

LEMMA CardOption ==
  ASSUME NEW o \in {"hardware"} \X {"card", "no card"}, o[2] = "card"
  PROVE  o = <<"hardware", "card">>
<1>1. o[1] = "hardware"
  OBVIOUS
<1>2. o = <<o[1], o[2]>>
  BY PairOfItsParts
<1>3. QED
  BY <1>1, <1>2

\* What an option that is not a number does to the configuration.
LEMMA KeywordConfigures ==
  ASSUME NEW o \in Main!Options, Main!Keyword(o)
  PROVE  /\ o[1] \notin NumberKeys
         /\ main_pc' \in {"parse", "failed", "crashed"}
         /\ \/ /\ o \in Copied /\ o[1] \in StringKeys /\ o[2] # Main!None
               /\ Main!SAVE_ARG_STRDUP(o[1], o[2])
            \/ /\ o \notin Copied /\ UNCHANGED strings
               /\ UNCHANGED config \/ config' = [config EXCEPT !.format = o[2]]
<1>1. CASE o \in {"file"} \X Extensions
  <2>1. o[1] = "file" /\ o[2] \in Extensions /\ o \in Copied
    BY <1>1 DEF Copied
  <2>2. Main!SAVE_ARG_STRDUP("file", o[2])
    BY <2>1 DEF Main!Keyword
  <2>3. main_pc' \in {"parse", "failed"}
    BY <2>2 DEF Main!SAVE_ARG_STRDUP, Main!Accept, Main!Refuse
  <2>4. o[2] # Main!None
    BY <2>1, PathAssumption
  <2>5. QED
    BY <2>1, <2>2, <2>3, <2>4 DEF NumberKeys, StringKeys
<1>2. CASE o \in {"hardware"} \X {"card", "no card"}
  <2>1. CASE o[2] = "card"
    <3>1. o[1] = "hardware" /\ o \in Copied
      <4>1. o = <<"hardware", "card">>
        BY <1>2, <2>1, CardOption
      <4>2. QED
        BY <4>1 DEF Copied
    <3>2. Main!SAVE_ARG_STRDUP("hardware", o[2])
      BY <2>1, <3>1 DEF Main!Keyword
    <3>3. main_pc' \in {"parse", "failed"}
      BY <3>2 DEF Main!SAVE_ARG_STRDUP, Main!Accept, Main!Refuse
    <3>4. QED
      BY <2>1, <3>1, <3>2, <3>3 DEF NumberKeys, StringKeys, Main!None
  <2>2. CASE o[2] = "no card"
    <3>1. o[1] = "hardware"
      BY <1>2
    <3>2. o \notin {"file"} \X Extensions /\ o # <<"hardware", "card">>
      <4>1. o \notin {"file"} \X Extensions
        BY <3>1
      <4>2. <<"hardware", "card">>[2] = "card"
        OBVIOUS
      <4>3. QED
        BY <2>2, <4>1, <4>2
    <3>3. o \notin Copied
      BY <3>2 DEF Copied
    <3>4. Main!RefuseLoudly
      BY <2>2, <3>1 DEF Main!Keyword
    <3>5. QED
      BY <3>1, <3>3, <3>4 DEF Main!RefuseLoudly, Main!Refuse, NumberKeys
  <2>3. QED
    BY <1>2, <2>1, <2>2
<1>3. CASE o \in {"format"} \X {"wav", "flac", "ogg"}
  <2>1. o[1] = "format" /\ o \notin Copied
    BY <1>3 DEF Copied
  <2>2. QED
    BY <2>1 DEF Main!Keyword, Main!RefuseLoudly, Main!Accept, Main!Refuse, NumberKeys
<1>4. CASE o \in {"log"} \X {"writable", "unwritable"}
  <2>1. o[1] = "log" /\ o \notin Copied
    BY <1>4 DEF Copied
  <2>2. Main!log_open_output_st(o[2])
    BY <2>1 DEF Main!Keyword
  <2>3. QED
    BY <2>1, <2>2 DEF Main!log_open_output_st, Main!Accept, NumberKeys
<1>5. CASE o = <<"verbose", Main!None>>
  <2>1. o[1] = "verbose" /\ o \notin Copied
    BY <1>5 DEF Copied
  <2>2. QED
    BY <2>1 DEF Main!Keyword, Main!Accept, NumberKeys
<1>6. QED
  BY <1>1, <1>2, <1>3, <1>4, <1>5 DEF Main!Options

\* An option that leaves the numbers alone.
LEMMA NumbersStay ==
  ASSUME given \in Seq(Given), NEW o \in Given, given' = Append(given, o),
         o[1] \notin NumberKeys, \A key \in NumberKeys : config'[key] = config[key],
         main_pc = "parse", NumbersKnown
  PROVE  NumbersKnown'
<1>1. ASSUME NEW key \in NumberKeys
      PROVE  /\ Main!Places(key)' = Main!Places(key)
             /\ \A i \in Main!Places(key) : i \in DOMAIN given /\ given'[i] = given[i]
  <2>1. o[1] # key
    BY <1>1
  <2>2. Main!Places(key)' = Main!Places(key)
    BY <2>1, PlacesOfKey
  <2>3. QED
    BY <2>2, Places DEF Main!Places
<1>2. ASSUME NEW key \in NumberKeys
      PROVE  /\ config'[key] = 0 <=> Main!Places(key)' = {}
             /\ \A i \in DOMAIN given' :
                  IsLast(i, Main!Places(key)') =>
                    config'[key] \in {given'[i][2], given'[i][2] % Unsigned}
  BY <1>1, <1>2 DEF NumbersKnown, IsLast
<1>3. QED
  BY <1>2 DEF NumbersKnown, IsLast

\* An option that has a string copied.
LEMMA StringCopied ==
  ASSUME given \in Seq(Given), NEW o \in Given, given' = Append(given, o),
         o \in Copied, o[1] \in StringKeys, o[2] # Main!None,
         main_pc = "parse", ConfigKnown, Main!SAVE_ARG_STRDUP(o[1], o[2])
  PROVE  StringsKnown'
<1> DEFINE key == o[1]
           lost == Cardinality(Replaced)
           kept == Cardinality(KeysHeld)
<1>1. /\ IsFiniteSet(Replaced) /\ lost \in Nat
      /\ IsFiniteSet(KeysHeld) /\ kept \in Nat
  BY CountsAreNumbers
<1>2. Cardinality(Replaced') = IF key \in KeysHeld THEN lost + 1 ELSE lost
  <2>1. CASE key \in KeysHeld
    <3>1. PICK i \in DOMAIN given : IsLast(i, CopiedPlaces(key))
      BY <2>1 DEF ConfigKnown, StringsKnown
    <3>2. i \notin Replaced /\ Replaced' = Replaced \cup {i}
      BY <3>1, OneCopyMore
    <3>3. QED
      BY <1>1, <2>1, <3>2, AddOne
  <2>2. CASE key \notin KeysHeld
    <3>1. CopiedPlaces(key) = {}
      BY <2>2 DEF ConfigKnown, StringsKnown
    <3>2. Replaced' = Replaced
      BY <3>1, OneCopyMore
    <3>3. QED
      BY <2>2, <3>2
  <2>3. QED
    BY <2>1, <2>2
<1>3. strings = lost + kept
  BY DEF ConfigKnown, StringsKnown
<1>4. CASE /\ main_pc' = "parse" /\ config' = [config EXCEPT ![key] = o[2]]
           /\ strings' = strings + 1
  <2>1. KeysHeld' = KeysHeld \cup {key}
    BY <1>4 DEF KeysHeld, ConfigKnown, StringKeys, Main!None
  <2>2. Cardinality(KeysHeld') = IF key \in KeysHeld THEN kept ELSE kept + 1
    BY <1>1, <2>1, AddOne
  <2>3. strings' = Cardinality(Replaced') + Cardinality(KeysHeld')
    <3> HIDE DEF lost, kept
    <3>1. QED
      BY <1>1, <1>2, <1>3, <1>4, <2>2
  <2>4. ASSUME NEW k \in StringKeys
        PROVE  IF k \in KeysHeld' THEN \E i \in DOMAIN given' : IsLast(i, CopiedPlaces(k)')
                                  ELSE CopiedPlaces(k)' = {}
    <3>1. CASE k = key
      <4> DEFINE n == Len(given) + 1
      <4>1. CopiedPlaces(k)' = CopiedPlaces(k) \cup {n}
        BY <3>1, OneCopyMore
      <4>2. n \in DOMAIN given' /\ CopiedPlaces(k) \subseteq 1 .. Len(given) /\ Len(given) \in Nat
        BY Places DEF CopiedPlaces
      <4>3. IsLast(n, CopiedPlaces(k)')
        BY <4>1, <4>2 DEF IsLast
      <4>4. QED
        BY <2>1, <3>1, <4>2, <4>3
    <3>2. CASE k # key
      <4>1. CopiedPlaces(k)' = CopiedPlaces(k)
        BY <3>2, OneCopyMore
      <4>2. k \in KeysHeld' <=> k \in KeysHeld
        BY <2>1, <3>2
      <4>3. IF k \in KeysHeld THEN \E i \in DOMAIN given : IsLast(i, CopiedPlaces(k))
                              ELSE CopiedPlaces(k) = {}
        BY DEF ConfigKnown, StringsKnown
      <4>4. \A i \in DOMAIN given : i \in DOMAIN given'
        BY Places
      <4>5. QED
        BY <4>1, <4>2, <4>3, <4>4
    <3>3. QED
      BY <3>1, <3>2
  <2>5. QED
    BY <1>4, <2>3, <2>4 DEF StringsKnown, IsLast
<1>5. CASE /\ main_pc' = "failed" /\ config' = [config EXCEPT ![key] = Main!None]
           /\ UNCHANGED strings
  <2>1. KeysHeld' = KeysHeld \ {key}
    BY <1>5 DEF KeysHeld, ConfigKnown, StringKeys, Main!None
  <2>2. Cardinality(KeysHeld') = IF key \in KeysHeld THEN kept - 1 ELSE kept
    BY <1>1, <2>1, TakeOne
  <2>3. strings' = Cardinality(Replaced') + Cardinality(KeysHeld')
    <3> HIDE DEF lost, kept
    <3>1. QED
      BY <1>1, <1>2, <1>3, <1>5, <2>2
  <2>4. QED
    BY <1>5, <2>3 DEF StringsKnown
<1>6. QED
  BY <1>4, <1>5 DEF Main!SAVE_ARG_STRDUP, Main!Accept, Main!Refuse

\* An option that leaves the strings alone.
LEMMA StringsStay ==
  ASSUME given \in Seq(Given), NEW o \in Given, given' = Append(given, o), o \notin Copied,
         \A key \in StringKeys : config'[key] = config[key], UNCHANGED strings,
         main_pc = "parse", main_pc' # "returned", StringsKnown
  PROVE  StringsKnown'
<1>1. KeysHeld' = KeysHeld
  BY DEF KeysHeld, Main!None
<1>2. /\ Replaced' = Replaced
      /\ \A key : CopiedPlaces(key)' = CopiedPlaces(key)
  BY NoCopyMore
<1>3. \A i \in DOMAIN given : i \in DOMAIN given'
  BY Places
<1>4. \A key \in StringKeys :
        IF key \in KeysHeld' THEN \E i \in DOMAIN given' : IsLast(i, CopiedPlaces(key)')
                             ELSE CopiedPlaces(key)' = {}
  BY <1>1, <1>2, <1>3 DEF StringsKnown
<1>5. QED
  BY <1>1, <1>2, <1>4 DEF StringsKnown, IsLast

LEMMA KeywordKeepsConfig ==
  ASSUME LogKnown, ConfigKnown, NEW o \in Main!Options, given' = Append(given, o),
         main_pc = "parse", Main!Keyword(o)
  PROVE  ConfigKnown'
<1>1. given \in Seq(Given) /\ o \in Given
  BY DEF LogKnown, Given
<1>2. o[1] \notin NumberKeys /\ main_pc' \in {"parse", "failed", "crashed"}
  BY KeywordConfigures
<1>3. CASE /\ o \in Copied /\ o[1] \in StringKeys /\ o[2] # Main!None
           /\ Main!SAVE_ARG_STRDUP(o[1], o[2])
  <2>1. config' \in {[config EXCEPT ![o[1]] = o[2]], [config EXCEPT ![o[1]] = Main!None]}
    BY <1>3 DEF Main!SAVE_ARG_STRDUP
  <2>2. /\ DOMAIN config' = DOMAIN config
        /\ \A key \in NumberKeys : config'[key] = config[key]
    BY <1>3, <2>1 DEF ConfigKnown, NumberKeys, StringKeys
  <2>3. NumbersKnown'
    BY <1>1, <1>2, <2>2, NumbersStay DEF ConfigKnown
  <2>4. StringsKnown'
    BY <1>1, <1>3, StringCopied
  <2>5. QED
    BY <2>2, <2>3, <2>4 DEF ConfigKnown, NumberKeys, StringKeys
<1>4. CASE /\ o \notin Copied /\ UNCHANGED strings
           /\ UNCHANGED config \/ config' = [config EXCEPT !.format = o[2]]
  <2>1. /\ DOMAIN config' = DOMAIN config
        /\ \A key \in NumberKeys \cup StringKeys : config'[key] = config[key]
    BY <1>4 DEF ConfigKnown, NumberKeys, StringKeys
  <2>2. NumbersKnown'
    BY <1>1, <1>2, <2>1, NumbersStay DEF ConfigKnown
  <2>3. StringsKnown'
    BY <1>1, <1>2, <1>4, <2>1, StringsStay DEF ConfigKnown
  <2>4. QED
    BY <2>1, <2>2, <2>3 DEF ConfigKnown, NumberKeys, StringKeys
<1>5. QED
  BY <1>3, <1>4, KeywordConfigures

LEMMA NumberKeepsConfig ==
  ASSUME LogKnown, ConfigKnown, NEW o \in Main!NumberOptions, given' = Append(given, o),
         main_pc = "parse", Main!SAVE_ARG_UL(o[1], o[2])
  PROVE  ConfigKnown'
<1> DEFINE cut == IF o[1] = "count" THEN o[2] % Unsigned ELSE o[2]
<1>1. given \in Seq(Given) /\ o \in Given
  BY DEF LogKnown, Given
<1>2. o[1] \in NumberKeys /\ o \notin Copied
  BY DEF Main!NumberOptions, NumberKeys, Copied
<1>3. /\ config' = [config EXCEPT ![o[1]] = cut] /\ UNCHANGED strings
      /\ main_pc' = IF cut = 0 THEN "failed" ELSE "parse"
  BY DEF Main!SAVE_ARG_UL, Main!Accept, Main!Refuse
<1>4. cut \in {o[2], o[2] % Unsigned}
  OBVIOUS
<1> HIDE DEF cut
<1>5. /\ DOMAIN config' = DOMAIN config /\ config'[o[1]] = cut
      /\ \A key \in NumberKeys \cup StringKeys : key # o[1] => config'[key] = config[key]
  BY <1>2, <1>3 DEF ConfigKnown
<1>6. \A key \in StringKeys : config'[key] = config[key]
  BY <1>2, <1>5 DEF NumberKeys, StringKeys
<1>7. NumbersKnown'
  <2> SUFFICES ASSUME main_pc' = "parse", NEW key \in NumberKeys
               PROVE  /\ config'[key] = 0 <=> Main!Places(key)' = {}
                      /\ \A i \in DOMAIN given' :
                           IsLast(i, Main!Places(key)') =>
                             config'[key] \in {given'[i][2], given'[i][2] % Unsigned}
    BY <1>3 DEF NumbersKnown, IsLast
  <2>1. CASE key = o[1]
    <3> DEFINE n == Len(given) + 1
    <3>1. Main!Places(key)' = Main!Places(key) \cup {n}
      BY <1>1, <2>1, PlacesOfKey
    <3>2. /\ n \in DOMAIN given' /\ given'[n] = o /\ n \in Nat
          /\ DOMAIN given' = 1 .. n
      BY <1>1, Places
    <3> HIDE DEF n
    <3>3. \A i \in DOMAIN given' : IsLast(i, Main!Places(key)') => i = n
      <4>1. SUFFICES ASSUME NEW i \in DOMAIN given', IsLast(i, Main!Places(key)')
                     PROVE  i = n
        OBVIOUS
      <4>2. n \in Main!Places(key)'
        BY <3>1
      <4>3. n <= i
        BY <4>1, <4>2 DEF IsLast
      <4>4. QED
        BY <3>2, <4>1, <4>3
    <3>4. config'[key] = cut /\ cut # 0
      BY <1>3, <1>5, <2>1
    <3>5. QED
      BY <1>4, <3>1, <3>2, <3>3, <3>4
  <2>2. CASE key # o[1]
    <3>1. Main!Places(key)' = Main!Places(key)
      BY <1>1, <2>2, PlacesOfKey
    <3>2. \A i \in Main!Places(key) : i \in DOMAIN given /\ given'[i] = given[i]
      BY <1>1, Places DEF Main!Places
    <3>3. config'[key] = config[key]
      BY <1>5, <2>2
    <3>4. QED
      BY <3>1, <3>2, <3>3 DEF ConfigKnown, NumbersKnown, IsLast
  <2>3. QED
    BY <2>1, <2>2
<1>8. StringsKnown'
  BY <1>1, <1>2, <1>3, <1>6, StringsStay DEF ConfigKnown
<1>9. QED
  BY <1>5, <1>7, <1>8 DEF ConfigKnown, NumberKeys, StringKeys

\* The steps that leave the configuration and the options as they are.
LEMMA ConfigStays ==
  ASSUME ConfigKnown, UNCHANGED <<given, config, strings>>,
         main_pc' \in {"parse", "play_file", "list_sound_cards"} =>
           main_pc \in {"parse", "play_file", "list_sound_cards"},
         main_pc' = "parse" => main_pc = "parse",
         main_pc' = "returned" => main_pc = "returned"
  PROVE  ConfigKnown'
<1>1. \A key : Main!Places(key)' = Main!Places(key)
  BY DEF Main!Places
<1>2. NumbersKnown'
  BY <1>1 DEF ConfigKnown, NumbersKnown, IsLast
<1>3. /\ KeysHeld' = KeysHeld /\ Replaced' = Replaced
      /\ \A key : CopiedPlaces(key)' = CopiedPlaces(key)
  BY DEF KeysHeld, Replaced, CopiedPlaces, Main!None
<1>4. StringsKnown'
  BY <1>3 DEF ConfigKnown, StringsKnown, IsLast
<1>5. QED
  BY <1>2, <1>4 DEF ConfigKnown, NumberKeys, StringKeys

LEMMA SameMainCardinality == \A S : Main!Cardinality(S) = Cardinality(S)
BY DEF Main!Cardinality, Cardinality

LEMMA FinishKeepsConfig == ASSUME LogKnown, ConfigKnown, Main!Finish PROVE ConfigKnown'
<1>1. /\ main_pc' = "returned" /\ UNCHANGED given
      /\ strings' = strings - Main!Cardinality({key \in Main!Freed : config[key] # Main!None})
      /\ config' = [config EXCEPT !.file = Main!None, !.hardware = Main!None]
  BY DEF Main!Finish
<1>2. {key \in Main!Freed : config[key] # Main!None} = KeysHeld
  BY DEF Main!Freed, KeysHeld, StringKeys
<1>3. strings' = strings - Cardinality(KeysHeld)
  BY <1>1, <1>2, SameMainCardinality
<1>4. /\ DOMAIN config' = DOMAIN config
      /\ \A key \in StringKeys : config'[key] = Main!None
  BY <1>1 DEF ConfigKnown, NumberKeys, StringKeys
<1>5. KeysHeld' = {}
  BY <1>4 DEF KeysHeld, Main!None
<1>6. Replaced' = Replaced
  BY <1>1 DEF Replaced
<1>7. Cardinality(KeysHeld') = 0
  BY <1>5, FS_EmptySet
<1>8. strings' = Cardinality(Replaced') + Cardinality(KeysHeld')
  <2>1. Cardinality(Replaced) \in Nat /\ Cardinality(KeysHeld) \in Nat
    BY CountsAreNumbers DEF LogKnown
  <2>2. QED
    BY <1>3, <1>6, <1>7, <2>1 DEF ConfigKnown, StringsKnown
<1>9. QED
  BY <1>1, <1>4, <1>5, <1>8 DEF ConfigKnown, NumbersKnown, StringsKnown, NumberKeys,
                               StringKeys

LEMMA ConfigInit == ASSUME Main!Init PROVE ConfigKnown
<1>1. /\ main_pc = "parse" /\ given = <<>> /\ strings = 0
      /\ config = [file |-> Main!None, hardware |-> Main!None, format |-> Main!None,
                   buffer |-> 0, period |-> 0, count |-> 0]
  BY DEF Main!Init
<1>2. Replaced = {} /\ KeysHeld = {} /\ \A key : CopiedPlaces(key) = {} /\ Main!Places(key) = {}
  BY <1>1 DEF Replaced, KeysHeld, StringKeys, CopiedPlaces, Main!Places
<1>3. NumbersKnown
  BY <1>1, <1>2 DEF NumbersKnown, NumberKeys
<1>4. StringsKnown
  <2>1. Cardinality(Replaced) = 0 /\ Cardinality(KeysHeld) = 0
    BY <1>2, FS_EmptySet
  <2>2. QED
    BY <1>1, <1>2, <2>1 DEF StringsKnown
<1>5. QED
  BY <1>1, <1>3, <1>4 DEF ConfigKnown, NumberKeys, StringKeys
-----------------------------------------------------------------------------
(***************************************************************************)
(* The strings and the list of the cards.                                  *)
(***************************************************************************)

\* The strings of a card are held from when it has been opened until the
\* next is looked for, or there is none.
CardHeld ==
  /\ held \subseteq Cards!Fields
  /\ card_strings = Cardinality(held)
  /\ ~info => held = {}
  /\ cards_pc \in {"idle", "card_next", "ctl_open", "fetch", "over"} => held = {}
  /\ cards_error # "none" => cards_pc \in {"returned", "over"} /\ held = {}

Good == {i \in DOMAIN cards : cards[i] = "good"}

GoodUpTo(n) == {i \in Good : i <= n}

Shown == {listed[k] : k \in DOMAIN listed}

Increasing ==
  \A j \in DOMAIN listed, k \in DOMAIN listed : j < k => listed[j] < listed[k]

CardsTyped ==
  /\ Len(cards) \in Nat /\ DOMAIN cards = 1 .. Len(cards)
  /\ index \in 0 .. Len(cards)
  /\ listed \in Seq(Nat)
  /\ info \in BOOLEAN
  /\ said \in {"nothing", "none", "available"}
  /\ cards_error \in {"none", "alsa", "enomem"}

\* The list is always the good cards up to some card, and which it is can be
\* told at each step.
ListedSoFar ==
  /\ Increasing
  /\ \E n \in 0 .. Len(cards) : Shown = GoodUpTo(n)
  /\ cards_pc \in {"idle", "next_info"} /\ ~info => index = 0
  /\ cards_pc = "idle" => ~info /\ listed = <<>>
  /\ cards_pc \in {"card_next", "ctl_open", "fetch", "ctl_close"} => info
  /\ cards_pc \in {"next_info", "card_next"} => Shown = GoodUpTo(index)
  /\ cards_pc \in {"ctl_open", "fetch", "ctl_close"} =>
       index > 0 /\ Shown = GoodUpTo(index - 1)
  /\ cards_pc = "returned" /\ cards_error = "none" =>
       IF info THEN index \in Good /\ Shown = GoodUpTo(index - 1) ELSE Shown = Good
  /\ cards_pc = "over" /\ cards_error = "none" => Shown = Good

SaidKnown ==
  /\ said = "nothing" => listed = <<>> /\ cards_pc # "over"
  /\ cards_pc = "idle" => said = "nothing"
  /\ said = "none" => ~info /\ cards_pc \in {"returned", "over"}
  /\ said = "none" /\ cards_error = "none" => Good = {}
  /\ said = "available" /\ cards_error = "none" => Good # {}

ListKnown == CardsTyped /\ CardHeld /\ ListedSoFar /\ SaidKnown
-----------------------------------------------------------------------------
LEMMA HeldIsFinite ==
  ASSUME CardHeld
  PROVE  Cardinality(held) \in Nat /\ Cards!Cardinality(held) = Cardinality(held)
<1>1. IsFiniteSet(Cards!Fields)
  BY FieldsFinite
<1>2. IsFiniteSet(held)
  BY <1>1, FS_Subset DEF CardHeld
<1>3. QED
  BY <1>2, FS_CardinalityType, SameCardinality

LEMMA NothingHeld == Cardinality({}) = 0
BY FS_EmptySet

LEMMA StringsGo ==
  ASSUME CardHeld, Cards!free_sound_card_info
  PROVE  held' = {} /\ card_strings' = 0
BY HeldIsFinite DEF CardHeld, Cards!free_sound_card_info

LEMMA ThisCard ==
  ASSUME CardsTyped, index > 0
  PROVE  /\ cards[index] = "good" => index \in Good /\ GoodUpTo(index) = GoodUpTo(index - 1) \cup {index}
         /\ cards[index] # "good" => GoodUpTo(index) = GoodUpTo(index - 1)
BY DEF CardsTyped, Good, GoodUpTo

LEMMA AllCards == ASSUME CardsTyped PROVE GoodUpTo(Len(cards)) = Good
BY DEF CardsTyped, Good, GoodUpTo

\* A step that changes neither the cards nor the list.
LEMMA SameList ==
  ASSUME UNCHANGED <<cards, listed>>
  PROVE  /\ Good' = Good /\ Shown' = Shown /\ Increasing' = Increasing
         /\ Len(cards)' = Len(cards)
         /\ \A n : GoodUpTo(n)' = GoodUpTo(n)
BY DEF Good, Shown, Increasing, GoodUpTo

LEMMA TypedStays ==
  ASSUME CardsTyped, UNCHANGED <<cards, listed>>,
         index' \in 0 .. Len(cards), info' \in BOOLEAN,
         said' \in {"nothing", "none", "available"},
         cards_error' \in {"none", "alsa", "enomem"}
  PROVE  CardsTyped'
BY DEF CardsTyped

LEMMA NextInfoKeepsList ==
  ASSUME ListKnown, Cards!soundc_get_next_info PROVE ListKnown'
<1>1. /\ cards_pc = "next_info" /\ UNCHANGED <<cards, listed, said>>
      /\ \/ /\ info /\ UNCHANGED <<info, index, cards_error>>
            /\ cards_pc' = "card_next" /\ Cards!free_sound_card_info
         \/ /\ ~info /\ info' = TRUE /\ index' = 0 /\ cards_pc' = "card_next"
            /\ UNCHANGED <<held, card_strings, cards_error>>
         \/ /\ ~info /\ cards_pc' = "returned" /\ cards_error' = "enomem"
            /\ UNCHANGED <<info, held, card_strings, index>>
  BY DEF Cards!soundc_get_next_info, Cards!Return, Cards!struct
<1>2. CardsTyped'
  <2>1. CardsTyped /\ UNCHANGED <<cards, listed>>
    BY <1>1 DEF ListKnown
  <2>2. /\ info' \in BOOLEAN /\ said' \in {"nothing", "none", "available"}
        /\ cards_error' \in {"none", "alsa", "enomem"}
    BY <1>1, <2>1 DEF CardsTyped
  <2>3. index' \in 0 .. Len(cards)
    <3>1. index' = index \/ index' = 0
      BY <1>1
    <3>2. index \in 0 .. Len(cards) /\ Len(cards) \in Nat
      BY <2>1 DEF CardsTyped
    <3>3. QED
      BY <3>1, <3>2
  <2>4. QED
    BY <2>1, <2>2, <2>3, TypedStays
<1>3. CardHeld'
  BY <1>1, StringsGo, NothingHeld DEF ListKnown, CardHeld, Cards!Fields
<1>4. ListedSoFar'
  <2>1. index' = index
    BY <1>1 DEF ListKnown, ListedSoFar
  <2>2. QED
    BY <1>1, <2>1, SameList DEF ListKnown, CardHeld, ListedSoFar
<1>5. SaidKnown'
  BY <1>1, SameList DEF ListKnown, CardHeld, SaidKnown
<1>6. QED
  BY <1>2, <1>3, <1>4, <1>5 DEF ListKnown

LEMMA CardNextKeepsList ==
  ASSUME ListKnown, Cards!snd_card_next PROVE ListKnown'
<1>1. /\ cards_pc = "card_next" /\ UNCHANGED <<cards, listed, said>>
      /\ \/ /\ cards_pc' = "returned" /\ cards_error' = "alsa"
            /\ UNCHANGED <<info, held, card_strings, index>>
         \/ /\ index < Len(cards) /\ index' = index + 1 /\ cards_pc' = "ctl_open"
            /\ UNCHANGED <<info, held, card_strings, cards_error>>
         \/ /\ index = Len(cards) /\ Cards!free_sound_card_info /\ info' = FALSE
            /\ cards_pc' = "returned" /\ cards_error' = "none" /\ UNCHANGED index
  BY DEF Cards!snd_card_next, Cards!Return, Cards!struct
<1>2. CardsTyped'
  <2>1. CardsTyped /\ UNCHANGED <<cards, listed>>
    BY <1>1 DEF ListKnown
  <2>2. /\ info' \in BOOLEAN /\ said' \in {"nothing", "none", "available"}
        /\ cards_error' \in {"none", "alsa", "enomem"}
    BY <1>1, <2>1 DEF CardsTyped
  <2>3. index' \in 0 .. Len(cards)
    <3>1. index' = index \/ (index < Len(cards) /\ index' = index + 1)
      BY <1>1
    <3>2. index \in 0 .. Len(cards) /\ Len(cards) \in Nat
      BY <2>1 DEF CardsTyped
    <3>3. QED
      BY <3>1, <3>2
  <2>4. QED
    BY <2>1, <2>2, <2>3, TypedStays
<1>3. CardHeld'
  BY <1>1, StringsGo, NothingHeld DEF ListKnown, CardHeld, Cards!Fields
<1>4. ListedSoFar'
  <2>1. /\ index \in Nat /\ index + 1 > 0 /\ (index + 1) - 1 = index
        /\ info /\ Shown = GoodUpTo(index) /\ Increasing
        /\ \E n \in 0 .. Len(cards) : Shown = GoodUpTo(n)
    <3>1. cards_pc = "card_next"
      BY <1>1
    <3>2. /\ info /\ Shown = GoodUpTo(index) /\ Increasing
          /\ \E n \in 0 .. Len(cards) : Shown = GoodUpTo(n)
      BY <3>1 DEF ListKnown, ListedSoFar
    <3>3. index \in Nat
      BY DEF ListKnown, CardsTyped
    <3>4. index + 1 > 0 /\ (index + 1) - 1 = index
      BY <3>3
    <3>5. QED
      BY <3>2, <3>3, <3>4, Zenon
  <2>2. GoodUpTo(Len(cards)) = Good
    BY AllCards DEF ListKnown
  <2>3. CASE cards_pc' = "returned" /\ cards_error' = "alsa"
    BY <1>1, <2>1, <2>3, SameList DEF ListedSoFar
  <2>4. CASE index' = index + 1 /\ cards_pc' = "ctl_open" /\ UNCHANGED info
    <3>1. GoodUpTo(index' - 1) = GoodUpTo(index)
      BY <2>1, <2>4
    <3>2. GoodUpTo(index - 1)' = GoodUpTo(index' - 1)
      BY SameList, <1>1 DEF GoodUpTo
    <3>3. QED
      BY <1>1, <2>1, <2>4, <3>1, <3>2, SameList DEF ListedSoFar
  <2>5. CASE /\ index = Len(cards) /\ info' = FALSE
             /\ cards_pc' = "returned" /\ cards_error' = "none"
    BY <1>1, <2>1, <2>2, <2>5, SameList DEF ListedSoFar
  <2>6. QED
    BY <1>1, <2>3, <2>4, <2>5
<1>5. SaidKnown'
  BY <1>1, SameList DEF ListKnown, CardHeld, SaidKnown
<1>6. QED
  BY <1>2, <1>3, <1>4, <1>5 DEF ListKnown

LEMMA CardOpenKeepsList ==
  ASSUME ListKnown, Cards!open_and_fetch_sound_card_details PROVE ListKnown'
<1>1. cards_pc = "ctl_open" /\ UNCHANGED <<cards, index, Cards!struct, listed, said>>
  BY DEF Cards!open_and_fetch_sound_card_details
<1>2. UNCHANGED <<cards, index, info, held, card_strings, listed, said>>
  BY <1>1 DEF Cards!struct
<1>3. CASE cards[index] = "no open" /\ Cards!Opened(FALSE)
  <2>1. cards[index] # "good" /\ cards_pc' = "next_info" /\ cards_error' = "none"
    BY <1>3 DEF Cards!Opened
  <2>2. CardsTyped'
    BY <1>2, <2>1, TypedStays DEF ListKnown, CardsTyped
  <2>3. CardHeld'
    BY <1>1, <1>2, <2>1 DEF ListKnown, CardHeld, Cards!Fields
  <2>4. ListedSoFar'
    BY <1>1, <1>2, <2>1, SameList, ThisCard DEF ListKnown, CardHeld, ListedSoFar
  <2>5. SaidKnown'
    BY <1>1, <1>2, <2>1, SameList DEF ListKnown, CardHeld, SaidKnown
  <2>6. QED
    BY <2>2, <2>3, <2>4, <2>5 DEF ListKnown
<1>4. CASE \/ cards_pc' = "fetch" /\ UNCHANGED cards_error
           \/ cards_pc' = "returned" /\ cards_error' = "enomem"
  <2>1. CardsTyped'
    BY <1>2, <1>4, TypedStays DEF ListKnown, CardsTyped
  <2>2. CardHeld'
    BY <1>1, <1>2, <1>4 DEF ListKnown, CardHeld, Cards!Fields
  <2>3. ListedSoFar'
    BY <1>1, <1>2, <1>4, SameList DEF ListKnown, CardHeld, ListedSoFar
  <2>4. SaidKnown'
    BY <1>1, <1>2, <1>4, SameList DEF ListKnown, CardHeld, SaidKnown
  <2>5. QED
    BY <2>1, <2>2, <2>3, <2>4 DEF ListKnown
<1>5. QED
  BY <1>3, <1>4 DEF Cards!open_and_fetch_sound_card_details, Cards!Return

LEMMA FetchKeepsList ==
  ASSUME ListKnown, Cards!fetch_sound_card_details PROVE ListKnown'
<1>1. /\ cards_pc = "fetch" /\ cards_pc' = "ctl_close"
      /\ UNCHANGED <<cards, index, info, listed, said, cards_error>>
      /\ \/ UNCHANGED <<held, card_strings>>
         \/ \E got \in SUBSET Cards!Fields :
              held' = got /\ card_strings' = card_strings + Cards!Cardinality(got)
  BY DEF Cards!fetch_sound_card_details
<1>2. CardsTyped'
  BY <1>1, TypedStays DEF ListKnown, CardsTyped
<1>3. CardHeld'
  <2>1. held = {} /\ card_strings = 0 /\ info /\ cards_error = "none"
    BY <1>1, NothingHeld DEF ListKnown, CardHeld, ListedSoFar
  <2>2. CASE UNCHANGED <<held, card_strings>>
    BY <1>1, <2>1, <2>2, NothingHeld DEF CardHeld, Cards!Fields
  <2>3. ASSUME NEW got \in SUBSET Cards!Fields, held' = got,
               card_strings' = card_strings + Cards!Cardinality(got)
        PROVE  CardHeld'
    <3>1. IsFiniteSet(got) /\ Cardinality(got) \in Nat
      <4>1. IsFiniteSet(Cards!Fields)
        BY FieldsFinite
      <4>2. QED
        BY <4>1, FS_Subset, FS_CardinalityType
    <3>2. card_strings' = Cardinality(got)
      BY <2>1, <2>3, <3>1, SameCardinality
    <3>3. QED
      BY <1>1, <2>1, <2>3, <3>2 DEF CardHeld, Cards!Fields
  <2>4. QED
    BY <1>1, <2>2, <2>3
<1>4. ListedSoFar'
  BY <1>1, SameList DEF ListKnown, ListedSoFar
<1>5. SaidKnown'
  BY <1>1, SameList DEF ListKnown, SaidKnown
<1>6. QED
  BY <1>2, <1>3, <1>4, <1>5 DEF ListKnown

LEMMA CloseKeepsList == ASSUME ListKnown, Cards!snd_ctl_close PROVE ListKnown'
<1>1. /\ cards_pc = "ctl_close" /\ Cards!Opened(cards[index] = "good")
      /\ UNCHANGED <<cards, index, Cards!struct, listed, said>>
  BY DEF Cards!snd_ctl_close
<1>2. UNCHANGED <<cards, index, info, held, card_strings, listed, said>>
  BY <1>1 DEF Cards!struct
<1>3. /\ cards_error' = "none"
      /\ cards_pc' = IF cards[index] = "good" THEN "returned" ELSE "next_info"
  BY <1>1 DEF Cards!Opened, Cards!Return
<1>4. CardsTyped'
  BY <1>2, <1>3, TypedStays DEF ListKnown, CardsTyped
<1>5. CardHeld'
  BY <1>1, <1>2, <1>3 DEF ListKnown, CardHeld, Cards!Fields
<1>6. ListedSoFar'
  BY <1>1, <1>2, <1>3, SameList, ThisCard DEF ListKnown, CardHeld, ListedSoFar
<1>7. SaidKnown'
  BY <1>1, <1>2, <1>3, SameList DEF ListKnown, CardHeld, SaidKnown
<1>8. QED
  BY <1>4, <1>5, <1>6, <1>7 DEF ListKnown

LEMMA HeaderKeepsList == ASSUME ListKnown, Cards!Header PROVE ListKnown'
<1>1. /\ cards_pc = "returned" /\ said = "nothing"
      /\ said' = IF info THEN "available" ELSE "none"
      /\ UNCHANGED <<cards_pc, cards, index, info, held, card_strings, listed, cards_error>>
  BY DEF Cards!Header, Cards!struct
<1>2. CardsTyped'
  BY <1>1, TypedStays DEF ListKnown, CardsTyped
<1>3. CardHeld'
  BY <1>1 DEF ListKnown, CardHeld, Cards!Fields
<1>4. ListedSoFar'
  BY <1>1, SameList DEF ListKnown, ListedSoFar
<1>5. SaidKnown'
  <2>1. listed = <<>>
    BY <1>1 DEF ListKnown, SaidKnown
  <2>2. Shown = {}
    BY <2>1 DEF Shown
  <2>3. QED
    BY <1>1, <2>2, SameList DEF ListKnown, CardsTyped, ListedSoFar, SaidKnown
<1>6. QED
  BY <1>2, <1>3, <1>4, <1>5 DEF ListKnown

\* The card that is printed comes after all that have been.
LEMMA PrintKeepsList == ASSUME ListKnown, Cards!PrintCard PROVE ListKnown'
<1>1. /\ cards_pc = "returned" /\ said = "available" /\ cards_error = "none" /\ info
      /\ UNCHANGED <<cards, index, info, held, card_strings, said, cards_error>>
      /\ \/ cards_pc' = "next_info" /\ listed' = Append(listed, index)
         \/ cards_pc' = "crashed" /\ UNCHANGED listed
  BY DEF Cards!PrintCard, Cards!struct
<1>2. CASE cards_pc' = "crashed" /\ UNCHANGED listed
  <2>1. CardsTyped' /\ ListedSoFar' /\ SaidKnown'
    BY <1>1, <1>2, SameList DEF ListKnown, CardsTyped, ListedSoFar, SaidKnown
  <2>2. CardHeld'
    BY <1>1, <1>2 DEF ListKnown, CardHeld, Cards!Fields
  <2>3. QED
    BY <2>1, <2>2 DEF ListKnown
<1>3. CASE cards_pc' = "next_info" /\ listed' = Append(listed, index)
  <2>1. /\ index \in Good /\ Shown = GoodUpTo(index - 1)
        /\ index \in 0 .. Len(cards) /\ Len(cards) \in Nat /\ listed \in Seq(Nat)
    BY <1>1 DEF ListKnown, CardsTyped, ListedSoFar
  <2>2. /\ listed' \in Seq(Nat) /\ DOMAIN listed' = DOMAIN listed \cup {Len(listed) + 1}
        /\ DOMAIN listed = 1 .. Len(listed) /\ Len(listed) \in Nat
        /\ listed'[Len(listed) + 1] = index
        /\ \A k \in DOMAIN listed : listed'[k] = listed[k] /\ listed[k] \in Nat
    BY <1>3, <2>1
  <2>3. Shown' = Shown \cup {index}
    BY <2>2 DEF Shown
  <2>4. Good' = Good /\ \A n : GoodUpTo(n)' = GoodUpTo(n)
    BY <1>1 DEF Good, GoodUpTo
  <2>5. index > 0 /\ cards[index] = "good"
    BY <2>1 DEF Good, ListKnown, CardsTyped
  <2>6. Shown' = GoodUpTo(index)
    BY <2>1, <2>3, <2>5, ThisCard DEF ListKnown
  <2>7. \A k \in DOMAIN listed : listed[k] < index
    <3>1. \A k \in DOMAIN listed : listed[k] \in GoodUpTo(index - 1)
      BY <2>1 DEF Shown
    <3>2. QED
      BY <2>1, <2>2, <3>1 DEF GoodUpTo
  <2>8. Increasing'
    <3>1. SUFFICES ASSUME NEW j \in DOMAIN listed', NEW k \in DOMAIN listed', j < k
                   PROVE  listed'[j] < listed'[k]
      BY DEF Increasing
    <3>2. j \in DOMAIN listed
      BY <2>2, <3>1
    <3>3. CASE k \in DOMAIN listed
      BY <2>2, <3>1, <3>2, <3>3 DEF ListKnown, ListedSoFar, Increasing
    <3>4. CASE k = Len(listed) + 1
      BY <2>2, <2>7, <3>2, <3>4
    <3>5. QED
      BY <2>2, <3>1, <3>3, <3>4
  <2>9. CardsTyped'
    BY <1>1, <2>2 DEF ListKnown, CardsTyped
  <2>10. CardHeld'
    BY <1>1, <1>3 DEF ListKnown, CardHeld, Cards!Fields
  <2>11. ListedSoFar'
    BY <1>1, <1>3, <2>1, <2>4, <2>6, <2>8 DEF ListedSoFar
  <2>12. SaidKnown'
    BY <1>1, <1>3, <2>4 DEF ListKnown, SaidKnown
  <2>13. QED
    BY <2>9, <2>10, <2>11, <2>12 DEF ListKnown
<1>4. QED
  BY <1>1, <1>2, <1>3

LEMMA ListReturnKeepsList ==
  ASSUME ListKnown, Cards!Return_list_sound_cards PROVE ListKnown'
<1>1. /\ cards_pc = "returned" /\ cards_pc' = "over" /\ said # "nothing"
      /\ said = "none" \/ cards_error # "none" \/ ~info
      /\ UNCHANGED <<cards, index, info, held, card_strings, listed, said, cards_error>>
  BY DEF Cards!Return_list_sound_cards, Cards!struct
<1>2. ~info \/ cards_error # "none"
  BY <1>1 DEF ListKnown, SaidKnown
<1>3. CardsTyped'
  BY <1>1, TypedStays DEF ListKnown, CardsTyped
<1>4. CardHeld'
  BY <1>1, <1>2 DEF ListKnown, CardHeld, Cards!Fields
<1>5. ListedSoFar'
  BY <1>1, <1>2, SameList DEF ListKnown, ListedSoFar
<1>6. SaidKnown'
  BY <1>1, SameList DEF ListKnown, SaidKnown
<1>7. QED
  BY <1>3, <1>4, <1>5, <1>6 DEF ListKnown

LEMMA CardStepKeepsList == ASSUME ListKnown, Cards!Step PROVE ListKnown'
BY NextInfoKeepsList, CardNextKeepsList, CardOpenKeepsList, FetchKeepsList,
   CloseKeepsList, HeaderKeepsList, PrintKeepsList, ListReturnKeepsList DEF Cards!Step

\* Which cards there are shows when the list is begun.
LEMMA BeginKeepsList == ASSUME ListKnown, Cards!list_sound_cards PROVE ListKnown'
<1>1. /\ cards_pc = "idle" /\ cards_pc' = "next_info"
      /\ \E n \in 0 .. MaxCards :
           cards' \in [1 .. n -> {"good", "no open", "no info", "no close"}]
      /\ UNCHANGED <<index, info, held, card_strings, listed, said, cards_error>>
  BY DEF Cards!list_sound_cards, Cards!struct
<1>2. PICK n \in 0 .. MaxCards :
        cards' \in [1 .. n -> {"good", "no open", "no info", "no close"}]
  BY <1>1
<1>3. n \in Nat /\ DOMAIN cards' = 1 .. n /\ Len(cards') = n
  <2> DEFINE S == {"good", "no open", "no info", "no close"}
  <2>0. cards' \in [1 .. n -> S]
    BY <1>2
  <2> HIDE DEF S
  <2>1. n \in Nat /\ cards' \in [1 .. n -> S]
    <3>1. MaxCards \in Nat
      BY BridgeAssumption
    <3>2. n \in 0 .. MaxCards
      OBVIOUS
    <3>3. QED
      BY <3>1, <3>2, <2>0
  <2>2. cards' \in Seq(S)
    BY <2>1
  <2>3. QED
    BY <2>1, <2>2
<1>4. index = 0 /\ listed = <<>>
  BY <1>1 DEF ListKnown, ListedSoFar
<1>5. CardsTyped'
  <2>1. 0 \in 0 .. n
    BY <1>3
  <2>2. /\ listed' \in Seq(Nat) /\ info' \in BOOLEAN /\ index' = 0
        /\ said' \in {"nothing", "none", "available"}
        /\ cards_error' \in {"none", "alsa", "enomem"}
    BY <1>1, <1>4 DEF ListKnown, CardsTyped
  <2>3. QED
    BY <1>3, <2>1, <2>2 DEF CardsTyped
<1>6. CardHeld'
  BY <1>1 DEF ListKnown, CardHeld, Cards!Fields
<1>7. Shown' = {} /\ GoodUpTo(0)' = {}
  <2>1. listed' = <<>>
    BY <1>1, <1>4
  <2>2. Shown' = {}
    BY <2>1 DEF Shown
  <2>3. GoodUpTo(0)' = {}
    BY <1>3 DEF Good, GoodUpTo
  <2>4. QED
    BY <2>2, <2>3
<1>8. ListedSoFar'
  <2>1. Increasing'
    <3>1. listed' = <<>>
      BY <1>1, <1>4
    <3>2. QED
      BY <3>1 DEF Increasing
  <2>2. 0 \in 0 .. Len(cards')
    BY <1>3
  <2>3. GoodUpTo(index)' = GoodUpTo(0)'
    BY <1>1, <1>4 DEF GoodUpTo
  <2>4. QED
    BY <1>1, <1>4, <1>7, <2>1, <2>2, <2>3 DEF ListedSoFar
<1>9. SaidKnown'
  BY <1>1 DEF ListKnown, SaidKnown
<1>10. QED
  BY <1>5, <1>6, <1>8, <1>9 DEF ListKnown

LEMMA ListStays == ASSUME ListKnown, UNCHANGED cardsVars PROVE ListKnown'
<1>1. UNCHANGED <<cards_pc, cards, index, info, held, card_strings, listed, said,
                  cards_error>>
  BY DEF cardsVars
<1>2. CardsTyped' /\ ListedSoFar' /\ SaidKnown'
  BY <1>1, SameList DEF ListKnown, CardsTyped, ListedSoFar, SaidKnown
<1>3. CardHeld'
  BY <1>1 DEF ListKnown, CardHeld, Cards!Fields
<1>4. QED
  BY <1>2, <1>3 DEF ListKnown

LEMMA ListInit == ASSUME Cards!Init PROVE ListKnown
<1>1. /\ cards_pc = "idle" /\ cards = <<>> /\ index = 0 /\ info = FALSE /\ held = {}
      /\ card_strings = 0 /\ listed = <<>> /\ said = "nothing" /\ cards_error = "none"
  BY DEF Cards!Init
<1>2. Shown = {} /\ Good = {} /\ GoodUpTo(0) = {} /\ Increasing
  BY <1>1 DEF Shown, Good, GoodUpTo, Increasing
<1>3. CardsTyped
  <2>1. Len(cards) = 0 /\ DOMAIN cards = 1 .. 0 /\ listed \in Seq(Nat)
    BY <1>1
  <2>2. 0 \in Nat /\ 0 \in 0 .. 0
    OBVIOUS
  <2>3. Len(cards) \in Nat /\ DOMAIN cards = 1 .. Len(cards) /\ index \in 0 .. Len(cards)
    BY <1>1, <2>1, <2>2, Zenon
  <2>4. info \in BOOLEAN
    BY <1>1
  <2>5. QED
    BY <1>1, <2>1, <2>3, <2>4, Zenon DEF CardsTyped
<1>4. CardHeld
  BY <1>1, NothingHeld DEF CardHeld
<1>5. ListedSoFar
  BY <1>1, <1>2, <1>3 DEF ListedSoFar, CardsTyped
<1>6. QED
  BY <1>1, <1>3, <1>4, <1>5 DEF ListKnown, SaidKnown
-----------------------------------------------------------------------------
(***************************************************************************)
(* The configuration and the list through every step of the program.       *)
(***************************************************************************)
StoresKnown == ConfigKnown /\ ListKnown

LEMMA StoresInit == ASSUME BridgeInit PROVE StoresKnown
BY ConfigInit, ListInit DEF BridgeInit, StoresKnown

LEMMA OptionsKeepStores == ASSUME LogKnown, StoresKnown, Options PROVE StoresKnown'
<1>1. ListKnown'
  BY ListStays DEF StoresKnown, Options
<1>2. CASE Main!argp_parser
  <2>1. main_pc = "parse"
    BY <1>2 DEF Main!argp_parser
  <2>2. ASSUME NEW o \in Main!Options, given' = Append(given, o), Main!Keyword(o)
        PROVE  ConfigKnown'
    BY <2>1, <2>2, KeywordKeepsConfig DEF StoresKnown
  <2>3. ASSUME NEW o \in Main!NumberOptions, given' = Append(given, o),
               Main!SAVE_ARG_UL(o[1], o[2])
        PROVE  ConfigKnown'
    BY <2>1, <2>3, NumberKeepsConfig DEF StoresKnown
  <2>4. QED
    BY <1>1, <1>2, <2>2, <2>3 DEF Main!argp_parser, StoresKnown
<1>3. CASE Main!ArgumentLeft \/ Main!argp_exit
  <2>1. main_pc' = "exited" /\ UNCHANGED <<given, config, strings>>
    BY <1>3 DEF Main!ArgumentLeft, Main!argp_exit
  <2>2. QED
    BY <1>1, <2>1, ConfigStays DEF StoresKnown
<1>4. QED
  BY <1>2, <1>3 DEF Options

LEMMA StartKeepsStores == ASSUME StoresKnown, StartFile \/ StartList PROVE StoresKnown'
<1>1. main_pc = "parse" /\ main_pc' \in {"play_file", "list_sound_cards"}
      /\ UNCHANGED <<given, config, strings>>
  BY DEF StartFile, StartList, Main!Start
<1>2. ConfigKnown'
  BY <1>1, ConfigStays DEF StoresKnown
<1>3. ListKnown'
  <2>1. CASE StartFile
    BY <2>1, ListStays DEF StoresKnown, StartFile
  <2>2. CASE StartList
    BY <2>2, BeginKeepsList DEF StoresKnown, StartList
  <2>3. QED
    BY <2>1, <2>2
<1>4. QED
  BY <1>2, <1>3 DEF StoresKnown

LEMMA CallsKeepStores ==
  ASSUME StoresKnown, PlayFileStep \/ ListStep PROVE StoresKnown'
<1>1. UNCHANGED <<main_pc, given, config, strings>>
  BY DEF PlayFileStep, ListStep, mainVars
<1>2. ConfigKnown'
  BY <1>1, ConfigStays DEF StoresKnown
<1>3. ListKnown'
  <2>1. CASE PlayFileStep
    BY <2>1, ListStays DEF StoresKnown, PlayFileStep
  <2>2. CASE ListStep
    BY <2>2, CardStepKeepsList DEF StoresKnown, ListStep
  <2>3. QED
    BY <2>1, <2>2
<1>4. QED
  BY <1>2, <1>3 DEF StoresKnown

LEMMA EndKeepsStores ==
  ASSUME LogKnown, StoresKnown, Return \/ Crash \/ Finish PROVE StoresKnown'
<1>1. ListKnown'
  BY ListStays DEF StoresKnown, Return, Crash, Finish
<1>2. CASE Return \/ Crash
  <2>1. main_pc' \in {"failed", "done", "crashed"} /\ UNCHANGED <<given, config, strings>>
    BY <1>2 DEF Return, Crash, Main!Return, Main!Crash
  <2>2. QED
    BY <1>1, <2>1, ConfigStays DEF StoresKnown
<1>3. CASE Finish
  BY <1>1, <1>3, FinishKeepsConfig DEF StoresKnown, Finish
<1>4. QED
  BY <1>2, <1>3

LEMMA StoresStay == ASSUME LogKnown, StoresKnown, [BridgeNext]_bridgeVars PROVE StoresKnown'
<1>1. CASE UNCHANGED bridgeVars
  <2>1. UNCHANGED <<main_pc, given, config, strings>> /\ UNCHANGED cardsVars
    BY <1>1 DEF bridgeVars, mainVars
  <2>2. QED
    BY <2>1, ConfigStays, ListStays DEF StoresKnown
<1>2. QED
  BY <1>1, OptionsKeepStores, StartKeepsStores, CallsKeepStores, EndKeepsStores
     DEF BridgeNext, Program

\* Which options the configuration, and which cards the list, stand for
\* between any two steps (main.c:313-371, player.c:129-168).
THEOREM StoresInvariance == BridgeSpec => [](LogKnown /\ StoresKnown)
<1>1. ProgramInv => LogKnown
  BY DEF ProgramInv
<1>2. BridgeInit => StoresKnown
  BY StoresInit
<1>3. LogKnown /\ StoresKnown /\ [BridgeNext]_bridgeVars => StoresKnown'
  BY StoresStay
<1>4. BridgeSpec => []LogKnown
  BY <1>1, ProgramInvariance, PTL
<1>5. QED
  BY <1>2, <1>3, <1>4, PTL DEF BridgeSpec

\* What is played is played with the last of the values that were given, for
\* any number of options (main.c:317-321).
THEOREM LastNumbersCount == BridgeSpec => []NumbersAsGiven
<1>1. StoresKnown => NumbersAsGiven
  <2>1. SUFFICES ASSUME StoresKnown, main_pc \in {"play_file", "list_sound_cards"},
                        NEW key \in NumberKeys
                 PROVE  /\ config[key] = 0 <=> Main!Places(key) = {}
                        /\ \A i \in Main!Places(key) :
                             (\A j \in Main!Places(key) : j <= i) =>
                               config[key] \in {given[i][2], given[i][2] % Unsigned}
    BY DEF NumbersAsGiven, Main!NumbersAsGiven, NumberKeys
  <2>2. \A i \in Main!Places(key) : i \in DOMAIN given
    BY DEF Main!Places
  <2>3. QED
    BY <2>1, <2>2 DEF StoresKnown, ConfigKnown, NumbersKnown, IsLast
<1>2. QED
  BY <1>1, StoresInvariance, PTL

\* The strings of the command line and of the cards that can be freed have
\* been, on every way to the end (main.c:68-78, player.c:23-45).
THEOREM EveryStringIsFreed == BridgeSpec => []StringsAreFreed
<1>1. LogKnown /\ StoresKnown => StringsAreFreed
  <2>1. SUFFICES ASSUME LogKnown, StoresKnown PROVE StringsAreFreed
    OBVIOUS
  <2>2. ASSUME main_pc = "returned"
        PROVE  strings = Main!Cardinality(Replaced)
    <3>1. strings = Cardinality(Replaced) + Cardinality(KeysHeld) /\ KeysHeld = {}
      BY <2>1, <2>2 DEF StoresKnown, ConfigKnown, StringsKnown
    <3>2. Cardinality(Replaced) \in Nat
      BY <2>1, CountsAreNumbers DEF LogKnown
    <3>3. strings = Cardinality(Replaced)
      BY <3>1, <3>2, NothingHeld
    <3>4. QED
      BY <3>3, SameMainCardinality
  <2>3. Main!StringsAreFreed
    BY <2>2 DEF Main!StringsAreFreed, Main!Copied, Copied, Replaced
  <2>4. card_strings = Cards!Cardinality(held) /\ (cards_pc = "over" => held = {})
    BY <2>1, HeldIsFinite DEF StoresKnown, ListKnown, CardHeld
  <2>5. cards_pc = "over" => card_strings = 0
    BY <2>4, SameCardinality, NothingHeld
  <2>6. Cards!StringsAreFreed
    BY <2>4, <2>5 DEF Cards!StringsAreFreed
  <2>7. QED
    BY <2>3, <2>6 DEF StringsAreFreed
<1>2. QED
  BY <1>1, StoresInvariance, PTL

\* The cards that can be used are listed, each once and in order, however
\* many there are and whichever of them cannot (player.c:133-168).
THEOREM EveryGoodCardIsListed == BridgeSpec => []GoodCardsAreListed
<1>1. StoresKnown => GoodCardsAreListed
  <2>1. SUFFICES ASSUME StoresKnown PROVE GoodCardsAreListed
    OBVIOUS
  <2>2. Cards!GoodCards = Good /\ Cards!Listed = Shown
    BY DEF Cards!GoodCards, Cards!Listed, Good, Shown
  <2>3. \A j \in DOMAIN listed, k \in DOMAIN listed : j < k => listed[j] < listed[k]
    BY <2>1 DEF StoresKnown, ListKnown, ListedSoFar, Increasing
  <2>4. \E n \in 0 .. Len(cards) : Cards!Listed = {i \in Cards!GoodCards : i <= n}
    BY <2>1, <2>2 DEF StoresKnown, ListKnown, ListedSoFar, GoodUpTo
  <2>5. ASSUME cards_pc = "over", cards_error \notin {"alsa", "enomem"}
        PROVE  Shown = Good /\ (said = "none" <=> Good = {})
    <3>1. cards_error = "none"
      BY <2>1, <2>5 DEF StoresKnown, ListKnown, CardsTyped
    <3>2. QED
      BY <2>1, <2>5, <3>1 DEF StoresKnown, ListKnown, CardsTyped, ListedSoFar, SaidKnown
  <2>6. QED
    BY <2>2, <2>3, <2>4, <2>5 DEF GoodCardsAreListed, Cards!GoodCardsAreListed
<1>2. QED
  BY <1>1, StoresInvariance, PTL
=============================================================================
