------------------------------- MODULE Bridge -------------------------------
(***************************************************************************)
(* The program from its start to its end, main of src/bridge/main.c: the   *)
(* options and the log of CommandLine, then play_file of PlayFile when a   *)
(* file is named, and the list of SoundCards when there is none.  What     *)
(* they have in common is the configuration, which names the file and its  *)
(* format, the error they return, the terminal, to which player_open lets  *)
(* ALSA write past the log, and the end of the process, which any of them  *)
(* may bring about.                                                        *)
(***************************************************************************)
EXTENDS PlayFile, FiniteSets

CONSTANTS
  Numbers, Unsigned, MaxOptions,  \* as in CommandLine
  MaxCards, MaxShortages          \* as in SoundCards

ASSUME BridgeAssumption ==
  /\ Numbers \subseteq Nat
  /\ Unsigned \in Nat \ {0}
  /\ {MaxOptions, MaxCards, MaxShortages} \subseteq Nat

VARIABLES
  main_pc, given, config, strings, log, status,
  cards_pc, cards, index, info, held, card_strings, listed, said, cards_error,
  shortages

mainVars == <<main_pc, given, config, strings, log, status>>
cardsVars == <<cards_pc, cards, index, info, held, card_strings, listed, said,
               cards_error, shortages>>
bridgeVars == <<vars, mainVars, cardsVars>>

\* A path is as good as its extension.
Main == INSTANCE CommandLine WITH pc <- main_pc, Paths <- Extensions

ASSUME PathAssumption == Main!None \notin Extensions

Cards == INSTANCE SoundCards
           WITH pc <- cards_pc, strings <- card_strings, error <- cards_error

\* play_file, before it has been called.
PlayFileInit ==
  /\ pc = "guess" /\ format = "unset" /\ ext = "none"
  /\ alive = {}
  /\ decoder = FALSE /\ player = FALSE /\ failed = "none" /\ odd = {}

BridgeInit == Main!Init /\ Cards!Init /\ PlayFileInit
-----------------------------------------------------------------------------
Options ==
  /\ Main!argp_parser \/ Main!ArgumentLeft \/ Main!argp_exit
  /\ UNCHANGED <<vars, cardsVars>>

StartFile ==
  /\ config.file # Main!None
  /\ Main!Start
  /\ ext' = config.file
  /\ format' = IF config.format = Main!None THEN "unset" ELSE config.format
  /\ odd' \in SUBSET Oddities
  /\ UNCHANGED <<pc, alive, decoder, player, failed, cardsVars>>

StartList ==
  /\ config.file = Main!None
  /\ Main!Start
  /\ Cards!list_sound_cards
  /\ UNCHANGED vars

\* player_open, once it has set the player, has ALSA describe the device on
\* stdout.
snd_pcm_dump ==
  log' = IF log.verbose /\ player' /\ ~player THEN Main!Put(log, "stdout", "dump")
                                               ELSE log

PlayFileStep ==
  /\ main_pc = "play_file"
  /\ play_file
  /\ snd_pcm_dump
  /\ UNCHANGED <<main_pc, given, config, strings, status, cardsVars>>

ListStep ==
  /\ main_pc = "list_sound_cards"
  /\ Cards!Step
  /\ UNCHANGED <<vars, mainVars>>

Return ==
  /\ \/ pc = "returned" /\ Main!Return(error)
     \/ cards_pc = "over" /\ Main!Return(cards_error # "none")
  /\ UNCHANGED <<vars, cardsVars>>

Crash ==
  /\ "crashed" \in {pc, cards_pc}
  /\ Main!Crash
  /\ UNCHANGED <<vars, cardsVars>>

Finish == Main!Finish /\ UNCHANGED <<vars, cardsVars>>

Program ==
  \/ Options \/ StartFile \/ StartList \/ PlayFileStep \/ ListStep
  \/ Return \/ Crash \/ Finish

Ended == main_pc \in {"returned", "exited", "crashed"}

BridgeNext == Program \/ (Ended /\ UNCHANGED bridgeVars)

\* The program is one process, and what it calls returns: of play that is
\* the subject of Playback!EndsOrStarves.
BridgeSpec == BridgeInit /\ [][BridgeNext]_bridgeVars /\ WF_bridgeVars(Program)
-----------------------------------------------------------------------------
(***************************************************************************)
(* Properties; also NothingIsLeft and UsersGoFirst of PlayFile.            *)
(***************************************************************************)

\* With a log file, wherever on the command line its option is and also after
\* lines could not be written to it, no verbose line is on the terminal
\* (main.c:365-369, log.c:107-123).  The help's "store verbose diagnostics only
\* in the file" (main.c:265-267) goes too far by one thing, ALSA's dump, which
\* knows of no log file: it is there only if the program is verbose and has
\* set up a device, and what it has been written with stays (player.c:547 and
\* 584-586).
OnlyDumpIsAstray ==
  /\ (\E i \in DOMAIN given : given[i] = <<"log", "writable">>) =>
       "verbose" \notin log.stdout
  /\ "dump" \in log.stdout => log.verbose /\ Kept \subseteq alive

\* What is played, or listed, is played with the last of the values given
\* (main.c:317-321).
NumbersAsGiven == Main!NumbersAsGiven

\* Of the strings of the command line and of the cards, those are freed that
\* can be, on every way to the end (main.c:68-78, player.c:23-45).
StringsAreFreed == Main!StringsAreFreed /\ Cards!StringsAreFreed

\* The cards that can be used are listed, each once and in order
\* (player.c:133-168).
GoodCardsAreListed == Cards!GoodCardsAreListed

\* What ends the program before its end: a log opened twice (log.c:48), a
\* string of a card that could not be had (player.c:173 and 180), an open that
\* failed, after which play_file releases what it does not have (main.c:161-162),
\* and, when nothing has failed, a file or a device that is odd in a way its
\* decoder gets to.  So no order of the options does, no card, no file and
\* device that are not odd, and no failure of play.
CrashesHaveACause ==
  main_pc = "crashed" =>
    \/ Cardinality({i \in DOMAIN given : given[i][1] = "log"}) > 1
    \/ shortages > 0
    \/ failed \in {"guess", "stream_open", "decoder_open", "player_open"}
    \/ failed = "none" /\ odd \cap ({"header", "long period"} \cup Remainder) # {}

\* The program ends if play does, also when it is only given cards that cannot
\* be used, each of which soundc_get_next_info passes over by calling itself.
ProgramEnds == <>Ended
=============================================================================
