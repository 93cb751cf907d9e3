----------------------------- MODULE SoundCards -----------------------------
(***************************************************************************)
(* The list of the sound cards that the program prints when it is given no *)
(* file: list_sound_cards of src/bridge/main.c and soundc_get_next_info of *)
(* src/shared_c/player.c.  A card that cannot be opened, or does not say   *)
(* what it is, or does not close, is passed over: soundc_get_next_info     *)
(* calls itself, which is its last act and so a loop here.  Memory may run *)
(* out in each of the allocations.  Bridge calls it from main.             *)
(***************************************************************************)
EXTENDS Naturals, FiniteSets, Sequences

CONSTANTS
  MaxCards,
  MaxShortages  \* how many allocations may fail

VARIABLES
  pc,
  cards,      \* the cards there are, each with how it behaves
  index,      \* card_index + 1
  info,       \* whether card_info points to a struct
  held,       \* the fields of the struct that point to a string
  strings,    \* how many strings have been allocated and not freed
  listed,     \* the cards printed
  said,       \* "available", or "none", once one of the two lines is printed
  error,      \* error_r
  shortages

struct == <<info, held, strings>>
cardsVars == <<pc, cards, index, struct, listed, said, error, shortages>>

Fields == {"hardware_id", "long_name", "driver_name", "mixer_name", "components"}

Init ==
  /\ pc = "idle"
  /\ cards = <<>>
  /\ index = 0
  /\ info = FALSE /\ held = {} /\ strings = 0
  /\ listed = <<>> /\ said = "nothing"
  /\ error = "none"
  /\ shortages = 0

Shortage(n) == shortages + n <= MaxShortages /\ shortages' = shortages + n

Return(e) == pc' = "returned" /\ error' = e

\* open_and_fetch_sound_card_details has returned.
BugStopAtBadCard(fine) == Return(IF fine THEN "none" ELSE "card")

BugTrySameCard(fine) ==
  IF fine THEN Return("none") ELSE pc' = "ctl_open" /\ error' = "none"

BugTreatAsGood(fine) == Return("none")

Opened(fine) ==
  IF fine THEN Return("none") ELSE pc' = "next_info" /\ error' = "none"

BugKeepStrings == held' = {} /\ UNCHANGED strings

free_sound_card_info == held' = {} /\ strings' = strings - Cardinality(held)
-----------------------------------------------------------------------------
(***************************************************************************)
(* soundc_get_next_info.                                                   *)
(***************************************************************************)
soundc_get_next_info ==
  /\ pc = "next_info"
  /\ \/ /\ info
        /\ free_sound_card_info
        /\ pc' = "card_next"
        /\ UNCHANGED <<info, index, error, shortages>>
     \/ /\ ~info
        /\ info' = TRUE /\ index' = 0
        /\ pc' = "card_next"
        /\ UNCHANGED <<held, strings, error, shortages>>
     \/ /\ ~info
        /\ Shortage(1) /\ Return("enomem")
        /\ UNCHANGED <<struct, index>>
  /\ UNCHANGED <<cards, listed, said>>

\* After the last card soundc_release frees what the struct holds, but not
\* the struct.
snd_card_next ==
  /\ pc = "card_next"
  /\ \/ /\ Return("alsa")
        /\ UNCHANGED <<struct, index>>
     \/ /\ index < Len(cards)
        /\ index' = index + 1
        /\ pc' = "ctl_open"
        /\ UNCHANGED <<struct, error>>
     \/ /\ index = Len(cards)
        /\ free_sound_card_info
        /\ info' = FALSE
        /\ Return("none")
        /\ UNCHANGED index
  /\ UNCHANGED <<cards, listed, said, shortages>>

\* snd_ctl_open, by the number of the card.
open_and_fetch_sound_card_details ==
  /\ pc = "ctl_open"
  /\ \/ /\ UNCHANGED shortages
        /\ IF cards[index] = "no open" THEN Opened(FALSE)
                                       ELSE pc' = "fetch" /\ UNCHANGED error
     \/ Shortage(1) /\ Return("enomem")
  /\ UNCHANGED <<cards, index, struct, listed, said>>

\* Nobody looks whether the strings could be had.
fetch_sound_card_details ==
  /\ pc = "fetch"
  /\ \/ /\ cards[index] = "no info"
        /\ UNCHANGED <<held, strings, shortages>>
     \/ \E got \in SUBSET Fields :
        /\ cards[index] # "no info"
        /\ Shortage(Cardinality(Fields \ got))
        /\ held' = got
        /\ strings' = strings + Cardinality(got)
  /\ pc' = "ctl_close"
  /\ UNCHANGED <<cards, index, info, listed, said, error>>

snd_ctl_close ==
  /\ pc = "ctl_close"
  /\ Opened(cards[index] = "good")
  /\ UNCHANGED <<cards, index, struct, listed, said, shortages>>
-----------------------------------------------------------------------------
(***************************************************************************)
(* list_sound_cards.  Which cards there are shows when it is called.       *)
(***************************************************************************)
list_sound_cards ==
  /\ pc = "idle"
  /\ pc' = "next_info"
  /\ cards' \in UNION {[1 .. n -> {"good", "no open", "no info", "no close"}] :
                         n \in 0 .. MaxCards}
  /\ UNCHANGED <<index, struct, listed, said, error, shortages>>

Header ==
  /\ pc = "returned" /\ said = "nothing"
  /\ said' = IF info THEN "available" ELSE "none"
  /\ UNCHANGED <<pc, cards, index, struct, listed, error, shortages>>

\* The identification and the name of a card are asserted to be there; for
\* its other fields there is something to print when they are not.
PrintCard ==
  /\ pc = "returned" /\ said = "available" /\ error = "none" /\ info
  /\ IF {"hardware_id", "long_name"} \subseteq held
     THEN pc' = "next_info" /\ listed' = Append(listed, index)
     ELSE pc' = "crashed" /\ UNCHANGED listed
  /\ UNCHANGED <<cards, index, struct, said, error, shortages>>

Return_list_sound_cards ==
  /\ pc = "returned"
  /\ \/ said = "none"
     \/ said = "available" /\ (error # "none" \/ ~info)
  /\ pc' = "over"
  /\ UNCHANGED <<cards, index, struct, listed, said, error, shortages>>

Step ==
  \/ soundc_get_next_info \/ snd_card_next \/ open_and_fetch_sound_card_details
  \/ fetch_sound_card_details \/ snd_ctl_close
  \/ Header \/ PrintCard \/ Return_list_sound_cards
-----------------------------------------------------------------------------
(***************************************************************************)
(* Properties.                                                             *)
(***************************************************************************)
GoodCards == {i \in DOMAIN cards : cards[i] = "good"}

Listed == {listed[k] : k \in DOMAIN listed}

\* What is printed are the cards that can be used, each once and in order,
\* whichever others are passed over between them (player.c:159-165), and all
\* of them unless memory runs out or the next card is not to be had; "No
\* valid sound hardware" is not said when there is some.
GoodCardsAreListed ==
  /\ \A j \in DOMAIN listed, k \in DOMAIN listed : j < k => listed[j] < listed[k]
  /\ \E n \in 0 .. Len(cards) : Listed = {i \in GoodCards : i <= n}
  /\ pc = "over" /\ error \notin {"alsa", "enomem"} =>
       Listed = GoodCards /\ (said = "none" <=> GoodCards = {})

\* The strings of a card that was passed over are freed before those of the
\* next take their place, and the last ones before the end, error or not.
StringsAreFreed ==
  /\ strings = Cardinality(held)
  /\ pc = "over" => strings = 0
=============================================================================
