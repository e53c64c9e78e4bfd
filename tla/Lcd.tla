---------------------------------- MODULE Lcd ----------------------------------
(***************************************************************************)
(* applications/lcd.c: what the display shows and what the module believes *)
(* it shows. A screen is named by its state or by its message; colours,    *)
(* fonts and layout are left out. The operators are the module's calls,    *)
(* used as part of the caller's action.                                    *)
(***************************************************************************)

CONSTANT Messages \* texts lcd_show_centered_message is called with

States == {"WELCOME", "WAIT_FINGER", "SUCCESS", "FAILED", "PRESS_TO_LOCK"}

\* current_state before the first call, and the screen before it.
Unset == "UNSET"

ASSUME MessagesAreNoStates == Messages \cap (States \cup {Unset}) = {}

VARIABLES lcd_mutex,     \* "null", "free", or "orphaned": its owner was deleted
          current_state, \* the state the module believes the screen shows
          screen         \* what the screen shows

lcdVars == <<lcd_mutex, current_state, screen>>

\* After lcd_display_init: there was memory for the mutex, or there was not.
LcdInit ==
    /\ lcd_mutex \in {"null", "free"}
    /\ current_state = Unset
    /\ screen = Unset

\* A caller waits forever for a mutex whose owner is gone. Without a mutex
\* the calls return at once.
LcdReturns == lcd_mutex # "orphaned"

\* Nothing is drawn when the module believes the screen shows this state.
lcd_set_state(state) ==
    /\ LcdReturns
    /\ IF lcd_mutex = "null" \/ state = current_state
       THEN UNCHANGED <<current_state, screen>>
       ELSE current_state' = state /\ screen' = state
    /\ UNCHANGED lcd_mutex

\* Draws over the screen and leaves current_state as it is.
lcd_show_centered_message(text) ==
    /\ LcdReturns
    /\ screen' = IF lcd_mutex = "null" THEN screen ELSE text
    /\ UNCHANGED <<lcd_mutex, current_state>>

\* A caller deleted while it draws keeps the mutex. Nobody reads or changes
\* current_state and the screen after that.
LcdOwnerDies ==
    /\ lcd_mutex = "free"
    /\ lcd_mutex' = "orphaned"
    /\ UNCHANGED <<current_state, screen>>

LcdTypeOK ==
    /\ lcd_mutex \in {"null", "free", "orphaned"}
    /\ current_state \in States \cup {Unset}
    /\ screen \in States \cup Messages \cup {Unset}
================================================================================
