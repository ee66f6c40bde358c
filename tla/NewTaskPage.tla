---------------------------- MODULE NewTaskPage -----------------------------
(***************************************************************************)
(* The form for a new task: one prompt per line that is not blank, and the *)
(* platforms ticked in a menu that a click elsewhere closes.  The backend  *)
(* refuses a submission with more prompts than it allows.                  *)
(***************************************************************************)
EXTENDS Naturals

CONSTANTS
    PlatformOptions,
    MaxPrompts      \* 50 in validateSubmit

ASSUME FormAssumption == MaxPrompts \in Nat \ {0}

VARIABLES
    promptCount,
    selectedPlatforms,
    platformOpen,
    creating        \* a submission that will be accepted is under way; one at a time, a bound

formVars == <<promptCount, selectedPlatforms, platformOpen>>

FormBlank ==
    /\ promptCount = 1 /\ selectedPlatforms = {} /\ platformOpen = FALSE

FormCleared ==
    /\ promptCount' = 1 /\ selectedPlatforms' = {} /\ platformOpen' = FALSE
-----------------------------------------------------------------------------
(* Typing is a click elsewhere. *)
EditPrompts ==
    /\ promptCount' \in 0..(MaxPrompts + 1)
    /\ platformOpen' = FALSE
    /\ UNCHANGED <<selectedPlatforms, creating>>

ClickTrigger ==
    /\ platformOpen' = ~platformOpen
    /\ UNCHANGED <<promptCount, selectedPlatforms, creating>>

ClosePlatformSelect ==
    /\ platformOpen /\ platformOpen' = FALSE
    /\ UNCHANGED <<promptCount, selectedPlatforms, creating>>

TogglePlatform(p) ==
    /\ platformOpen
    /\ selectedPlatforms' = IF p \in selectedPlatforms THEN selectedPlatforms \ {p}
                            ELSE selectedPlatforms \cup {p}
    /\ UNCHANGED <<promptCount, platformOpen, creating>>

ValidateSubmit(prompts, platforms) ==
    prompts \in 1..MaxPrompts /\ platforms # {}

(* The button is disabled while its request is under way; one of a form    *)
(* that was left goes on.  A refusal (422) leaves the form as it is.       *)
Submit ==
    /\ ~creating /\ promptCount # 0 /\ selectedPlatforms # {}
    /\ creating' = ValidateSubmit(promptCount, selectedPlatforms)
    /\ platformOpen' = FALSE
    /\ UNCHANGED <<promptCount, selectedPlatforms>>

CreateFails ==
    /\ creating
    /\ creating' = FALSE
    /\ UNCHANGED formVars

FormNext ==
    \/ EditPrompts \/ ClickTrigger \/ ClosePlatformSelect
    \/ \E p \in PlatformOptions : TogglePlatform(p)
    \/ Submit
-----------------------------------------------------------------------------
FormTypeOK ==
    /\ promptCount \in 0..(MaxPrompts + 1)
    /\ selectedPlatforms \subseteq PlatformOptions
    /\ platformOpen \in BOOLEAN
    /\ creating \in BOOLEAN
=============================================================================
