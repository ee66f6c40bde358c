---------------------------- MODULE SettingsPage ----------------------------
(***************************************************************************)
(* The settings of the React frontend: a form of two fields saved by one   *)
(* or two calls, over an API key that the Node backend keeps in memory and *)
(* the callback URL that the service keeps for the account of that key.    *)
(* Other administrators and a restart of the backend change both.  Only    *)
(* what String.trim leaves of the key field is ever used, and is all that  *)
(* is kept of it here.                                                     *)
(***************************************************************************)
EXTENDS Naturals, Sequences

CONSTANTS
    ApiKeys,        \* each the key of an account of its own
    Urls,
    Trim,           \* String.trim of a URL
    Blank,          \* an empty field, a missing key, no URL
    NotYet          \* the query has no answer

ASSUME SettingsAssumption == Blank \notin ApiKeys \cup Urls /\ NotYet \notin Urls
ASSUME TrimAssumption ==
    /\ Trim \in [Urls \cup {Blank} -> Urls \cup {Blank}] /\ Trim[Blank] = Blank
    /\ \A u \in Urls : Trim[Trim[u]] = Trim[u]

VARIABLES
    runtimeToken,   \* of the backend
    callbackUrls,   \* of the service, per account
    canEditApiKey,  \* the settings have come and allow it
    current,        \* currentCallbackUrl, of the query
    urlQuery,       \* "none", "asked", or the answer on its way
    apiKey,         \* field
    callbackUrl,    \* field
    save,           \* the mutation
    typed,          \* auxiliary: the URL field was edited since current last changed
    disturbed       \* auxiliary: someone else has set the key during a save of one

outsideVars == <<runtimeToken, callbackUrls>>
fieldVars == <<canEditApiKey, apiKey, callbackUrl>>
settingsVars == <<outsideVars, current, urlQuery, fieldVars, save, typed, disturbed>>

MaybeKeys == ApiKeys \cup {Blank}
MaybeUrls == Urls \cup {Blank}

(* typed and shown are auxiliary: of a save that sends a URL, typed as it  *)
(* began and, when that was FALSE, the URL of the query.                   *)
NoSave == [pending |-> FALSE, calls |-> <<>>, apiKey |-> Blank, callbackUrl |-> Blank,
           typed |-> FALSE, shown |-> Blank]
-----------------------------------------------------------------------------
(* The query for the URL: on mount, on focus, after a save. *)

RefetchUrl ==
    /\ urlQuery = "none"
    /\ urlQuery' = "asked"
    /\ UNCHANGED <<outsideVars, current, fieldVars, save, typed, disturbed>>

(* GET /api/callback-url asks the service with the backend's key. *)
ReadUrl ==
    /\ urlQuery = "asked" /\ runtimeToken # Blank
    /\ urlQuery' = callbackUrls[runtimeToken]
    /\ UNCHANGED <<outsideVars, current, fieldVars, save, typed, disturbed>>

(* Mutant of DeliverUrl: the field is filled in once. *)
DeliverUrlOnce ==
    /\ urlQuery \in MaybeUrls
    /\ current' = urlQuery /\ urlQuery' = "none"
    /\ IF current = NotYet THEN callbackUrl' = urlQuery ELSE UNCHANGED callbackUrl
    /\ typed' = (typed /\ current' = current)
    /\ UNCHANGED <<outsideVars, canEditApiKey, apiKey, save, disturbed>>

(* A URL other than the one before it overwrites the field. *)
DeliverUrl ==
    /\ urlQuery \in MaybeUrls
    /\ current' = urlQuery /\ urlQuery' = "none"
    /\ IF current' # current
         THEN callbackUrl' = urlQuery /\ typed' = FALSE
         ELSE UNCHANGED <<callbackUrl, typed>>
    /\ UNCHANGED <<outsideVars, canEditApiKey, apiKey, save, disturbed>>

UrlQueryFails ==
    /\ urlQuery # "none"
    /\ urlQuery' = "none"
    /\ UNCHANGED <<outsideVars, current, fieldVars, save, typed, disturbed>>

SettingsArrive ==
    /\ ~canEditApiKey /\ canEditApiKey' = TRUE
    /\ UNCHANGED <<outsideVars, current, urlQuery, apiKey, callbackUrl, save, typed, disturbed>>
-----------------------------------------------------------------------------
(* The form.  Its fields stay open while a save is under way. *)

TypeKey(k) ==
    /\ canEditApiKey /\ apiKey' = k
    /\ UNCHANGED <<outsideVars, current, urlQuery, canEditApiKey, callbackUrl, save, typed,
                   disturbed>>

TypeUrl(u) ==
    /\ callbackUrl' = u /\ typed' = TRUE
    /\ UNCHANGED <<outsideVars, current, urlQuery, canEditApiKey, apiKey, save, disturbed>>

CurrentUrl == IF current = NotYet THEN Blank ELSE current

(* The field is trimmed, the answer is not: one with spaces at its ends,   *)
(* which anything but this form may have set, counts as changed.           *)
CallbackChanged == Trim[callbackUrl] # CurrentUrl

KeyCall == IF canEditApiKey /\ apiKey # Blank THEN <<"api-key">> ELSE <<>>
UrlCall == IF CallbackChanged THEN <<"callback-url">> ELSE <<>>

(* Mutant of Calls: the URL first. *)
CallsUrlFirst == UrlCall \o KeyCall

Calls == KeyCall \o UrlCall

SaveAll ==
    /\ ~save.pending /\ Calls # <<>>
    /\ save' = [pending |-> TRUE, calls |-> Calls,
                apiKey |-> IF KeyCall = <<>> THEN Blank ELSE apiKey,
                callbackUrl |-> IF CallbackChanged THEN Trim[callbackUrl] ELSE Blank,
                typed |-> typed /\ CallbackChanged,
                shown |-> IF CallbackChanged /\ ~typed THEN CurrentUrl ELSE Blank]
    /\ UNCHANGED <<outsideVars, current, urlQuery, fieldVars, typed, disturbed>>

Called(call) ==
    /\ save.calls # <<>> /\ Head(save.calls) = call
    /\ save' = [save EXCEPT !.calls = Tail(save.calls)]
    /\ UNCHANGED <<current, urlQuery, fieldVars, typed, disturbed>>

(* PUT /api/settings/api-key *)
UpdateApiKey ==
    /\ Called("api-key")
    /\ runtimeToken' = save.apiKey
    /\ UNCHANGED callbackUrls

(* PUT /api/callback-url *)
UpdateCallbackUrl ==
    /\ Called("callback-url")
    /\ runtimeToken # Blank
    /\ callbackUrls' = [callbackUrls EXCEPT ![runtimeToken] = save.callbackUrl]
    /\ UNCHANGED runtimeToken

(* Of a key typed meanwhile nothing is left.  The query is invalidated:    *)
(* what is under way is cancelled, except the first fetch of all.          *)
Saved ==
    /\ save.pending /\ save.calls = <<>>
    /\ save' = NoSave
    /\ apiKey' = Blank
    /\ urlQuery' = IF current = NotYet /\ urlQuery # "none" THEN urlQuery ELSE "asked"
    /\ disturbed' = FALSE
    /\ UNCHANGED <<outsideVars, current, canEditApiKey, callbackUrl, typed>>

(* A call fails, or its answer is lost: what was done stays done, the      *)
(* fields stay as they are and nothing is read again.                      *)
SaveFails ==
    /\ save.pending
    /\ save' = NoSave
    /\ disturbed' = FALSE
    /\ UNCHANGED <<outsideVars, current, urlQuery, fieldVars, typed>>
-----------------------------------------------------------------------------
(* Others save; a restart goes back to the configured key. *)

OthersSetKey ==
    /\ runtimeToken' \in MaybeKeys
    /\ disturbed' = (save.apiKey # Blank)
    /\ UNCHANGED <<callbackUrls, current, urlQuery, fieldVars, save, typed>>

OthersSetUrl ==
    /\ \E k \in ApiKeys, u \in MaybeUrls : callbackUrls' = [callbackUrls EXCEPT ![k] = u]
    /\ UNCHANGED <<runtimeToken, current, urlQuery, fieldVars, save, typed, disturbed>>

(* Absent, left, entered.  The cache may hold an answer of an earlier      *)
(* visit; what others have set meanwhile they may as well set now.         *)
SettingsAbsent ==
    /\ runtimeToken = Blank /\ callbackUrls = [k \in ApiKeys |-> Blank]
    /\ canEditApiKey = FALSE /\ current = NotYet /\ urlQuery = "none"
    /\ apiKey = Blank /\ callbackUrl = Blank /\ save = NoSave
    /\ typed = FALSE /\ disturbed = FALSE

SettingsFresh ==
    /\ runtimeToken' = Blank /\ callbackUrls' = [k \in ApiKeys |-> Blank]
    /\ canEditApiKey' = FALSE /\ apiKey' = Blank /\ save' = NoSave
    /\ typed' = FALSE /\ disturbed' = FALSE

SettingsUnmount ==
    SettingsFresh /\ current' = NotYet /\ urlQuery' = "none" /\ callbackUrl' = Blank

SettingsMount ==
    /\ SettingsFresh
    /\ urlQuery' = "asked"
    /\ current' \in MaybeUrls \cup {NotYet}
    /\ callbackUrl' = IF current' = NotYet THEN Blank ELSE current'

SettingsNext ==
    \/ RefetchUrl \/ ReadUrl \/ DeliverUrl \/ UrlQueryFails \/ SettingsArrive
    \/ \E k \in MaybeKeys : TypeKey(k)
    \/ \E u \in MaybeUrls : TypeUrl(u)
    \/ SaveAll \/ UpdateApiKey \/ UpdateCallbackUrl \/ Saved \/ SaveFails
    \/ OthersSetKey \/ OthersSetUrl
-----------------------------------------------------------------------------
SettingsTypeOK ==
    /\ runtimeToken \in MaybeKeys /\ callbackUrls \in [ApiKeys -> MaybeUrls]
    /\ canEditApiKey \in BOOLEAN /\ current \in MaybeUrls \cup {NotYet}
    /\ urlQuery \in {"none", "asked"} \cup MaybeUrls
    /\ apiKey \in MaybeKeys /\ callbackUrl \in MaybeUrls
    /\ save.calls \in Seq({"api-key", "callback-url"})
    /\ save.apiKey \in MaybeKeys /\ save.callbackUrl \in MaybeUrls

(* A URL the page has only read is not written back over what others have  *)
(* set since (but for spaces at its ends), whenever the answers come: what *)
(* is sent was typed after the query last brought another URL.  It need    *)
(* not have been typed for this save: until the query has read a URL again *)
(* that was just saved, saving a key sends that URL once more.             *)
OnlyTypedUrlsAreSent ==
    [][UpdateCallbackUrl => save.typed \/ save.callbackUrl = Trim[save.shown]]_settingsVars

(* A key and a URL saved together end in one account, the key's, unless    *)
(* somebody else has set the key in between.                               *)
UrlFollowsKey ==
    [][UpdateCallbackUrl /\ save.apiKey # Blank /\ ~disturbed
          => runtimeToken = save.apiKey]_settingsVars
=============================================================================
