------------------------------ MODULE CurlSheet ------------------------------
(***************************************************************************)
(* The sheet that builds a curl command for a case.  An effect asks the    *)
(* server for it whenever the sheet is open and something it depends on    *)
(* has changed; only the answer to the latest request counts.  The session *)
(* changes under the open sheet, as the runner's list is polled.           *)
(***************************************************************************)
CONSTANTS Session, NoSession, Text

VARIABLES
    open, session, text,     \* props: the sheet, the runner's session and body
    curlMode, reveal,        \* state of the sheet
    asked,                   \* the latest request: what it is about, and where
    clip,                    \* the curl on the clipboard
    unveiled                 \* history: the user asked to reveal, in this stay
                             \* in direct mode

curlVars == <<open, session, text, curlMode, reveal, asked, clip, unveiled>>

CurlModes == {"proxy", "direct"}
Settings == [session : Session, mode : CurlModes, reveal : BOOLEAN, text : Text]
Blank == [phase |-> "none"]
CurlRequests == [phase : {"pending", "data", "error"}, for : Settings]

CurlSheetTypeOK ==
    /\ open \in BOOLEAN /\ session \in Session \union {NoSession} /\ text \in Text
    /\ curlMode \in CurlModes /\ reveal \in BOOLEAN
    /\ asked \in CurlRequests \union {Blank}
    /\ clip \in Settings \union {Blank}
    /\ unveiled \in BOOLEAN

CurlInit ==
    /\ open = FALSE /\ session \in Session \union {NoSession} /\ text \in Text
    /\ curlMode = "proxy" /\ reveal = FALSE
    /\ asked = Blank /\ clip = Blank /\ unveiled = FALSE

(* Mutant: the effect does not depend on what the request is about. *)
EffectOnce ==
    asked' = IF open' /\ session' # NoSession /\ asked = Blank
             THEN [phase |-> "pending",
                   for |-> [session |-> session', mode |-> curlMode',
                            reveal |-> reveal', text |-> text']]
             ELSE asked

(* The render after a change, and its effect: a new request drops the      *)
(* answer, or the answer to come, of the one before it.                    *)
Effect ==
    asked' = IF open' /\ session' # NoSession
             THEN [phase |-> "pending",
                   for |-> [session |-> session', mode |-> curlMode',
                            reveal |-> reveal', text |-> text']]
             ELSE asked

(* Mutant: proxy mode does not mask again. *)
SwitchModeKeepsReveal(m) ==
    /\ open /\ curlMode' = m /\ m # curlMode
    /\ unveiled' = (unveiled /\ m = "direct" /\ curlMode = "direct")
    /\ UNCHANGED <<open, session, text, reveal, clip>>
    /\ Effect

SwitchMode(m) ==
    /\ open /\ curlMode' = m /\ m # curlMode
    /\ reveal' = (reveal /\ m # "proxy")
    /\ unveiled' = (unveiled /\ m = "direct" /\ curlMode = "direct")
    /\ UNCHANGED <<open, session, text, clip>>
    /\ Effect

ToggleReveal ==
    /\ open /\ curlMode = "direct"
    /\ reveal' = ~reveal /\ unveiled' = ~reveal
    /\ UNCHANGED <<open, session, text, curlMode, clip>>
    /\ Effect

OpenSheet ==
    /\ ~open /\ session # NoSession /\ open' = TRUE
    /\ UNCHANGED <<session, text, curlMode, reveal, clip, unveiled>>
    /\ Effect

CloseSheet ==
    /\ open /\ open' = FALSE
    /\ UNCHANGED <<session, text, curlMode, reveal, asked, clip, unveiled>>

(* The sheet covers the editor, but not the polling of the session list.   *)
EditBody(t) ==
    /\ ~open /\ text' = t /\ t # text
    /\ UNCHANGED <<open, session, curlMode, reveal, asked, clip, unveiled>>

SessionMoves(s) ==
    /\ session' = s /\ s # session
    /\ UNCHANGED <<open, text, curlMode, reveal, clip, unveiled>>
    /\ Effect

CurlArrives ==
    /\ asked.phase = "pending"
    /\ asked' \in {[asked EXCEPT !.phase = "data"], [asked EXCEPT !.phase = "error"]}
    /\ UNCHANGED <<open, session, text, curlMode, reveal, clip, unveiled>>

(* The server masks what it is not asked to reveal, in direct mode only.   *)
Revealed(f) == f.reveal /\ f.mode = "direct"

CurlReady ==
    /\ asked.phase = "data"
    /\ curlMode = "direct" => Revealed(asked.for) = reveal

Copy ==
    /\ open /\ CurlReady
    /\ clip' = asked.for
    /\ UNCHANGED <<open, session, text, curlMode, reveal, asked, unveiled>>

CurlNext ==
    \/ ToggleReveal \/ OpenSheet \/ CloseSheet \/ CurlArrives \/ Copy
    \/ \E m \in CurlModes : SwitchMode(m)
    \/ \E t \in Text : EditBody(t)
    \/ \E s \in Session \union {NoSession} : SessionMoves(s)

CurlSpec == CurlInit /\ [][CurlNext]_curlVars
------------------------------------------------------------------------------
(* As long as a session is left, what is copied was built for it and for   *)
(* the mode, the masking and the text that the sheet shows.                *)
CopyIsShown ==
    clip' # clip /\ session # NoSession =>
      /\ clip'.session = session /\ clip'.mode = curlMode
      /\ Revealed(clip') = reveal /\ clip'.text = text

CopiesWhatIsShown == [][CopyIsShown]_curlVars

(* The comment on CurlSheet: "Proxy mode carries no secret". *)
ProxyCarriesNoSecret ==
    [][clip' # clip /\ curlMode = "proxy" => ~Revealed(clip')]_curlVars

(* "direct always starts masked": real credentials are asked for only      *)
(* after the user asked to reveal them since the mode last became direct.  *)
RevealIsAskedFor ==
    asked' # asked /\ asked'.phase = "pending" /\ Revealed(asked'.for)
      => unveiled'

RevealsOnlyOnDemand == [][RevealIsAskedFor]_curlVars
==============================================================================
