----------------------------- MODULE CaptureReader -----------------------------
(***************************************************************************)
(* One Accessibility capture of the foreground window.  Every question to  *)
(* the application is a call of its own, so the user may switch windows,   *)
(* navigate, move the focus, lock the session or enter a password field    *)
(* between any two of them: the reader asks the decisive questions again   *)
(* after the text has been read.                                           *)
(***************************************************************************)
EXTENDS Integers, Sequences

CONSTANTS
    Windows, Pages, Elements,
    Own,           \* windows of the desktop app itself
    Siblings,      \* windows of one application; any other has its own process
    Alike,         \* pages that show the same title
    Web,           \* pages in an AXWebArea with a URL
    Unlabelled,    \* pages in an AXWebArea that tells no URL
    Deep,          \* pages whose document lies beyond the node or depth limit
    Slack,         \* windows of Slack
    WhatsApp,      \* pages of WhatsApp Web at its exact origin
    HostExcluded,  \* documents whose URL a browser-host rule or a regex excludes
    TitleExcluded, \* pages whose window title a rule excludes
    MaxChanges     \* bound: changes of the screen during one capture

VARIABLES
    front, page, focus,         \* the window in front; of each window: its page,
                                \* the focused element
    frame,                      \* the page of the frame in the window being read
    secure, locked,             \* secure keyboard input; the session is locked
    changes, past, returned,    \* since the capture began: what the screen has shown,
                                \* and whether it has shown something twice
    pc, part,                   \* where the reader is; the node it is at
    target,                     \* the expected window of a contextual reply
    window, focused, title, urls,   \* what it found at first
    urlsAgain,                  \* what the second walk found
    text,                       \* the text read: [part, window, page, secure]
    outcome

screen == <<front, page, frame, focus, secure, locked>>
seen == <<changes, past, returned>>
found == <<window, focused, title, urls>>
reader == <<pc, part, target, found, urlsAgain, text, outcome>>
vars == <<screen, seen, reader>>

None == "none"
Document == Web \cup Unlabelled
Parts == <<"window", "document", "frame">>
Outcomes == {"captured", "blacklisted", "secure", "nofocus", "mismatch", "unsupported",
             "denied", "failed"}

Process(w) == IF w \in Siblings THEN "siblings" ELSE w
Title(p) == IF p \in Alike THEN "alike" ELSE p
\* read_browser_url_metadata: the walk stops at a document and never enters it
Observed(p) == IF p \in Web \ Deep THEN <<p>> ELSE <<>>
Undecided(p) == p \in Unlabelled \cup Deep
Targets == [process : {Process(w) : w \in Windows}, title : {Title(p) : p \in Pages},
            id : Windows \cup {None}]
Any == [process |-> None, title |-> None, id |-> None]   \* no target: capture_foreground

Init ==
    /\ front \in Windows /\ page \in [Windows -> Pages] /\ frame \in Pages
    /\ focus \in [Windows -> Elements \cup {None}] /\ secure = FALSE /\ locked = FALSE
    /\ changes = 0 /\ past = {} /\ returned = FALSE
    /\ pc = "idle" /\ part = 1 /\ target = Any
    /\ window = None /\ focused = None /\ title = None /\ urls = <<>> /\ urlsAgain = <<>>
    /\ text = {} /\ outcome = None

-----------------------------------------------------------------------------
\* The screen changes under the reader: everything about it that can be asked for.
Shown ==
    {<<"front", front>>, <<"secure", secure>>, <<"locked", locked>>, <<"frame", frame>>}
    \cup {<<"title", w, Title(page[w])>> : w \in Windows}
    \cup {<<"urls", w, Observed(page[w])>> : w \in Windows}
    \cup {<<"undecided", w, Undecided(page[w])>> : w \in Windows}
    \cup {<<"focus", w, focus[w]>> : w \in Windows}

Change ==
    /\ pc \notin {"idle", "over"} /\ changes < MaxChanges
    /\ changes' = changes + 1
    /\ past' = past \cup Shown'
    /\ returned' = (returned \/ (Shown' \ Shown) \cap past # {})
    /\ UNCHANGED reader

Switch == /\ \E w \in Windows \ {front} : front' = w
          /\ UNCHANGED <<page, frame, focus, secure, locked>>
          /\ Change
Navigate == /\ \E w \in Windows, p \in Pages : p # page[w] /\ page' = [page EXCEPT ![w] = p]
            /\ UNCHANGED <<front, frame, focus, secure, locked>>
            /\ Change
NavigateFrame == /\ \E p \in Pages \ {frame} : frame' = p
                 /\ UNCHANGED <<front, page, focus, secure, locked>>
                 /\ Change
Refocus == /\ \E w \in Windows, e \in Elements \cup {None} :
                 e # focus[w] /\ focus' = [focus EXCEPT ![w] = e]
           /\ UNCHANGED <<front, page, frame, secure, locked>>
           /\ Change
Protect == /\ secure' = ~secure /\ UNCHANGED <<front, page, frame, focus, locked>> /\ Change
Lock == /\ locked' = ~locked /\ UNCHANGED <<front, page, frame, focus, secure>> /\ Change

-----------------------------------------------------------------------------
\* What the reader concludes.
End(o) == /\ pc' = "over" /\ outcome' = o
          /\ UNCHANGED <<part, target, found, urlsAgain>>
Rejected == IF target = Any THEN "blacklisted" ELSE "mismatch"

\* capture_state, and the check of secure input alone inside the walks
Blocked == IF secure THEN "secure" ELSE IF locked THEN "nofocus" ELSE None

\* requires_browser_url_preflight: a rule can only be decided with the URL
NeedsUrl == HostExcluded # {}

\* finalize_browser_url_preflight: any excluded URL, or an unknown one, excludes
Excluded(p, t) == \/ NeedsUrl /\ Undecided(p)
                  \/ \E u \in {Observed(p)[i] : i \in 1..Len(Observed(p))} : u \in HostExcluded
                  \/ t \in {Title(q) : q \in TitleExcluded}

\* web_document_is_authorized: every document is asked again before its text
Authorized(p) == (p \in Document /\ NeedsUrl) => (p \in Web /\ p \notin HostExcluded)

\* validate_capture_target, from shallow metadata only
ValidatedFaulty(w, t) == target = Any \/ target.title = t   \* the title alone
Validated(w, t) == \/ target = Any
                   \/ /\ target.process = Process(w) /\ target.title = t
                      /\ target.id \in {None, w}
                      /\ focused # None

\* capture_contextual_reply_after_surface_preflight
Surface(w, us) == w \in Slack \/ (us # <<>> /\ \A i \in DOMAIN us : us[i] \in WhatsApp)

\* capture_focus_observation_is_stable, browser_capture_metadata_is_stable
Stable == front = window /\ focus[window] = focused
SameViewFaulty(again, t) == t = title            \* the title alone
SameView(again, t) == again = urls /\ t = title

-----------------------------------------------------------------------------
\* capture_sync_for_target
Begin ==
    /\ pc \in {"idle", "over"}
    /\ target' \in Targets \cup {Any}
    /\ window' = None /\ focused' = None /\ title' = None
    /\ urls' = <<>> /\ urlsAgain' = <<>> /\ text' = {} /\ part' = 1
    /\ changes' = 0 /\ past' = Shown /\ returned' = FALSE
    /\ \/ pc' = "over" /\ outcome' = "denied"           \* no Accessibility permission
       \/ Blocked # None /\ pc' = "over" /\ outcome' = Blocked
       \/ Blocked = None /\ pc' = "window" /\ outcome' = None
    /\ UNCHANGED screen

\* Any question may fail, or find the budget for text exhausted.
Fail == /\ pc \notin {"idle", "over"} /\ End("failed")
        /\ UNCHANGED <<screen, seen, text>>

\* foreground_application; the desktop app's own window is passed over for
\* what the process manager says is in front behind it, if anything is.
FindWindow ==
    /\ pc = "window"
    /\ \/ \E w \in IF front \in Own THEN Windows \ Own ELSE {front} :
             /\ window' = w /\ focused' = focus[w] /\ pc' = "shallow"
             /\ UNCHANGED <<part, target, title, urls, urlsAgain, outcome>>
       \/ front \in Own /\ End("nofocus")
    /\ UNCHANGED <<screen, seen, text>>

ReadShallow ==
    /\ pc = "shallow"
    /\ LET t == Title(page[window]) IN
       \/ ~Validated(window, t) /\ End("mismatch")
       \/ /\ Validated(window, t)
          /\ t \in {Title(q) : q \in TitleExcluded} /\ End("blacklisted")
       \/ /\ Validated(window, t)
          /\ t \notin {Title(q) : q \in TitleExcluded}
          /\ title' = t /\ pc' = "walk"
          /\ UNCHANGED <<part, target, window, focused, urls, urlsAgain, outcome>>
    /\ UNCHANGED <<screen, seen, text>>

\* The URL-only walk, capture_state, and the surface of a contextual reply;
\* the walk itself fails as soon as secure input is on.
Walk ==
    /\ pc = "walk"
    /\ LET p == page[window] IN
       \/ secure /\ End("secure")
       \/ ~secure /\ Excluded(p, title) /\ End("blacklisted")
       \/ ~secure /\ ~Excluded(p, title) /\ locked /\ End("nofocus")
       \/ /\ ~secure /\ ~Excluded(p, title) /\ ~locked
          /\ \/ target # Any /\ ~Surface(window, Observed(p)) /\ End("unsupported")
             \/ /\ target = Any \/ Surface(window, Observed(p))
                /\ urls' = Observed(p) /\ pc' = "authorize"
                /\ UNCHANGED <<part, target, window, focused, title, urlsAgain, outcome>>
    /\ UNCHANGED <<screen, seen, text>>

\* read_node, once for each node: what the node shows now decides
Node == IF Parts[part] = "frame" THEN frame ELSE page[window]

Authorize ==
    /\ pc = "authorize"
    /\ \/ secure /\ End("secure")
       \/ /\ ~secure /\ Parts[part] # "window" /\ ~Authorized(Node) /\ End("blacklisted")
       \/ /\ ~secure /\ (Parts[part] = "window" \/ Authorized(Node))
          /\ pc' = "fields"
          /\ UNCHANGED <<part, target, found, urlsAgain, outcome>>
    /\ UNCHANGED <<screen, seen, text>>

BeforeFields ==
    /\ pc = "fields"
    /\ \/ secure /\ End("secure")
       \/ ~secure /\ pc' = "read" /\ UNCHANGED <<part, target, found, urlsAgain, outcome>>
    /\ UNCHANGED <<screen, seen, text>>

CopyText ==
    /\ pc = "read"
    /\ text' = text \cup {[part |-> Parts[part], window |-> window, page |-> Node,
                           secure |-> secure]}
    /\ pc' = "after"
    /\ UNCHANGED <<screen, seen, part, target, found, urlsAgain, outcome>>

\* Below the limits there are no children to read.
Children == \/ Parts[part] = "window" /\ page[window] \notin Deep
            \/ Parts[part] = "document" /\ page[window] \in Document

AfterFields ==
    /\ pc = "after"
    /\ \/ secure /\ End("secure")
       \/ ~secure /\ Children /\ part' = part + 1 /\ pc' = "authorize"
          /\ UNCHANGED <<target, found, urlsAgain, outcome>>
       \/ ~secure /\ ~Children /\ locked /\ End("nofocus")
       \/ ~secure /\ ~Children /\ ~locked /\ pc' = "confirm"
          /\ UNCHANGED <<part, target, found, urlsAgain, outcome>>
    /\ UNCHANGED <<screen, seen, text>>

Confirm ==
    /\ pc = "confirm"
    /\ \/ ~Stable /\ End(Rejected)
       \/ Stable /\ pc' = "rewalk" /\ UNCHANGED <<part, target, found, urlsAgain, outcome>>
    /\ UNCHANGED <<screen, seen, text>>

WalkAgain ==
    /\ pc = "rewalk"
    /\ \/ secure /\ End("secure")
       \/ ~secure /\ Excluded(page[window], title) /\ End("blacklisted")
       \/ /\ ~secure /\ ~Excluded(page[window], title)
          /\ urlsAgain' = Observed(page[window]) /\ pc' = "retitle"
          /\ UNCHANGED <<part, target, found, outcome>>
    /\ UNCHANGED <<screen, seen, text>>

Conclude ==
    /\ pc = "retitle"
    /\ LET t == Title(page[window]) IN
       \/ ~SameView(urlsAgain, t) /\ End(Rejected)
       \/ SameView(urlsAgain, t) /\ Blocked # None /\ End(Blocked)
       \/ SameView(urlsAgain, t) /\ Blocked = None /\ End("captured")
    /\ UNCHANGED <<screen, seen, text>>

Next ==
    \/ Switch \/ Navigate \/ NavigateFrame \/ Refocus \/ Protect \/ Lock
    \/ Begin \/ FindWindow \/ ReadShallow \/ Walk
    \/ Authorize \/ BeforeFields \/ CopyText \/ AfterFields
    \/ Confirm \/ WalkAgain \/ Conclude \/ Fail

Spec == Init /\ [][Next]_vars

-----------------------------------------------------------------------------
TypeOK ==
    /\ front \in Windows /\ page \in [Windows -> Pages] /\ frame \in Pages
    /\ focus \in [Windows -> Elements \cup {None}] /\ secure \in BOOLEAN /\ locked \in BOOLEAN
    /\ changes \in 0..MaxChanges /\ returned \in BOOLEAN /\ part \in 1..Len(Parts)
    /\ target \in Targets \cup {Any} /\ window \in (Windows \ Own) \cup {None}
    /\ outcome \in Outcomes \cup {None}

\* However the screen moved, unless something about it came back to what it had been:
\* a capture that is kept holds text of one page only, the page its metadata
\* names and no rule excludes, and none of it was read while a password was
\* being typed.  (The document inside a frame is
\* asked before its text is read, and not again after it.)
Kept == outcome = "captured" /\ ~returned
ExcludedStaysOut ==
    Kept => \A t \in text :
                /\ ~t.secure
                /\ t.part # "frame" => /\ Title(t.page) = title /\ Observed(t.page) = urls
                                       /\ t.page \notin HostExcluded \cup TitleExcluded
                                       /\ NeedsUrl => t.page \notin Unlabelled

\* A contextual reply reads no text, kept or not, from a window other than the
\* one the hotkey was pressed in (as far as the request could name it), and
\* keeps none of a surface it does not support.
OnlyTheTarget ==
    target # Any =>
        /\ \A t \in text : /\ target.process = Process(t.window)
                           /\ target.id \in {None, t.window}
        /\ Kept => \A t \in text :
                       t.part # "frame" => /\ Title(t.page) = target.title
                                           /\ t.window \in Slack \/ t.page \in WhatsApp

\* The same of the documents in frames: they are authorized one by one, but the
\* second walk stops at the outer document, so this does not hold.
FramesStayOut == Kept => \A t \in text : t.part = "frame" => t.page \notin HostExcluded
================================================================================
