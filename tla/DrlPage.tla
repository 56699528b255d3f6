------------------------------- MODULE DrlPage --------------------------------
(***************************************************************************)
(* What the browser package adds to a page (web-features.ts): links to DRLs*)
(* that wait for the DID to be resolved before they navigate, in the page  *)
(* or in a tab, behind an overlay that can be clicked away; and the context*)
(* menu of an image, for which the image shows its address at the DWN.     *)
(*                                                                         *)
(* The page goes on while the browser loads the address it has been given: *)
(* a stop does not take that back and another click may replace it.        *)
(*                                                                         *)
(* Whether a DID is resolved and whether an image is in the worker's cache *)
(* is not known to the page: either may be the case.                       *)
(***************************************************************************)
EXTENDS Integers, FiniteSets

CONSTANTS
    Link,            \* links: DID, path and whether they open a tab
    Image,
    None,
    MaxClicks, MaxPresses   \* bounds

VARIABLES
    activeNavigation,    \* the path the page goes to, or None
    linkLoading,         \* the attribute drl-link-loading: the overlay is shown
    timers,              \* overlays that are to be shown after 50 ms
    clicks,              \* links whose DID is being resolved, with their number
    href,                \* the link whose address the window has been given, or None
    gone,                \* the page has been left for it
    contextMenuTarget,
    src,                 \* what each image shows: its DRL or the address composed of it
    looking,             \* cache lookups of each image
    listening,           \* images that wait for a pointerup
    frames,              \* pointerups that wait for a frame
    count,               \* clicks and presses so far
    wanted, wish,        \* history: the link the user wants; the one wanted when href was set
    late, hasty          \* history: a timer fired with no navigation; images looked up
                         \* after their menu had gone

linkVars == <<activeNavigation, linkLoading, timers, clicks, href, gone, wanted, wish, late>>
menuVars == <<contextMenuTarget, src, looking, listening, frames, hasty>>
vars == <<linkVars, menuVars, count>>

Init ==
    /\ activeNavigation = None /\ linkLoading = FALSE /\ timers = 0 /\ clicks = {}
    /\ href = None /\ gone = FALSE /\ wanted = None /\ wish = None /\ late = FALSE
    /\ contextMenuTarget = None /\ src = [i \in Image |-> "drl"]
    /\ looking = [i \in Image |-> 0] /\ listening = {} /\ frames = 0 /\ hasty = {}
    /\ count = [clicks |-> 0, presses |-> 0]

---------------------------------------------------------------------------
(* Links *)

Click(link) ==
    /\ ~gone /\ count.clicks < MaxClicks
    /\ count' = [count EXCEPT !.clicks = @ + 1]
    /\ clicks' = clicks \cup {[link |-> link, nr |-> count.clicks]}
    /\ IF link.tab THEN UNCHANGED <<activeNavigation, timers, wanted>>
       ELSE activeNavigation' = link.path /\ timers' = timers + 1 /\ wanted' = link
    /\ UNCHANGED <<linkLoading, href, gone, wish, late, menuVars>>

ShowOverlay ==
    /\ ~gone /\ timers > 0
    /\ timers' = timers - 1 /\ linkLoading' = TRUE
    /\ late' = (late \/ activeNavigation = None)
    /\ UNCHANGED <<activeNavigation, clicks, href, gone, wanted, wish, count, menuVars>>

CancelNavigation ==
    /\ ~gone /\ linkLoading
    /\ linkLoading' = FALSE /\ activeNavigation' = None /\ wanted' = None /\ late' = FALSE
    /\ UNCHANGED <<timers, clicks, href, gone, wish, count, menuVars>>

\* Mutant: whoever is resolved first navigates.
NavigateFirst(c) ==
    /\ ~gone /\ c \in clicks
    /\ clicks' = clicks \ {c}
    /\ IF c.link.tab THEN UNCHANGED <<href, wish>>
       ELSE href' = c.link /\ wish' = wanted
    /\ UNCHANGED <<activeNavigation, linkLoading, timers, gone, wanted, late, count, menuVars>>

\* The endpoints are there: a tab goes to the first of them, unless it has been
\* closed, and the page if its path is still the one to go to.
Navigate(c) ==
    /\ ~gone /\ c \in clicks
    /\ clicks' = clicks \ {c}
    /\ IF ~c.link.tab /\ activeNavigation = c.link.path
       THEN href' = c.link /\ wish' = wanted
       ELSE UNCHANGED <<href, wish>>
    /\ UNCHANGED <<activeNavigation, linkLoading, timers, gone, wanted, late, count, menuVars>>

\* The browser has loaded the address.
Leave ==
    /\ href # None /\ ~gone
    /\ gone' = TRUE
    /\ UNCHANGED <<activeNavigation, linkLoading, timers, clicks, href, wanted, wish, late,
                   count, menuVars>>

\* The DID has none: whatever goes to the same path is cancelled.
NavigationFails(c) ==
    /\ ~gone /\ c \in clicks
    /\ clicks' = clicks \ {c}
    /\ IF activeNavigation = c.link.path
       THEN linkLoading' = FALSE /\ activeNavigation' = None /\ wanted' = None /\ late' = FALSE
       ELSE UNCHANGED <<linkLoading, activeNavigation, wanted, late>>
    /\ UNCHANGED <<timers, href, gone, wish, count, menuVars>>

---------------------------------------------------------------------------
(* The context menu *)

ResetContextMenuTarget ==
    /\ contextMenuTarget' = None
    /\ src' = [i \in Image |-> IF i = contextMenuTarget THEN "drl" ELSE src[i]]

\* pointerdown with the right button: an image that shows its address is no target.
PressImage(i) ==
    /\ ~gone /\ count.presses < MaxPresses
    /\ count' = [count EXCEPT !.presses = @ + 1]
    /\ LET shows == IF i = contextMenuTarget THEN "drl" ELSE src[i] IN
       IF shows # "drl" THEN ResetContextMenuTarget /\ UNCHANGED looking
       ELSE /\ contextMenuTarget' = i
            /\ src' = [j \in Image |-> IF j = contextMenuTarget THEN "drl" ELSE src[j]]
            /\ looking' = [looking EXCEPT ![i] = @ + 1]
    /\ UNCHANGED <<listening, frames, hasty, linkVars>>

\* The cache is read; an image that is not there raises an exception.
LookedUp(i) ==
    /\ ~gone /\ looking[i] > 0
    /\ looking' = [looking EXCEPT ![i] = @ - 1]
    /\ \/ /\ src' = [src EXCEPT ![i] = "composed"]
          /\ listening' = listening \cup {i}
          /\ hasty' = IF contextMenuTarget = i THEN hasty ELSE hasty \cup {i}
       \/ UNCHANGED <<src, listening, hasty>>
    /\ UNCHANGED <<contextMenuTarget, frames, count, linkVars>>

PointerUp(i) ==
    /\ ~gone /\ i \in listening
    /\ listening' = listening \ {i} /\ frames' = frames + 1
    /\ UNCHANGED <<contextMenuTarget, src, looking, hasty, count, linkVars>>

AnimationFrame ==
    /\ ~gone /\ frames > 0
    /\ frames' = frames - 1
    /\ ResetContextMenuTarget
    /\ UNCHANGED <<looking, listening, hasty, count, linkVars>>

\* pointercancel, a right press elsewhere or a left one on the target.
PointerCancel ==
    /\ ~gone /\ contextMenuTarget # None
    /\ ResetContextMenuTarget
    /\ UNCHANGED <<looking, listening, frames, hasty, count, linkVars>>

LinkNext ==
    \/ \E link \in Link : Click(link)
    \/ ShowOverlay \/ CancelNavigation \/ Leave
    \/ \E c \in clicks : Navigate(c) \/ NavigationFails(c)
MenuNext ==
    \/ \E i \in Image : PressImage(i) \/ LookedUp(i) \/ PointerUp(i)
    \/ AnimationFrame \/ PointerCancel
Next == LinkNext \/ MenuNext

---------------------------------------------------------------------------
(* Properties *)

\* The address the window is given is that of the last link clicked that has not
\* been stopped by then, or of the same path of a DID that was clicked before:
\* activeNavigation has the path only.  Whatever is stopped or clicked later does
\* not take it back (web-features.ts 346-400).
NavigatesAsWanted == href # None => wish # None /\ wish.path = href.path

\* The overlay is shown while the page is going somewhere; exception: its timer
\* is not stopped when the navigation ends within 50 ms (web-features.ts 346-378).
OverlayJustified == linkLoading => activeNavigation # None \/ late

\* An image whose context menu has gone shows its DRL again; exception: one that
\* is looked up in the cache only after that, and keeps the composed address
\* (web-features.ts 402-443).
SourcesRestored == \A i \in Image : src[i] = "composed" => i = contextMenuTarget \/ i \in hasty
=============================================================================
