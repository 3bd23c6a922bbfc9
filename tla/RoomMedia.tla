----------------------------- MODULE RoomMedia -----------------------------
(***************************************************************************)
(* The videos a route watches together: the hub's queue                    *)
(* (backend/internal/ws/hub_media.go) and the MediaSection of every        *)
(* browser on the route.  Each browser plays the queue's head and, during  *)
(* a transition, the next one beside it; each reports the end of a video   *)
(* and the end of a transition on its own.  Messages between a browser and *)
(* the hub keep their order.                                               *)
(***************************************************************************)
EXTENDS Naturals, Sequences, FiniteSets, SequencesExt

CONSTANTS
    Watchers,       \* browsers on the route
    MaxVideos,      \* bound: videos ever added
    MaxSays,        \* bound: messages of one browser on their way
    MaxTurns,       \* bound: transitions started
    None

VARIABLES
    media,      \* the hub's state: [queue, turning], turning the TransitioningID
    view,       \* mediaState of each browser
    timer,      \* the item a browser's 20 s timer runs for
    asking,     \* completeTransition awaits the player's position
    says,       \* messages on their way to the hub
    syncs,      \* states on their way to a browser
    added, turns,
    meant,      \* history: items somebody saw end, skipped or faded from
    popped      \* history: items taken from the head of the queue

mediaVars == <<media, view, timer, asking, says, syncs, added, turns, meant, popped>>

RoomMediaInit ==
    /\ media = [queue |-> <<>>, turning |-> None]
    /\ view = [w \in Watchers |-> [queue |-> <<>>, turning |-> None]]
    /\ timer = [w \in Watchers |-> None] /\ asking = [w \in Watchers |-> FALSE]
    /\ says = [w \in Watchers |-> <<>>] /\ syncs = [w \in Watchers |-> <<>>]
    /\ added = 0 /\ turns = 0 /\ meant = {} /\ popped = {}

Says(w, type, item) ==
    Len(says[w]) < MaxSays /\ says' = [says EXCEPT ![w] = Append(@, [type |-> type, item |-> item])]

-----------------------------------------------------------------------------
(* A browser.                                                              *)

\* A link, a search result, or an item of the history or of a playlist.
handleAddVideo(w) ==
    /\ added < MaxVideos /\ added' = added + 1 /\ Says(w, "media:add", added + 1)
    /\ UNCHANGED <<media, view, timer, asking, syncs, turns, meant, popped>>
handleRemoveMedia(w) ==
    /\ \E i \in 2..Len(view[w].queue) : Says(w, "media:remove", view[w].queue[i])
    /\ UNCHANGED <<media, view, timer, asking, syncs, added, turns, meant, popped>>
\* The head of the queue has played to its end here.
handleEnded(w) ==
    /\ view[w].queue # <<>> /\ Says(w, "media:ended", Head(view[w].queue))
    /\ meant' = meant \cup {Head(view[w].queue)}
    /\ UNCHANGED <<media, view, timer, asking, syncs, added, turns, popped>>
\* The queue's second video is faded in, or jumped to; a jump is offered only
\* while it is not fading in.
startTransition(w) ==
    /\ Len(view[w].queue) > 1 /\ view[w].turning # view[w].queue[2]
    /\ turns < MaxTurns /\ turns' = turns + 1
    /\ Says(w, "media:transition:start", view[w].queue[2])
    /\ meant' = meant \cup {Head(view[w].queue)}
    /\ UNCHANGED <<media, view, timer, asking, syncs, added, popped>>
skipNow(w) ==
    /\ Len(view[w].queue) > 1 /\ view[w].turning # view[w].queue[2]
    /\ Says(w, "media:transition", Head(view[w].queue))
    /\ meant' = meant \cup {Head(view[w].queue)}
    /\ UNCHANGED <<media, view, timer, asking, syncs, added, turns, popped>>
\* The timer ends, or its button is clicked: completeTransition asks the player
\* where it is ...
completeTransition(w) ==
    /\ timer[w] # None /\ ~asking[w]
    /\ timer' = [timer EXCEPT ![w] = None]
    /\ asking' = [asking EXCEPT ![w] = view[w].queue # <<>>]
    /\ UNCHANGED <<media, view, says, syncs, added, turns, meant, popped>>
\* ... and with the answer sends off the head of the queue as it is by then.
transitionCompleted(w) ==
    /\ asking[w] /\ asking' = [asking EXCEPT ![w] = FALSE]
    /\ IF view[w].queue = <<>> THEN UNCHANGED says ELSE Says(w, "media:transition", Head(view[w].queue))
    /\ UNCHANGED <<media, view, timer, syncs, added, turns, meant, popped>>
\* media:sync: the timer is started for a new transition, stopped with none.
mediaSynced(w) ==
    /\ syncs[w] # <<>> /\ syncs' = [syncs EXCEPT ![w] = Tail(@)]
    /\ view' = [view EXCEPT ![w] = Head(syncs[w])]
    /\ timer' = [timer EXCEPT ![w] = IF Head(syncs[w]).turning = view[w].turning THEN @ ELSE Head(syncs[w]).turning]
    /\ UNCHANGED <<media, asking, says, added, turns, meant, popped>>

-----------------------------------------------------------------------------
(* The hub.                                                                *)

HasHead(m) == media.queue # <<>> /\ Head(media.queue) = m.item
\* What a message makes of the state (no item is ever added to loop).
Handled(m) ==
    CASE m.type = "media:add" -> [media EXCEPT !.queue = Append(@, m.item)]
      [] m.type = "media:remove" -> [media EXCEPT !.queue = SelectSeq(@, LAMBDA i : i # m.item)]
      [] m.type = "media:ended" /\ HasHead(m) -> [media EXCEPT !.queue = Tail(@)]
      [] m.type = "media:transition" /\ HasHead(m) -> [queue |-> Tail(media.queue), turning |-> None]
      [] m.type = "media:transition:start" /\ Len(media.queue) > 1 /\ media.queue[2] = m.item ->
             [media EXCEPT !.turning = m.item]
      [] OTHER -> media
\* A change is sent to everyone on the route.
handleMediaUpdate(w) ==
    /\ says[w] # <<>> /\ says' = [says EXCEPT ![w] = Tail(@)]
    /\ media' = Handled(Head(says[w]))
    /\ syncs' = IF media' = media THEN syncs ELSE [x \in Watchers |-> Append(syncs[x], media')]
    /\ popped' = IF Head(says[w]).type \in {"media:ended", "media:transition"} /\ HasHead(Head(says[w]))
                 THEN popped \cup {Head(says[w]).item} ELSE popped
    /\ UNCHANGED <<view, timer, asking, added, turns, meant>>

RoomMediaNext ==
    \E w \in Watchers :
        \/ handleAddVideo(w) \/ handleRemoveMedia(w) \/ handleEnded(w) \/ startTransition(w) \/ skipNow(w)
        \/ completeTransition(w) \/ transitionCompleted(w) \/ mediaSynced(w) \/ handleMediaUpdate(w)
RoomMediaSpec == RoomMediaInit /\ [][RoomMediaNext]_mediaVars

\* A video leaves the head of the queue only because somebody saw it end, skipped
\* it or faded from it: reports of several browsers do not pop the one after it
\* (the guard of hub_media.go on the item's id).
PopsAreMeant == popped \subseteq meant
=============================================================================
