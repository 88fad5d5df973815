----------------------------- MODULE Transcript -----------------------------
(***************************************************************************)
(* YouTubeTranscript.run (deye/connectors/youtube.py): the captions of one *)
(* video, by two routes.  The first lists the video's caption tracks and   *)
(* fetches the one chosen; the second reads the track list out of the      *)
(* watch page.  Each route makes two fetches, either of which may raise    *)
(* (ConnectorError, or anything a server's answer provokes), and any       *)
(* shortfall of the first falls through to the second.                     *)
(*                                                                         *)
(* A track is its language, its kind and whether its text, once fetched    *)
(* and parsed, holds any segment.  StartsWith relates a preferred language *)
(* to the language codes it selects ("en" selects "en" and "en-GB").       *)
(***************************************************************************)
EXTENDS Naturals, Sequences, FiniteSets, SequencesExt

CONSTANTS
    Languages,      \* language codes of tracks
    English,        \* those that start with "en"
    Unset,          \* no preferred language in the request
    MaxTracks       \* bound: tracks of a video

ASSUME TranscriptAssumption ==
    /\ English \subseteq Languages /\ Unset \notin Languages
    /\ MaxTracks \in Nat

VARIABLES
    wanted,     \* lang_pref: a code, or Unset
    tracks,     \* the track list the current route read
    at,         \* "list" | "text1" | "page" | "text2" | "returned"
    routes,     \* how each route ended so far
    given       \* what run() returned

captionVars == <<wanted, tracks, at, routes, given>>

Tracks == [lang : Languages, auto : BOOLEAN]
TrackLists == UNION {[1 .. n -> Tracks] : n \in 0 .. MaxTracks}

NoCaptions == [available |-> FALSE, lang |-> Unset, segments |-> 0]

TranscriptInit ==
    /\ wanted \in Languages \union {Unset}
    /\ tracks = <<>> /\ at = "list" /\ given = NoCaptions
    /\ routes = [route \in {"list", "page"} |-> "untried"]

Route1 == {"list", "text1"}
Stages == Route1 \union {"page", "text2"}
ThisRoute == IF at \in Route1 THEN "list" ELSE "page"
AfterRoute == IF at \in Route1 THEN "page" ELSE "returned"

StartsWith(prefix, code) == prefix = code \/ (prefix = "en" /\ code \in English)

IsWanted(t) == wanted # Unset /\ StartsWith(wanted, t.lang)
IsEnglish(t) == t.lang \in English
IsHumanEnglish(t) == IsEnglish(t) /\ ~ t.auto

(* _pick_track: the first human English track, else the first English one, *)
(* else the first one.                                                     *)
PickTrack(list) ==
    LET human == {i \in DOMAIN list : IsHumanEnglish(list[i])}
        english == {i \in DOMAIN list : IsEnglish(list[i])}
        best == IF human # {} THEN human ELSE IF english # {} THEN english ELSE DOMAIN list
    IN  list[Min(best)]

(* _choose: the preferred language comes before all of that.               *)
ChooseTrack(list) ==
    LET preferred == {i \in DOMAIN list : IsWanted(list[i])}
    IN  IF preferred # {} THEN list[Min(preferred)] ELSE PickTrack(list)

(* The list, or the page, arrived: an unreadable one parses to no tracks.  *)
ReadTracks(list) ==
    /\ at \in {"list", "page"}
    /\ tracks' = list
    /\ IF list = <<>>
         THEN /\ at' = AfterRoute
              /\ routes' = [routes EXCEPT ![ThisRoute] = "empty"]
         ELSE /\ at' = IF at = "list" THEN "text1" ELSE "text2"
              /\ UNCHANGED routes
    /\ UNCHANGED <<wanted, given>>

(* ReadText, had a track list settled the matter: no second route after an *)
(* empty text.                                                             *)
ReadTextOnce(count) ==
    /\ at \in {"text1", "text2"}
    /\ at' = "returned"
    /\ routes' = [routes EXCEPT ![ThisRoute] = IF count > 0 THEN "served" ELSE "empty"]
    /\ given' = [available |-> count > 0, lang |-> ChooseTrack(tracks).lang,
                 segments |-> count]
    /\ UNCHANGED <<wanted, tracks>>

(* The chosen track arrived, with some number of segments. *)
ReadText(count) ==
    /\ at \in {"text1", "text2"}
    /\ IF count > 0
         THEN /\ at' = "returned"
              /\ routes' = [routes EXCEPT ![ThisRoute] = "served"]
              /\ given' = [available |-> TRUE, lang |-> ChooseTrack(tracks).lang,
                           segments |-> count]
         ELSE /\ at' = AfterRoute
              /\ routes' = [routes EXCEPT ![ThisRoute] = "empty"]
              /\ UNCHANGED given
    /\ UNCHANGED <<wanted, tracks>>

(* Any exception of a route becomes a warning, and the next route's turn.  *)
RouteRaises ==
    /\ at \in Stages
    /\ at' = AfterRoute
    /\ routes' = [routes EXCEPT ![ThisRoute] = "raised"]
    /\ UNCHANGED <<wanted, tracks, given>>

TranscriptNext ==
    \/ \E list \in TrackLists : ReadTracks(list)
    \/ \E count \in 0 .. 1 : ReadText(count)
    \/ RouteRaises

TranscriptSpec == TranscriptInit /\ [][TranscriptNext]_captionVars

-----------------------------------------------------------------------------

TranscriptTypeOK ==
    /\ wanted \in Languages \union {Unset}
    /\ tracks \in TrackLists
    /\ at \in Stages \union {"returned"}
    /\ routes \in [{"list", "page"} -> {"untried", "empty", "raised", "served"}]
    /\ given \in [available : BOOLEAN, lang : Languages \union {Unset}, segments : Nat]

(* The call says "no captions" only after both routes came to nothing, and *)
(* captions only with text in hand, in the caller's language whenever the  *)
(* list offered it and otherwise in English whenever the list offered that *)
(* (youtube.py: "degrades cleanly (available=False)").                     *)
TranscriptHonest ==
    at = "returned" =>
      IF given.available
        THEN /\ given.segments > 0
             /\ (\E t \in Range(tracks) : IsWanted(t)) => StartsWith(wanted, given.lang)
             /\ (/\ \A t \in Range(tracks) : ~ IsWanted(t)
                 /\ \E t \in Range(tracks) : IsEnglish(t)) => given.lang \in English
        ELSE \A route \in DOMAIN routes : routes[route] \in {"empty", "raised"}

=============================================================================
