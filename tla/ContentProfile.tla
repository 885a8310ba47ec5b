--------------------------- MODULE ContentProfile ---------------------------
(***************************************************************************)
(* The content profile of a coordinate set: what the bytes of its tiles    *)
(* are.  A caller of DataTiles.put names any part of it; the rest is       *)
(* filled in by _normalize_content and by the container's default.  These  *)
(* are the pure rules of src/src/datatiles/store.py that the container and *)
(* the abstract tile store share.                                          *)
(*                                                                         *)
(* Abstracted: aliases of a media type ("png" for "image/png") are one     *)
(* media type here, data_type follows the media type, and a schema is a    *)
(* member of a small set told apart only by whether it has vector_layers.  *)
(***************************************************************************)
EXTENDS Naturals

CONSTANTS
    DefaultMedia,   \* metadata 'datatiles:default_media_type', fixed when the file is created
    Request         \* the combinations of profile arguments the callers of put pass

MVT == "application/vnd.mapbox-vector-tile"

Media == {"image/png", "image/jpeg", "image/webp", MVT, "application/geo+json",
          "application/vnd.datatiles.numeric"}

Encoding == {"PNG", "JPEG", "WEBP", "MVT", "MVT+gzip", "GeoJSON", "DNT1"}

Schema == {"empty", "vector_layers"}

Profile == [media: Media, encoding: Encoding, schema: Schema]

\* The arguments of put that name a part of the profile: any subset of them is given.
Field == {"media", "encoding", "schema"}

ASSUME DefaultMediaAssumption == DefaultMedia \in Media

ASSUME RequestAssumption ==
    \A request \in Request :
        /\ request = [f \in DOMAIN request |-> request[f]]
        /\ DOMAIN request \subseteq Field
        /\ "media" \in DOMAIN request => request["media"] \in Media
        /\ "encoding" \in DOMAIN request => request["encoding"] \in Encoding
        /\ "schema" \in DOMAIN request => request["schema"] \in Schema

\* The codec _normalize_content takes for a media type when the caller names none.
DefaultEncoding(media) ==
    CASE media = MVT -> "MVT"
      [] media = "application/geo+json" -> "GeoJSON"
      [] media = "application/vnd.datatiles.numeric" -> "DNT1"
      [] media = "image/png" -> "PNG"
      [] media = "image/jpeg" -> "JPEG"
      [] OTHER -> "WEBP"

Given(request, field, default) ==
    IF field \in DOMAIN request THEN request[field] ELSE default

\* The profile a new coordinate set gets: the caller's fields, then the defaults.
NormalizeContent(request) ==
    LET media == Given(request, "media", DefaultMedia)
    IN  [media    |-> media,
         encoding |-> Given(request, "encoding", DefaultEncoding(media)),
         schema   |-> Given(request, "schema", "empty")]

\* _ensure_content compares only the fields the caller names with the stored profile.
Conflicts(request, profile) ==
    \E f \in DOMAIN request : request[f] # profile[f]

\* metadata 'format' of a selected slice.
MbtilesFormat(profile) ==
    CASE profile.media = MVT /\ profile.encoding = "MVT+gzip" -> "pbf"
      [] profile.media = "image/png" -> "png"
      [] profile.media = "image/jpeg" -> "jpg"
      [] profile.media = "image/webp" -> "webp"
      [] OTHER -> profile.media

\* metadata 'format' of a new file: its tile_format, which may be the alias "pbf".
InitialFormat ==
    {MbtilesFormat(NormalizeContent([f \in {} |-> ""]))}
        \union (IF DefaultMedia = MVT THEN {"pbf"} ELSE {})

Format == {"pbf", "png", "jpg", "webp"} \union Media
=============================================================================
