---------------------------- MODULE ContentChecks ----------------------------
(***************************************************************************)
(* What is asked of the content of an upload before it is stored: its      *)
(* size, the signature of the type it was sent as, the allowlist of its    *)
(* context, the dimensions of an image, script in a PDF and the opinion of *)
(* clamd.  Each check passes what it does not know, so what they come to   *)
(* together rests on tables in three files that have to agree.             *)
(***************************************************************************)
EXTENDS Integers

CONSTANTS
  Types,    \* content types that are sent
  Headers,  \* first bytes: the fragments found in them, each with its offset
  Sizes, Areas,  \* bytes; pixels, 0 when sharp cannot tell
  Scripts   \* where the first script token of a PDF ends, 0 when it has none

ASSUME NumbersAssumption == Sizes \cup Areas \cup Scripts \subseteq Nat

Contexts == {"message", "avatar", "group_icon"}
PUBLIC_READABLE_CONTEXTS == {"avatar", "group_icon"}

\* What clamd says of a blob, in three pieces.
Verdict(infected) == <<"stream", IF infected THEN "FO" ELSE "O",
                                   IF infected THEN "UND" ELSE "K">>

\* A file as it was sent.  plain: its type has neither parameters nor capitals.
\* heard, ends: how much of the verdict arrives, and how the connection ends.
Contents ==
  [type : Types, plain : BOOLEAN, head : Headers, size : Sizes, area : Areas,
   script : Scripts, infected : BOOLEAN, heard : 0..3,
   ends : {"unconfigured", "end", "timeout", "error"}]

-----------------------------------------------------------------------------
(* The tables *)

OPAQUE == "application/octet-stream"

Office ==
  {"application/vnd.openxmlformats-officedocument.wordprocessingml.document",
   "application/vnd.openxmlformats-officedocument.spreadsheetml.sheet",
   "application/vnd.openxmlformats-officedocument.presentationml.presentation"}

\* A type and one of its signatures.
Starts(type, bytes) == <<type, {<<0, bytes>>}>>
Brand(type, b) == <<type, {<<4, "ftyp">>, <<8, b>>}>>
Riff(type, form) == <<type, {<<0, "RIFF">>, <<8, form>>}>>

ImageMagic ==
  {Starts("image/jpeg", "ffd8ff"), Starts("image/png", "89PNG"),
   Starts("image/gif", "GIF8"), Riff("image/webp", "WEBP")}
  \cup {Brand("image/heic", b) : b \in {"heic", "heix", "hevc"}}
  \cup {Brand("image/heif", b) : b \in {"mif1", "msf1"}}

MediaMagic ==
  {<<t, {<<4, "ftyp">>}>> : t \in {"video/mp4", "audio/mp4"}}
  \cup {Starts(t, "EBML") : t \in {"video/webm", "video/x-matroska"}}
  \cup {Brand("video/quicktime", "qt"), Riff("audio/wav", "WAVE")}
  \cup {Starts("audio/mpeg", b) : b \in {"fffb", "fff3", "fff2", "ID3"}}
  \cup {Starts("audio/aac", b) : b \in {"fff1", "fff9"}}
  \cup {Starts("audio/ogg", "OggS")}

DocumentMagic ==
  {Starts("application/pdf", "%PDF"), Starts("application/msword", "d0cf11e0")}
  \cup {Starts(t, "PK34") : t \in Office \cup {"application/zip"}}

MAGIC_MAP == ImageMagic \cup MediaMagic \cup DocumentMagic

\* Mutant: HEIF was added to the other tables only.
IMAGES_WITHOUT_HEIF == {"image/jpeg", "image/png", "image/gif", "image/webp"}

IMAGE_MIME_TYPES ==
  {"image/jpeg", "image/png", "image/gif", "image/webp", "image/heic", "image/heif"}

THUMBNAIL_ALLOWED_MIME ==
  {"image/jpeg", "image/png", "image/gif", "image/webp", "image/heic", "image/heif"}

MessageTypes ==
  {"image/jpeg", "image/png", "image/gif", "image/webp", "image/heic", "image/heif",
   "video/mp4", "video/quicktime", "video/webm", "video/x-matroska",
   "audio/mpeg", "audio/ogg", "audio/wav", "audio/mp4", "audio/aac",
   "application/pdf", "application/msword", "application/zip", OPAQUE} \cup Office

AvatarTypes ==
  {"image/jpeg", "image/png", "image/gif", "image/webp", "image/heic", "image/heif"}

CONTEXT_MIME_ALLOWLIST ==
  [ctx \in Contexts |-> IF ctx = "message" THEN MessageTypes ELSE AvatarTypes]

MB == 1024 * 1024
CONTEXT_SIZE_LIMITS == [ctx \in Contexts |-> IF ctx = "message" THEN 100 * MB ELSE 5 * MB]
THUMBNAIL_MAX_BYTES == 5 * MB
MAX_PIXELS == 50000000
PDF_JS_SCAN_BYTES == 64 * 1024

-----------------------------------------------------------------------------
(* The checks.  All but the allowlist normalise the type. *)

Signed(c) == \E e \in MAGIC_MAP : e[1] = c.type /\ e[2] \subseteq c.head

\* validateMagicBytes: a type it does not know passes.
MagicOk(c) == (\E e \in MAGIC_MAP : e[1] = c.type) => Signed(c)

\* CONTEXT_MIME_ALLOWLIST[context].has(file.mimetype)
Listed(c, allowed) == c.plain /\ c.type \in allowed

\* checkImageDimensions
DimensionsOk(c) == c.type \in IMAGE_MIME_TYPES => c.area <= MAX_PIXELS

\* checkPdfJavaScript: only the first bytes are searched.
ScriptOk(c) == c.type = "application/pdf" => c.script \notin 1..PDF_JS_SCAN_BYTES

\* The pieces that arrived before the connection ended, put together.
Answer(c) == [i \in 1..c.heard |-> Verdict(c.infected)[i]]

Found(answer) ==
  \E i, j \in DOMAIN answer : j = i + 1 /\ answer[i] = "FO" /\ answer[j] = "UND"

\* checkClamAv: an error, a timeout or an answer without FOUND passes.
ClamAvOk(c) == c.ends = "end" => ~Found(Answer(c))

\* What upload asks, in this order, and the status it answers with.
Questions(ctx, c) ==
  << <<c.size <= CONTEXT_SIZE_LIMITS[ctx], 413>>,
     <<MagicOk(c), 415>>, <<Listed(c, CONTEXT_MIME_ALLOWLIST[ctx]), 415>>,
     <<DimensionsOk(c), 413>>, <<ScriptOk(c), 422>>, <<ClamAvOk(c), 422>> >>

\* The same of a thumbnail, which is neither measured nor scanned.
ThumbnailQuestions(c) ==
  << <<MagicOk(c), 415>>, <<Listed(c, THUMBNAIL_ALLOWED_MIME), 415>>,
     <<c.size <= THUMBNAIL_MAX_BYTES, 413>> >>

\* The first question that is answered with no decides.
Outcome(questions) ==
  LET refused == {i \in DOMAIN questions : ~questions[i][1]}
  IN  IF refused = {} THEN 201
      ELSE LET first == CHOOSE i \in refused : \A j \in refused : i <= j
           IN  questions[first][2]

-----------------------------------------------------------------------------
(* What the checks come to. *)

\* Of each context: what is stored carries a signature of its type, unless it is an
\* opaque message; what anyone may read is an image sharp found small enough or could
\* not measure; nothing clamd reported in full is there.
Fit(ctx, c) ==
  /\ Signed(c) \/ (ctx = "message" /\ c.type = OPAQUE)
  /\ ctx \in PUBLIC_READABLE_CONTEXTS =>
       /\ \E e \in ImageMagic : e[2] \subseteq c.head
       /\ c.area <= MAX_PIXELS
  /\ ~(c.infected /\ c.heard = 3 /\ c.ends = "end")

=============================================================================
