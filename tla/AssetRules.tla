----------------------------- MODULE AssetRules ------------------------------
(***************************************************************************)
(* The rules a reference asset passes through, without state: what an      *)
(* upload accepts (api/src/mvp-routes.ts, storage/src/video-inspector.ts), *)
(* which assets a task may refer to, what the worker's publishers and the  *)
(* API's asset route ask of a stored file (storage/src/asset-publisher.ts, *)
(* storage/src/s3-presigned-asset-publisher.ts), and how long a signed URL *)
(* lives.  Assets_proofs relates them: what is uploaded can be         *)
(* published, and what is published can be fetched.                        *)
(*                                                                         *)
(* A file is what the checks see of its bytes.  Durations are the integral *)
(* microseconds ffprobe prints, times are milliseconds; a checksum stands  *)
(* for the bytes it is the checksum of.                                    *)
(***************************************************************************)
EXTENDS Integers, FiniteSets

CONSTANTS Checksums,    \* the contents files may have
          Streams,      \* what ffprobe says of the video stream: size, codec, rate...
          UploadMax,    \* UPLOAD_MAX_BYTES
          VideoMax,     \* APP_VIDEO_MAX_BYTES
          ImageMax      \* SEEDANCE_ASSET_MAX_BYTES

ASSUME AssetRulesAssumption ==
  UploadMax \in Nat \ {0} /\ VideoMax \in Nat \ {0} /\ ImageMax \in Nat \ {0}

ImageTypes == {"image/png", "image/jpeg", "image/webp"}
MimeTypes == ImageTypes \cup {"video/mp4", "other"}

\* A file: its bytes, their number, the type its first bytes tell, and
\* ffprobe's verdict on it.  An empty file is not a video.
File == [checksum: Checksums, size: Nat, magic: {"image/png", "image/jpeg", "other"},
         mp4: BOOLEAN, videoStreams: Nat, duration: Nat, stream: Streams, complete: BOOLEAN]
RealFile(f) == f \in File /\ (f.mp4 => f.size > 0)

-----------------------------------------------------------------------------
(* inspectMp4Video. *)

MinDuration == 2000000
MaxDuration == 15000000

\* parseProbeOutput, and the duration policy of both processes.
VideoAccepted(f) ==
  /\ f.mp4 /\ f.videoStreams = 1
  /\ f.duration > 0 /\ f.complete
  /\ MinDuration <= f.duration /\ f.duration <= MaxDuration

-----------------------------------------------------------------------------
(* POST /api/assets.  A row keeps the duration in milliseconds. *)

Rounded(duration) == (duration + 500) \div 1000

ImageRow(f, type) ==
  [kind |-> "INPUT_IMAGE", type |-> type, size |-> f.size, checksum |-> f.checksum,
   duration |-> 0, stream |-> f.stream]
VideoRow(f) ==
  [kind |-> "INPUT_VIDEO", type |-> "video/mp4", size |-> f.size, checksum |-> f.checksum,
   duration |-> Rounded(f.duration), stream |-> f.stream]

\* The multipart parser cuts off what is longer than either limit.  toBuffer,
\* which reads images, refuses such a file; the stream a video is read from
\* just ends there, and the handler does not look at `truncated`.
MultipartMax == IF VideoMax > UploadMax THEN VideoMax ELSE UploadMax
Streamed(f, files) ==
  IF f.size <= MultipartMax THEN {f} ELSE {g \in files : g.size = MultipartMax}

\* The status an upload is answered with, 500 aside: a video by what came
\* through, an image by what was sent.
UploadVideo(f, extension) ==
  IF ~extension THEN 415
  ELSE IF f.size > VideoMax \/ ~VideoAccepted(f) THEN 422 ELSE 201

UploadImage(f, type) ==
  IF type \notin ImageTypes THEN 415
  ELSE IF f.size > MultipartMax THEN 413 ELSE 201

-----------------------------------------------------------------------------
(* POST /api/tasks: the assets a task may refer to. *)

\* What getCapabilities says of references.
Capabilities == [seedance: BOOLEAN, supportsImages: BOOLEAN, supportsVideos: BOOLEAN,
                 maxImages: Nat, maxVideos: Nat]

Images(assets) == {a \in assets : a.kind = "INPUT_IMAGE"}
Videos(assets) == {a \in assets : a.kind = "INPUT_VIDEO"}

ProviderImageTypes == {"image/png", "image/jpeg"}
ProviderVideoTypes == {"video/mp4"}

\* `assets` are the input assets the database has of the `asked` distinct ids.
\* Any conjunct that fails is a 400.
ReferencesAccepted(asked, assets, capabilities) ==
  /\ Cardinality(assets) = asked
  /\ Images(assets) # {} => capabilities.supportsImages
  /\ Cardinality(Images(assets)) <= capabilities.maxImages
  /\ Videos(assets) # {} => capabilities.supportsVideos
  /\ Cardinality(Videos(assets)) <= capabilities.maxVideos
  /\ capabilities.seedance =>
       /\ Cardinality(Images(assets)) + Cardinality(Videos(assets)) <= 1
       /\ \A a \in Images(assets) : a.type \in ProviderImageTypes
       /\ \A a \in Videos(assets) : a.type \in ProviderVideoTypes

\* The role the task gives an asset, and what the worker asks a publisher for.
PurposeOf(kind) == IF kind = "INPUT_VIDEO" THEN "reference-video" ELSE "reference-image"

-----------------------------------------------------------------------------
(* loadValidatedProviderAsset: may a file that exists be published, or served, *)
(* as what its row says?  Each conjunct is an error of its own.                *)

KindOf(purpose) == IF purpose = "reference-image" THEN "INPUT_IMAGE" ELSE "INPUT_VIDEO"
TypesOf(purpose) ==
  IF purpose = "reference-image" THEN ProviderImageTypes ELSE ProviderVideoTypes
MaxOf(purpose) == IF purpose = "reference-image" THEN ImageMax ELSE VideoMax

Near(a, b) == a - b <= 2000 /\ b - a <= 2000

\* validateStoredVideoMetadata: the row's milliseconds are within two of what
\* ffprobe says now.
SameVideo(row, f) ==
  /\ row.duration > 0
  /\ Near(row.duration * 1000, f.duration)
  /\ row.stream = f.stream

Publishable(row, f, purpose) ==
  /\ row.kind = KindOf(purpose)
  /\ row.type \in TypesOf(purpose)
  /\ row.size > 0 /\ row.size <= MaxOf(purpose)
  /\ f.size <= MaxOf(purpose)
  /\ purpose = "reference-image" => f.size > 0 /\ f.magic = row.type
  /\ purpose = "reference-video" => VideoAccepted(f) /\ SameVideo(row, f)
  /\ f.size = row.size /\ f.checksum = row.checksum

-----------------------------------------------------------------------------
(* Signed URLs. *)

\* publishForProvider refuses a minimum lifetime its own does not reach: the
\* signed URL of the API in milliseconds, the presigned one of EOS in seconds.
HmacTtlSuffices(minimum, ttl) == minimum > 0 /\ minimum <= ttl
EosTtlSuffices(minimum, seconds) == (minimum + 999) \div 1000 <= seconds

Expires(now, ttl) == now + ttl

\* authorizeProviderAsset, for a signature it made itself: not expired, and not
\* valid for longer than a URL can be.
Authorised(expires, now, ttl) == expires > now /\ expires - now <= ttl
=============================================================================
