------------------------------ MODULE HttpOta ------------------------------
(***************************************************************************)
(* em_http_ota (http_ota.c): the "ota" task and its queue.                 *)
(*                                                                         *)
(* http_ota_submit_start queues an OTA_START whose param is the URL.  The  *)
(* task blocks on ota_q while ticks_to_wait is portMAX_DELAY, and polls it *)
(* while handle_ota_process returns 0; a poll that finds no message runs   *)
(* the machine with the last message again.  handle_ota_process keeps its  *)
(* machine state ms and two handles, https_ota_handle and decrypt_handle, *)
(* in statics, and reports each step with esp_event_post on the event     *)
(* loop.  The results of the ESP-IDF calls are chosen from what they can  *)
(* return; the calls in Faults may fail.  An image is read in Chunks       *)
(* pieces; the decrypt callback validates the application header of the   *)
(* first decrypted piece.                                                  *)
(*                                                                         *)
(* A handle is "null", "live", or "freed": a pointer the component still  *)
(* holds to an object ESP-IDF has released.  esp_encrypted_img_decrypt_end *)
(* and esp_https_ota_finish release their handle whatever they return.    *)
(***************************************************************************)
EXTENDS Integers, Sequences

CONSTANTS
  OtaQLen,      \* CONFIG_EM_HTTP_OTA_MAX_QUEUE_MSGS
  Chunks,       \* pieces esp_https_ota_perform reads the image in
  Accuracy,     \* CONFIG_EM_HTTP_OTA_PROGRESS_ACCURACY
  ImageVer,     \* the version in the image's esp_app_desc_t
  Faults        \* the ESP-IDF calls that may fail

ASSUME /\ OtaQLen \in Nat \ {0}
       /\ Chunks \in Nat \ {0}
       /\ Accuracy \in Nat \ {0} /\ 100 % Accuracy = 0
       /\ Faults \subseteq {"decrypt_start", "begin", "perform", "decrypt",
                            "incomplete", "decrypt_end", "finish"}

(* em_http_ota_err_code_t *)
EM_HTTP_OTA_ERR_NONE == 0
EM_HTTP_OTA_ERR_REJECTED == 2
EM_HTTP_OTA_ERR_ABORTED == 3
EM_HTTP_OTA_ERR_IMG_INVALID == 4
EM_HTTP_OTA_ERR_VERIFY == 5
EM_HTTP_OTA_ERR_INIT == 64
EM_HTTP_OTA_ERR_INTERNAL == 65
EM_HTTP_OTA_ERR_INCOMPLETE == 66
EM_HTTP_OTA_ERR_CLEANUP == 67

ESP_FAIL == -1
UINT8_MAX == 255

VARIABLES
  otaQ,      \* OTA_START messages in ota_q (every one carries the same URL)
  ticks,     \* ticks_to_wait: "max" (block) or "zero" (poll)
  ms,        \* the machine state: "begin", "transfer", "downloaded", "finished"
  hnd,       \* [https, decrypt]: the two handles
  ctx,       \* decrypt_ctx: .validated, .err, .size (pieces decrypted)
  progressLast,
  evq,       \* events posted to the event loop and not yet handled
  bootSet,   \* esp_https_ota_finish set the boot partition to the image
  freedUse,  \* a released handle was passed to ESP-IDF again
  installed  \* the running firmware's version (esp_app_get_description)

otaVars == <<otaQ, ticks, ms, hnd, ctx, progressLast, evq, bootSet, freedUse, installed>>

NoHandles == [https |-> "null", decrypt |-> "null"]
NoCtx == [validated |-> FALSE, err |-> EM_HTTP_OTA_ERR_NONE, size |-> 0]

Ev(id, data) == [id |-> id, data |-> data]

OInit(ver) ==
  /\ otaQ = 0
  /\ ticks = "max"
  /\ ms = "begin"
  /\ hnd = NoHandles
  /\ ctx = NoCtx
  /\ progressLast = UINT8_MAX
  /\ evq = <<>>
  /\ bootSet = FALSE
  /\ freedUse = FALSE
  /\ installed = ver

(* After esp_restart: the statics are back to their initial values, and  *)
(* the image ver runs; the boot partition stays as it is.                 *)
OReset(ver) ==
  /\ otaQ' = 0
  /\ ticks' = "max"
  /\ ms' = "begin"
  /\ hnd' = NoHandles
  /\ ctx' = NoCtx
  /\ progressLast' = UINT8_MAX
  /\ evq' = <<>>
  /\ bootSet' = FALSE
  /\ freedUse' = freedUse
  /\ installed' = ver

-----------------------------------------------------------------------------

(* abort_ota_handle, for the handles h as they are: abort each that is   *)
(* not NULL and set it to NULL, then post EM_HTTP_OTA_EVENT_ABORT with    *)
(* the error after the events q.  Aborting a released handle is a use     *)
(* after free.                                                            *)
abort_ota_handle(h, q, err) ==
  /\ freedUse' = (freedUse \/ "freed" \in {h.https, h.decrypt})
  /\ hnd' = NoHandles
  /\ evq' = Append(q, Ev("abort", err))

(* The end of handle_ota_process after an error: back to BEGIN, free the *)
(* resources, block on the queue.                                         *)
Fail(h, q, err) ==
  /\ ms' = "begin"
  /\ abort_ota_handle(h, q, err)
  /\ ticks' = "max"

(* Mutant: the restart branch leaves the handles of an OTA under way.   *)
OtaRestart_noabort ==
  /\ otaQ > 0
  /\ otaQ' = otaQ - 1
  /\ UNCHANGED <<hnd, evq, freedUse>>
  /\ ms' = "begin"
  /\ ticks' = "zero"
  /\ UNCHANGED <<ctx, progressLast, bootSet, installed>>

(* One pass of http_ota_task's loop that takes a new OTA_START: the      *)
(* restart branch of handle_ota_process aborts an OTA under way and      *)
(* starts the machine over on the next pass.                              *)
OtaRestart ==
  /\ otaQ > 0
  /\ otaQ' = otaQ - 1
  /\ IF hnd.https # "null" \/ hnd.decrypt # "null"
     THEN abort_ota_handle(hnd, evq, EM_HTTP_OTA_ERR_ABORTED)
     ELSE UNCHANGED <<hnd, evq, freedUse>>
  /\ ms' = "begin"
  /\ ticks' = "zero"
  /\ UNCHANGED <<ctx, progressLast, bootSet, installed>>

(* A pass that polls an empty queue runs the machine with the last       *)
(* message again.                                                          *)
Poll == ticks = "zero" /\ otaQ = 0

(* The ESP-IDF call c succeeds, or fails when c is in Faults. *)
Outcomes(c) == IF c \in Faults THEN BOOLEAN ELSE {TRUE}

(* EM_HTTP_OTA_EVENT_BEGIN: clear decrypt_ctx and the progress, start    *)
(* the decryptor, then the HTTPS OTA (the handle stays NULL when          *)
(* esp_https_ota_begin fails).                                            *)
OtaBegin ==
  /\ Poll /\ ms = "begin"
  /\ ctx' = NoCtx
  /\ progressLast' = UINT8_MAX
  /\ \E dOk \in Outcomes("decrypt_start"), bOk \in Outcomes("begin") :
       CASE ~dOk -> Fail(NoHandles, evq, EM_HTTP_OTA_ERR_INIT)
         [] ~bOk -> Fail([https |-> "null", decrypt |-> "live"], evq,
                         EM_HTTP_OTA_ERR_INTERNAL)
         [] OTHER ->
              /\ hnd' = [https |-> "live", decrypt |-> "live"]
              /\ evq' = Append(evq, Ev("begin", 0))
              /\ ms' = "transfer"
              /\ ticks' = "zero"
              /\ UNCHANGED freedUse
  /\ UNCHANGED <<otaQ, bootSet, installed>>

(* The progress after n of the Chunks pieces are decrypted. *)
Progress(n) == (n * 100) \div Chunks

(* Mutant: ESP_OK from esp_https_ota_perform does not move the machine  *)
(* on.                                                                    *)
OtaTransfer_stuck ==
  /\ Poll /\ ms = "transfer"
  /\ ctx.size = Chunks
  /\ ticks' = "zero"
  /\ UNCHANGED <<ms, hnd, evq, freedUse, ctx, progressLast>>
  /\ UNCHANGED <<otaQ, bootSet, installed>>

(* EM_HTTP_OTA_EVENT_TRANSFER, one esp_https_ota_perform: it returns     *)
(* ESP_OK once the image is read, a connection error, or reads a piece    *)
(* through ota_img_decrypt_handler.  That callback fails on data it      *)
(* cannot decrypt, validates the header of the first piece (rejecting    *)
(* the installed version, else posting EM_HTTP_OTA_EVENT_VALIDATED), and *)
(* the pass then posts a changed progress that is a multiple of          *)
(* Accuracy.                                                              *)
OtaTransfer ==
  /\ Poll /\ ms = "transfer"
  /\ \/ /\ ctx.size = Chunks
        /\ ms' = "downloaded"
        /\ ticks' = "zero"
        /\ UNCHANGED <<hnd, evq, freedUse, ctx, progressLast>>
     \/ /\ "perform" \in Faults
        /\ Fail(hnd, evq, IF ctx.err # EM_HTTP_OTA_ERR_NONE THEN ctx.err ELSE ESP_FAIL)
        /\ UNCHANGED <<ctx, progressLast>>
     \/ /\ ctx.size < Chunks
        /\ \E ok \in Outcomes("decrypt") :
             LET first == ~ctx.validated
                 p == Progress(ctx.size + 1)
                 validated == IF first THEN <<Ev("validated", ImageVer)>> ELSE <<>>
                 progress == IF p # progressLast /\ p % Accuracy = 0
                             THEN <<Ev("transfer", p)>> ELSE <<>>
             IN CASE ~ok ->
                       /\ ctx' = [ctx EXCEPT !.err = EM_HTTP_OTA_ERR_IMG_INVALID]
                       /\ Fail(hnd, evq, EM_HTTP_OTA_ERR_IMG_INVALID)
                       /\ UNCHANGED progressLast
                  [] first /\ ImageVer = installed ->
                       /\ ctx' = [ctx EXCEPT !.err = EM_HTTP_OTA_ERR_REJECTED,
                                             !.size = @ + 1]
                       /\ Fail(hnd, evq, EM_HTTP_OTA_ERR_REJECTED)
                       /\ UNCHANGED progressLast
                  [] OTHER ->
                       /\ ctx' = [ctx EXCEPT !.validated = TRUE, !.size = @ + 1]
                       /\ evq' = evq \o validated \o progress
                       /\ progressLast' = p
                       /\ ticks' = "zero"
                       /\ UNCHANGED <<ms, hnd, freedUse>>
  /\ UNCHANGED <<otaQ, bootSet, installed>>

(* EM_HTTP_OTA_EVENT_DOWNLOADED: the image must have been received whole. *)
OtaDownloaded ==
  /\ Poll /\ ms = "downloaded"
  /\ \E ok \in Outcomes("incomplete") :
       IF ok THEN /\ evq' = Append(evq, Ev("downloaded", 0))
                  /\ ms' = "finished"
                  /\ ticks' = "zero"
                  /\ UNCHANGED <<hnd, freedUse>>
             ELSE Fail(hnd, evq, EM_HTTP_OTA_ERR_INCOMPLETE)
  /\ UNCHANGED <<otaQ, ctx, progressLast, bootSet, installed>>

(* EM_HTPP_OTA_EVENT_FINISHED: esp_encrypted_img_decrypt_end verifies    *)
(* and releases the decryptor, esp_https_ota_finish releases the HTTPS   *)
(* OTA and, when it succeeds, sets the boot partition.  Neither handle is *)
(* set to NULL, so the error path aborts a released handle.               *)
OtaFinished ==
  /\ Poll /\ ms = "finished"
  /\ \E dOk \in Outcomes("decrypt_end"), fOk \in Outcomes("finish") :
       LET h1 == [hnd EXCEPT !.decrypt = "freed"]
           h2 == [h1 EXCEPT !.https = "freed"]
           verified == Append(evq, Ev("verified", 0))
       IN CASE ~dOk -> Fail(h1, evq, EM_HTTP_OTA_ERR_VERIFY) /\ UNCHANGED bootSet
            [] ~fOk -> Fail(h2, verified, EM_HTTP_OTA_ERR_CLEANUP) /\ UNCHANGED bootSet
            [] OTHER ->
                 /\ hnd' = h2
                 /\ bootSet' = TRUE
                 /\ evq' = Append(verified, Ev("finished", 0))
                 /\ ms' = "begin"
                 /\ ticks' = "max"
                 /\ UNCHANGED freedUse
  /\ UNCHANGED <<otaQ, ctx, progressLast, installed>>

(* One pass of http_ota_task's loop. *)
OtaStep == OtaRestart \/ OtaBegin \/ OtaTransfer \/ OtaDownloaded \/ OtaFinished

Handle == {"null", "live", "freed"}
EvId == {"begin", "validated", "transfer", "downloaded", "verified", "finished", "abort"}

OTypeOK ==
  /\ otaQ \in 0..OtaQLen
  /\ ticks \in {"max", "zero"}
  /\ ms \in {"begin", "transfer", "downloaded", "finished"}
  /\ hnd \in [https : Handle, decrypt : Handle]
  /\ ctx.validated \in BOOLEAN /\ ctx.size \in 0..Chunks
  /\ progressLast \in 0..100 \cup {UINT8_MAX}
  /\ \A i \in DOMAIN evq : evq[i].id \in EvId
  /\ bootSet \in BOOLEAN /\ freedUse \in BOOLEAN
=============================================================================
