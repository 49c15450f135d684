-------------------------- MODULE CallbackPayload --------------------------
(***************************************************************************)
(* What the backend makes of a callback before it looks at the job         *)
(* (verify_callback_auth and _validate_callback_payload in                 *)
(* app/worker_callback.py), and of the stored references when a user asks  *)
(* for the result (get_result in app/storage/drive_service.py).            *)
(*                                                                         *)
(* A field of a payload is absent, blank or text (of legal length and      *)
(* form); result_file_ids is the set of the names that have an id, {} when *)
(* there is none.  job_id is "text" when it is the one in the URL.         *)
(***************************************************************************)
EXTENDS FiniteSets

Fields == {"absent", "blank", "text"}

\* EXPECTED_RESULT_FILES.
Expected == {"result.json", "timeseries.csv", "manifest.json", "README.txt"}

\* Names the endpoint does not take: absolute, with "..", or of a raw product.
Unsafe == {"raw.h5"}

NoPayload == [status |-> "none", job_id |-> "absent", run_id |-> "absent",
              result_folder_id |-> "absent", result_file_ids |-> {},
              science_commit |-> "absent",
              error_code |-> "absent", error_message_safe |-> "absent"]

Required(field) == field = "text"
Optional(field) == field \in {"absent", "text"}

\* The body of a completed callback.
SafeFileIds(ids) ==
  Expected \cup {"metadata.json"} \subseteq ids /\ ids \cap Unsafe = {}

\* _validate_callback_payload: "valid" or the code of the first refusal.
Validate(p) ==
  IF p.job_id # "text" THEN "CALLBACK_JOB_ID_MISMATCH"
  ELSE IF p.status \notin {"completed", "failed"} THEN "CALLBACK_INVALID_STATUS"
  ELSE IF ~Required(p.run_id) THEN "CALLBACK_INVALID_PAYLOAD"
  ELSE IF p.status = "completed" THEN
    IF ~Required(p.result_folder_id) THEN "CALLBACK_INVALID_PAYLOAD"
    ELSE IF ~SafeFileIds(p.result_file_ids) THEN "CALLBACK_RESULT_METADATA_INVALID"
    ELSE IF ~Optional(p.science_commit) THEN "CALLBACK_INVALID_PAYLOAD" ELSE "valid"
  ELSE
    IF p.result_folder_id # "absent" \/ p.result_file_ids # {}
    THEN "CALLBACK_RESULT_METADATA_INVALID"
    ELSE IF ~Optional(p.error_code) \/ ~Optional(p.error_message_safe)
    THEN "CALLBACK_INVALID_PAYLOAD" ELSE "valid"

\* verify_callback_auth: the signature goes before the bearer token.
Authenticate(secret, signature, bearer) ==
  IF secret = "" THEN "CALLBACK_SECRET_NOT_CONFIGURED"
  ELSE IF signature # "" THEN
    IF signature = secret THEN "valid" ELSE "CALLBACK_SIGNATURE_INVALID"
  ELSE IF bearer # "" THEN
    IF bearer = secret THEN "valid" ELSE "CALLBACK_TOKEN_INVALID"
  ELSE "CALLBACK_AUTH_MISSING"

\* get_result downloads the expected files by their stored ids, all or none.
GetResult(drive, ids) ==
  IF Expected \subseteq ids /\ Expected \subseteq drive THEN Expected ELSE {}
=============================================================================
