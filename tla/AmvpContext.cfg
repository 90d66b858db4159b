SPECIFICATION Spec
CONSTANTS
  Settable = {"vector_req_file", "get_string", "save_filename", "put_filename", "mod_cert_req_file",
              "post_filename", "post_resources_filename", "delete_string", "json_filename"}
  MaxCalls = 4
  MaxRuns = 2
  MaxFaults = 2
 
PROPERTIES MarkedModesOnly ManualRegistrationIsRequestOnly FreshCtxValidatesPassed
CHECK_DEADLOCK FALSE
