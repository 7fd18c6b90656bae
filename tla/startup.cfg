SPECIFICATION FairSpec
CONSTANTS
    ByHand = {h1}
    Edited = {"OAUTH_ISSUER_URL", "HERMES_API_URL", "HERMES_API_KEY", "BIND_PORT", "HERMES_REQUEST_TIMEOUT_SECONDS", "MCP_BEARER_TOKEN", "BIND_HOST", "HERMES_MCP_JOB_STORE_PATH"}
    MaxTroubles = 2
INVARIANTS TypeOK StoreHeldByServer ServedSettingsAreSound
PROPERTIES ServesAgain
