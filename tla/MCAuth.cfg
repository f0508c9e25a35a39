SPECIFICATION AuthSpec
CONSTANTS
    SizeBits = 4
    Handlers = {h1, h2}
    Names = {"", "ann", "bob"}
    Passwords = {"p"}
    Ips = {ip1}
    TokenTtl = 2
    LoginWindow = 1
    LoginMaxAttempts = 1
    MaxTime = 5
    MaxTokens = 2
    MaxAttempts = 4
INVARIANTS AuthTypeOK DeadTokenRefused LiveTokenKept AnsweredIsRated LoginBudget
PROPERTIES AccountsAreStable
