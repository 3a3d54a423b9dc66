SPECIFICATION ProbesSpec
CONSTANTS
    None = None
    Blank = Blank
    Garbled = Garbled
    Forms <- MCForms
    PingWorlds <- MCPingWorlds
    TcpWorlds <- MCTcpWorlds
    HttpWorlds <- MCHttpWorlds
INVARIANTS
    RedirectCanBeExpected
