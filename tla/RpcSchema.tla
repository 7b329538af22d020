------------------------------ MODULE RpcSchema ------------------------------
(***************************************************************************)
(* The types and the procs of wgo-rpc, as the codecs of                    *)
(* web/src/protocol/generated/rpc.ts read and write them: field and        *)
(* variant ids, which fields may be absent, and the types.                 *)
(***************************************************************************)
EXTENDS Codec

SubscribeWindowDetailReq == Struct(<<Required(1, "windowId", String)>>)
WindowInfo == Struct(<<Required(1, "windowId", String), Optional(2, "title", String),
    Optional(3, "processId", U53), Optional(4, "focused", Boolean)>>)
WindowState == Struct(<<Optional(1, "visible", Boolean),
    Optional(2, "minimized", Boolean), Optional(3, "maximized", Boolean)>>)
WindowBounds == Struct(<<Required(1, "x", I53), Required(2, "y", I53),
    Required(3, "width", U53), Required(4, "height", U53)>>)
WindowDetail == Struct(<<Required(1, "info", WindowInfo),
    Required(2, "state", WindowState), Optional(3, "bounds", WindowBounds)>>)
WindowsTableEvent == Union(<<
    Variant(1, "snapshot", <<Required(1, "rows", ListOf(WindowInfo))>>),
    Variant(2, "patch", <<Required(1, "removes", ListOf(String)),
        Required(2, "upserts", ListOf(WindowInfo))>>)>>)
WindowDetailEvent == Union(<<
    Variant(1, "snapshot", <<Required(1, "detail", WindowDetail)>>),
    Variant(2, "infoChanged", <<Required(1, "info", WindowInfo)>>),
    Variant(3, "stateChanged", <<Required(1, "state", WindowState)>>),
    Variant(4, "boundsChanged", <<Optional(1, "bounds", WindowBounds)>>),
    Variant(5, "closed", <<>>)>>)
SubscribeWindowsError == Union(<<
    Variant(0, "failed", <<Required(1, "message", String)>>),
    Variant(1, "unsupported", <<Required(1, "message", String)>>),
    Variant(2, "permissionDenied", <<Required(1, "message", String)>>)>>)
SubscribeWindowDetailError == Union(<<
    Variant(0, "failed", <<Required(1, "message", String)>>),
    Variant(1, "notFound", <<Required(1, "message", String)>>),
    Variant(2, "unsupported", <<Required(1, "message", String)>>),
    Variant(3, "permissionDenied", <<Required(1, "message", String)>>)>>)
TerminalLaunchSpec == Struct(<<Required(1, "command", String),
    Required(2, "args", ListOf(String))>>)
CreateTerminalSessionReq == Struct(<<Required(1, "cols", U53), Required(2, "rows", U53),
    Optional(3, "cwd", String), Required(4, "launch", TerminalLaunchSpec),
    Optional(5, "title", String)>>)
TerminalExit == Struct(<<Optional(1, "code", I53), Optional(2, "signal", String),
    Required(3, "exitedAtMs", U53)>>)
TerminalSessionInfo == Struct(<<Required(1, "terminalSessionId", String),
    Required(2, "creatorClientId", String), Required(3, "createdAtMs", U53),
    Optional(4, "lastAttachedAtMs", U53), Optional(5, "lastDetachedAtMs", U53),
    Optional(6, "lastOutputAtMs", U53), Required(7, "cols", U53),
    Required(8, "rows", U53), Optional(9, "primaryAttachId", String),
    Required(10, "latestOutputSeq", U53), Optional(11, "lastKnownTitle", String),
    Optional(12, "exit", TerminalExit), Optional(13, "lastKnownCwd", String),
    Required(14, "launch", TerminalLaunchSpec)>>)
TerminalSessionKey == Struct(<<Required(1, "terminalSessionId", String)>>)
TerminalSessionsTableEvent == Union(<<
    Variant(1, "snapshot", <<Required(1, "rows", ListOf(TerminalSessionInfo))>>),
    Variant(2, "patch", <<Required(1, "removes", ListOf(TerminalSessionKey)),
        Required(2, "upserts", ListOf(TerminalSessionInfo))>>)>>)
AvailableShellInfo == Struct(<<Required(1, "shellId", String),
    Required(2, "name", String), Required(3, "command", String),
    Required(4, "args", ListOf(String)), Required(5, "isDefault", Boolean)>>)
AvailableShellKey == Struct(<<Required(1, "shellId", String)>>)
AvailableShellsTableEvent == Union(<<
    Variant(1, "snapshot", <<Required(1, "rows", ListOf(AvailableShellInfo))>>),
    Variant(2, "patch", <<Required(1, "removes", ListOf(AvailableShellKey)),
        Required(2, "upserts", ListOf(AvailableShellInfo))>>)>>)
AttachTerminalSessionReq == Struct(<<Required(1, "terminalSessionId", String),
    Optional(2, "afterSeq", U53), Required(3, "viewportCols", U53),
    Required(4, "viewportRows", U53)>>)
TerminalSessionCloseReason == Union(<<
    Variant(0, "failed", <<Required(1, "message", String)>>),
    Variant(1, "closedByClient", <<>>),
    Variant(2, "daemonShuttingDown", <<>>),
    Variant(3, "unknown", <<>>)>>)
TerminalEvent == Union(<<
    Variant(1, "attached", <<Required(1, "attachId", String),
        Optional(2, "primaryAttachId", String),
        Required(3, "session", TerminalSessionInfo)>>),
    Variant(2, "outputChunk", <<Required(1, "seq", U53), Required(2, "bytes", Binary)>>),
    Variant(3, "historyGap", <<Required(1, "nextSeq", U53)>>),
    Variant(4, "controlChanged", <<Required(1, "primaryAttachId", String)>>),
    Variant(5, "pseudoTerminalResized", <<Required(1, "cols", U53),
        Required(2, "rows", U53)>>),
    Variant(6, "sessionExited", <<Required(1, "exit", TerminalExit)>>),
    Variant(7, "sessionClosed", <<Required(1, "reason", TerminalSessionCloseReason)>>),
    Variant(8, "workingDirectoryChanged", <<Required(1, "cwd", String)>>),
    Variant(9, "titleChanged", <<Required(1, "title", String)>>)>>)
TakeTerminalControlReq == Struct(<<Required(1, "terminalSessionId", String),
    Required(2, "attachId", String), Required(3, "viewportCols", U53),
    Required(4, "viewportRows", U53)>>)
TakeTerminalControlRes == Struct(<<Required(1, "primaryAttachId", String)>>)
WriteTerminalInputReq == Union(<<
    Variant(1, "writeTerminalInputStart", <<Required(1, "terminalSessionId", String),
        Required(2, "attachId", String)>>),
    Variant(2, "writeTerminalInputChunk", <<Required(1, "bytes", Binary)>>)>>)
CloseTerminalSessionReq == Struct(<<Required(1, "terminalSessionId", String)>>)
CreateTerminalSessionError == Union(<<
    Variant(0, "failed", <<Required(1, "message", String)>>),
    Variant(1, "permissionDenied", <<Required(1, "message", String)>>),
    Variant(2, "invalidSize", <<Required(1, "message", String)>>),
    Variant(3, "shellNotFound", <<Required(1, "message", String)>>),
    Variant(4, "invalidLaunch", <<Required(1, "message", String)>>)>>)
SubscribeTerminalSessionsError == Union(<<
    Variant(0, "failed", <<Required(1, "message", String)>>),
    Variant(1, "permissionDenied", <<Required(1, "message", String)>>)>>)
SubscribeAvailableShellsError == Union(<<
    Variant(0, "failed", <<Required(1, "message", String)>>),
    Variant(1, "permissionDenied", <<Required(1, "message", String)>>)>>)
CloseTerminalSessionError == Union(<<
    Variant(0, "failed", <<Required(1, "message", String)>>),
    Variant(1, "notFound", <<Required(1, "message", String)>>),
    Variant(2, "permissionDenied", <<Required(1, "message", String)>>)>>)
AttachTerminalSessionError == Union(<<
    Variant(0, "failed", <<Required(1, "message", String)>>),
    Variant(1, "notFound", <<Required(1, "message", String)>>),
    Variant(2, "permissionDenied", <<Required(1, "message", String)>>),
    Variant(3, "invalidSize", <<Required(1, "message", String)>>)>>)
TakeTerminalControlError == Union(<<
    Variant(0, "failed", <<Required(1, "message", String)>>),
    Variant(1, "notFound", <<Required(1, "message", String)>>),
    Variant(2, "permissionDenied", <<Required(1, "message", String)>>),
    Variant(3, "attachNotFound", <<Required(1, "message", String)>>),
    Variant(4, "invalidSize", <<Required(1, "message", String)>>)>>)
WriteTerminalInputError == Union(<<
    Variant(0, "failed", <<Required(1, "message", String)>>),
    Variant(1, "notFound", <<Required(1, "message", String)>>),
    Variant(2, "permissionDenied", <<Required(1, "message", String)>>),
    Variant(3, "attachNotFound", <<Required(1, "message", String)>>),
    Variant(4, "notPrimaryAttach", <<Required(1, "message", String)>>)>>)
SubscribeProcessDetailReq == Struct(<<Required(1, "pid", U53)>>)
SubscribeProcessResourcesInUseReq == Struct(<<Required(1, "pid", U53)>>)
SubscribeProcessSocketsInUseReq == Struct(<<Required(1, "pid", U53)>>)
SubscribeProcessModulesReq == Struct(<<Required(1, "pid", U53)>>)
ProcessStatus == Union(<<
    Variant(1, "idle", <<>>),
    Variant(2, "run", <<>>),
    Variant(3, "sleep", <<>>),
    Variant(4, "stop", <<>>),
    Variant(5, "zombie", <<>>),
    Variant(6, "tracing", <<>>),
    Variant(7, "dead", <<>>),
    Variant(8, "wakekill", <<>>),
    Variant(9, "waking", <<>>),
    Variant(10, "parked", <<>>),
    Variant(11, "lockBlocked", <<>>),
    Variant(12, "uninterruptibleDiskSleep", <<>>),
    Variant(13, "suspended", <<>>),
    Variant(14, "unknown", <<Required(1, "code", U53)>>)>>)
ProcessInfo == Struct(<<Required(1, "pid", U53), Optional(2, "ppid", U53),
    Required(3, "name", String), Required(4, "status", ProcessStatus)>>)
ProcessMetadata == Struct(<<Required(1, "command", ListOf(String)),
    Optional(2, "executablePath", String), Optional(3, "cwd", String),
    Required(4, "startTimeUnix", U53)>>)
ProcessIoUsage == Struct(<<Required(1, "readBytes", U53),
    Required(2, "writtenBytes", U53), Required(3, "totalReadBytes", U53),
    Required(4, "totalWrittenBytes", U53)>>)
ProcessResourceUsage == Struct(<<Required(1, "memoryBytes", U53),
    Required(2, "virtualMemoryBytes", U53), Required(3, "cpuUsagePercent", Float),
    Required(4, "accumulatedCpuTimeMs", U53), Required(5, "ioUsage", ProcessIoUsage)>>)
ProcessDetail == Struct(<<Required(1, "info", ProcessInfo),
    Required(2, "metadata", ProcessMetadata),
    Required(3, "usage", ProcessResourceUsage)>>)
ProcessesTableEvent == Union(<<
    Variant(1, "snapshot", <<Required(1, "rows", ListOf(ProcessInfo))>>),
    Variant(2, "patch", <<Required(1, "removePids", ListOf(U53)),
        Required(2, "upserts", ListOf(ProcessInfo))>>)>>)
ProcessDetailEvent == Union(<<
    Variant(1, "snapshot", <<Required(1, "detail", ProcessDetail)>>),
    Variant(2, "infoChanged", <<Required(1, "info", ProcessInfo)>>),
    Variant(3, "metadataChanged", <<Required(1, "metadata", ProcessMetadata)>>),
    Variant(4, "usageChanged", <<Required(1, "usage", ProcessResourceUsage)>>),
    Variant(5, "exited", <<>>)>>)
ProcessResourceInUseKind == Enum(<<1, 2, 3, 4, 5, 6>>)
ProcessResourceInUseAccess == Struct(<<Optional(1, "read", Boolean),
    Optional(2, "write", Boolean), Optional(3, "execute", Boolean)>>)
ProcessResourceInUseInfo == Struct(<<Required(1, "resourceId", String),
    Required(2, "kind", ProcessResourceInUseKind), Optional(3, "name", String),
    Optional(4, "access", ProcessResourceInUseAccess), Optional(5, "deleted", Boolean)>>)
ProcessResourcesInUseTableEvent == Union(<<
    Variant(1, "snapshot", <<Required(1, "rows", ListOf(ProcessResourceInUseInfo))>>),
    Variant(2, "patch", <<Required(1, "removes", ListOf(String)),
        Required(2, "upserts", ListOf(ProcessResourceInUseInfo))>>),
    Variant(3, "exited", <<>>)>>)
ProcessSocketInUseKind == Union(<<
    Variant(1, "tcp", <<>>),
    Variant(2, "udp", <<>>),
    Variant(3, "unix", <<>>),
    Variant(4, "raw", <<>>),
    Variant(5, "unknown", <<>>)>>)
SocketEndpoint == Union(<<
    Variant(1, "ip", <<Required(1, "address", String), Optional(2, "port", U53)>>),
    Variant(2, "unix", <<Optional(1, "path", String), Optional(2, "name", String)>>)>>)
ProcessSocketInUseInfo == Struct(<<Required(1, "socketId", String),
    Required(2, "kind", ProcessSocketInUseKind),
    Optional(3, "localEndpoint", SocketEndpoint),
    Optional(4, "remoteEndpoint", SocketEndpoint), Optional(5, "listening", Boolean)>>)
ProcessSocketsInUseTableEvent == Union(<<
    Variant(1, "snapshot", <<Required(1, "rows", ListOf(ProcessSocketInUseInfo))>>),
    Variant(2, "patch", <<Required(1, "removes", ListOf(String)),
        Required(2, "upserts", ListOf(ProcessSocketInUseInfo))>>),
    Variant(3, "exited", <<>>)>>)
ProcessModuleKind == Enum(<<1, 2, 3>>)
ProcessModuleInfo == Struct(<<Required(1, "moduleId", String),
    Required(2, "name", String), Optional(3, "path", String),
    Required(4, "kind", ProcessModuleKind), Optional(5, "baseAddress", String),
    Optional(6, "sizeBytes", U53), Optional(7, "version", String)>>)
ProcessModulesTableEvent == Union(<<
    Variant(1, "snapshot", <<Required(1, "rows", ListOf(ProcessModuleInfo))>>),
    Variant(2, "patch", <<Required(1, "removes", ListOf(String)),
        Required(2, "upserts", ListOf(ProcessModuleInfo))>>),
    Variant(3, "exited", <<>>)>>)
SubscribeProcessesError == Union(<<
    Variant(0, "failed", <<Required(1, "message", String)>>),
    Variant(1, "permissionDenied", <<Required(1, "message", String)>>)>>)
SubscribeProcessDetailError == Union(<<
    Variant(0, "failed", <<Required(1, "message", String)>>),
    Variant(1, "notFound", <<Required(1, "message", String)>>),
    Variant(2, "permissionDenied", <<Required(1, "message", String)>>)>>)
SubscribeProcessResourcesInUseError == Union(<<
    Variant(0, "failed", <<Required(1, "message", String)>>),
    Variant(1, "notFound", <<Required(1, "message", String)>>),
    Variant(2, "permissionDenied", <<Required(1, "message", String)>>),
    Variant(3, "unsupported", <<Required(1, "message", String)>>)>>)
SubscribeProcessSocketsInUseError == Union(<<
    Variant(0, "failed", <<Required(1, "message", String)>>),
    Variant(1, "notFound", <<Required(1, "message", String)>>),
    Variant(2, "permissionDenied", <<Required(1, "message", String)>>),
    Variant(3, "unsupported", <<Required(1, "message", String)>>)>>)
SubscribeProcessModulesError == Union(<<
    Variant(0, "failed", <<Required(1, "message", String)>>),
    Variant(1, "notFound", <<Required(1, "message", String)>>),
    Variant(2, "permissionDenied", <<Required(1, "message", String)>>),
    Variant(3, "unsupported", <<Required(1, "message", String)>>)>>)
StartPairingReq == Struct(<<Required(1, "confirmationCode", String),
    Required(2, "clientLabel", String), Optional(3, "clientId", String)>>)
StartPairingRes == Struct(<<Required(1, "pairingCodeExpiresAtUnix", I53)>>)
CompletePairingReq == Struct(<<Required(1, "code", String)>>)
CompletePairingRes == Struct(<<Required(1, "clientId", String),
    Required(2, "clientSecret", String),
    Required(3, "clientCredentialExpiresAtUnix", I53)>>)
RenewClientCredentialRes == Struct(<<Required(1, "clientCredentialExpiresAtUnix", I53)>>)
StartPairingError == Union(<<
    Variant(0, "failed", <<Required(1, "message", String)>>)>>)
CompletePairingError == Union(<<
    Variant(1, "pairingNotStarted", <<Required(1, "message", String)>>),
    Variant(2, "pairingExpired", <<Required(1, "message", String)>>),
    Variant(3, "invalidPairingCode", <<Required(1, "message", String)>>)>>)
RenewClientCredentialError == Union(<<
    Variant(0, "failed", <<Required(1, "message", String)>>)>>)
ReadFileReq == Struct(<<Required(1, "path", String), Optional(2, "offset", U53),
    Optional(3, "length", U53)>>)
SubscribeDirectoryReq == Struct(<<Required(1, "path", String)>>)
RootEntryKey == Struct(<<Required(1, "path", String)>>)
RootsSubscriptionCloseReason == Union(<<
    Variant(0, "failed", <<>>),
    Variant(1, "permissionLost", <<>>),
    Variant(2, "unknown", <<>>)>>)
FsEntryKind == Enum(<<1, 2, 3, 4>>)
FsEntry == Struct(<<Required(1, "name", String), Required(2, "path", String),
    Required(3, "kind", FsEntryKind), Optional(4, "size", U53),
    Optional(5, "modifiedAtMs", U53), Required(6, "readonly", Boolean)>>)
RootsTableEvent == Union(<<
    Variant(1, "snapshot", <<Required(1, "rows", ListOf(FsEntry))>>),
    Variant(2, "patch", <<Required(1, "removes", ListOf(RootEntryKey)),
        Required(2, "upserts", ListOf(FsEntry))>>),
    Variant(3, "closed", <<Required(1, "reason", RootsSubscriptionCloseReason)>>)>>)
DirectoryEntryKey == Struct(<<Required(1, "name", String)>>)
DirectorySubscriptionCloseReason == Union(<<
    Variant(0, "failed", <<>>),
    Variant(1, "deleted", <<>>),
    Variant(2, "moved", <<Optional(1, "to", String)>>),
    Variant(3, "permissionLost", <<>>),
    Variant(4, "replacedByNonDirectory", <<>>),
    Variant(5, "unknown", <<>>)>>)
DirectoryTableEvent == Union(<<
    Variant(1, "snapshot", <<Required(1, "rows", ListOf(FsEntry))>>),
    Variant(2, "patch", <<Required(1, "removes", ListOf(DirectoryEntryKey)),
        Required(2, "upserts", ListOf(FsEntry))>>),
    Variant(3, "closed", <<Required(1, "reason", DirectorySubscriptionCloseReason)>>)>>)
TrashItemsSubscriptionCloseReason == Union(<<
    Variant(0, "failed", <<>>),
    Variant(1, "permissionLost", <<>>),
    Variant(2, "unknown", <<>>)>>)
TrashItemSize == Union(<<
    Variant(1, "bytes", <<Required(1, "value", U53)>>),
    Variant(2, "entries", <<Required(1, "value", U53)>>)>>)
TrashItem == Struct(<<Required(1, "id", String), Required(2, "name", String),
    Required(3, "originalParent", String), Optional(4, "deletedAtMs", U53),
    Optional(5, "size", TrashItemSize)>>)
TrashItemsTableEvent == Union(<<
    Variant(1, "snapshot", <<Required(1, "rows", ListOf(TrashItem))>>),
    Variant(2, "patch", <<Required(1, "removes", ListOf(String)),
        Required(2, "upserts", ListOf(TrashItem))>>),
    Variant(3, "closed", <<Required(1, "reason", TrashItemsSubscriptionCloseReason)>>)>>)
ReadFileChunk == Struct(<<Required(1, "offset", U53), Required(2, "bytes", Binary)>>)
WriteFileMode == Enum(<<1, 2, 3, 4>>)
WriteFileReq == Union(<<
    Variant(1, "writeFileStart", <<Required(1, "path", String),
        Required(2, "mode", WriteFileMode), Optional(3, "expectedResultSize", U53),
        Optional(4, "modifiedAtMs", U53)>>),
    Variant(2, "writeFileChunk", <<Optional(1, "offset", U53), Required(2, "bytes", Binary)>>)>>)
WriteFileResult == Struct(<<Required(1, "bytesWritten", U53),
    Required(2, "resultSize", U53), Optional(3, "modifiedAtMs", U53)>>)
CreateNodeSpec == Union(<<
    Variant(1, "file", <<>>),
    Variant(2, "directory", <<>>),
    Variant(3, "symlink", <<Required(1, "target", String)>>),
    Variant(4, "hardlink", <<Required(1, "target", String)>>)>>)
CreateNodeOp == Struct(<<Required(1, "path", String),
    Required(2, "spec", CreateNodeSpec)>>)
CreateNodesReq == Struct(<<Required(1, "nodes", ListOf(CreateNodeOp))>>)
RenamePathOp == Struct(<<Required(1, "from", String), Required(2, "to", String)>>)
RenamePathsReq == Struct(<<Required(1, "ops", ListOf(RenamePathOp))>>)
DeleteMode == Enum(<<1, 2>>)
DeletePathsReq == Struct(<<Required(1, "paths", ListOf(String)),
    Required(2, "mode", DeleteMode)>>)
RestoreTrashItemsReq == Struct(<<Required(1, "itemIds", ListOf(String))>>)
PurgeTrashItemsReq == Struct(<<Required(1, "itemIds", ListOf(String))>>)
FsMutationItemError == Union(<<
    Variant(0, "failed", <<Required(1, "message", String)>>),
    Variant(1, "permissionDenied", <<Required(1, "message", String)>>),
    Variant(2, "notFound", <<Required(1, "message", String)>>),
    Variant(3, "alreadyExists", <<Required(1, "message", String)>>),
    Variant(4, "notDirectory", <<Required(1, "message", String)>>),
    Variant(5, "notFile", <<Required(1, "message", String)>>),
    Variant(6, "invalidPath", <<Required(1, "message", String)>>),
    Variant(7, "unsupported", <<Required(1, "message", String)>>)>>)
BulkMutationItemResult == Union(<<
    Variant(0, "failed", <<Required(1, "index", U53),
        Required(2, "error", FsMutationItemError)>>),
    Variant(1, "ok", <<Required(1, "index", U53)>>)>>)
BulkMutationRes == Struct(<<Required(1, "results", ListOf(BulkMutationItemResult))>>)
SubscribeRootsError == Union(<<
    Variant(0, "failed", <<Required(1, "message", String)>>)>>)
SubscribeDirectoryError == Union(<<
    Variant(0, "failed", <<Required(1, "message", String)>>),
    Variant(1, "permissionDenied", <<Required(1, "message", String)>>),
    Variant(2, "notFound", <<Required(1, "message", String)>>),
    Variant(3, "notDirectory", <<Required(1, "message", String)>>)>>)
SubscribeTrashItemsError == Union(<<
    Variant(0, "failed", <<Required(1, "message", String)>>),
    Variant(1, "permissionDenied", <<Required(1, "message", String)>>)>>)
ReadFileError == Union(<<
    Variant(0, "failed", <<Required(1, "message", String)>>),
    Variant(1, "permissionDenied", <<Required(1, "message", String)>>),
    Variant(2, "notFound", <<Required(1, "message", String)>>),
    Variant(3, "notFile", <<Required(1, "message", String)>>),
    Variant(4, "invalidPath", <<Required(1, "message", String)>>)>>)
WriteFileError == Union(<<
    Variant(0, "failed", <<Required(1, "message", String)>>),
    Variant(1, "permissionDenied", <<Required(1, "message", String)>>),
    Variant(2, "notFound", <<Required(1, "message", String)>>),
    Variant(3, "alreadyExists", <<Required(1, "message", String)>>),
    Variant(4, "notDirectory", <<Required(1, "message", String)>>),
    Variant(5, "notFile", <<Required(1, "message", String)>>),
    Variant(6, "invalidPath", <<Required(1, "message", String)>>)>>)
FsMutationError == Union(<<
    Variant(0, "failed", <<Required(1, "message", String)>>)>>)
DaemonInfo == Struct(<<Required(1, "supportedProcIds", ListOf(U53)),
    Required(2, "version", String), Required(3, "os", String),
    Required(4, "instanceId", String), Required(5, "startedAtMs", U53),
    Required(6, "serverTimeMs", U53)>>)
DaemonEnvironment == Struct(<<Required(1, "homeDirectory", String)>>)
ClientInfo == Struct(<<Required(1, "clientId", String), Required(2, "label", String),
    Required(3, "createdAtUnix", I53), Required(4, "expiresAtUnix", I53)>>)
ClientKey == Struct(<<Required(1, "clientId", String)>>)
ClientsTableEvent == Union(<<
    Variant(1, "snapshot", <<Required(1, "rows", ListOf(ClientInfo))>>),
    Variant(2, "patch", <<Required(1, "removes", ListOf(ClientKey)),
        Required(2, "upserts", ListOf(ClientInfo))>>)>>)
GetDaemonInfoError == Union(<<
    Variant(0, "failed", <<Required(1, "message", String)>>)>>)
GetDaemonEnvironmentError == Union(<<
    Variant(0, "failed", <<Required(1, "message", String)>>)>>)
SubscribeClientsError == Union(<<
    Variant(0, "failed", <<Required(1, "message", String)>>),
    Variant(1, "permissionDenied", <<Required(1, "message", String)>>)>>)

-----------------------------------------------------------------------------
Proc(id, stream, request, response, error) ==
    [id |-> id, stream |-> stream, request |-> request, response |-> response,
     error |-> error]

getDaemonInfoProc == Proc(1, "unary", Void, DaemonInfo,
    GetDaemonInfoError)
startPairingProc == Proc(2, "unary", StartPairingReq, StartPairingRes,
    StartPairingError)
completePairingProc == Proc(3, "unary", CompletePairingReq, CompletePairingRes,
    CompletePairingError)
renewClientCredentialProc == Proc(4, "unary", Void, RenewClientCredentialRes,
    RenewClientCredentialError)
subscribeRootsProc == Proc(5, "server", Void, RootsTableEvent,
    SubscribeRootsError)
subscribeDirectoryProc == Proc(6, "server", SubscribeDirectoryReq, DirectoryTableEvent,
    SubscribeDirectoryError)
readFileProc == Proc(7, "server", ReadFileReq, ReadFileChunk,
    ReadFileError)
writeFileProc == Proc(8, "client", WriteFileReq, WriteFileResult,
    WriteFileError)
createNodesProc == Proc(9, "unary", CreateNodesReq, BulkMutationRes,
    FsMutationError)
renamePathsProc == Proc(10, "unary", RenamePathsReq, BulkMutationRes,
    FsMutationError)
deletePathsProc == Proc(11, "unary", DeletePathsReq, BulkMutationRes,
    FsMutationError)
createTerminalSessionProc == Proc(12, "unary", CreateTerminalSessionReq, TerminalSessionInfo,
    CreateTerminalSessionError)
subscribeTerminalSessionsProc == Proc(13, "server", Void, TerminalSessionsTableEvent,
    SubscribeTerminalSessionsError)
subscribeAvailableShellsProc == Proc(14, "server", Void, AvailableShellsTableEvent,
    SubscribeAvailableShellsError)
attachTerminalSessionProc == Proc(15, "server", AttachTerminalSessionReq, TerminalEvent,
    AttachTerminalSessionError)
takeTerminalControlProc == Proc(16, "unary", TakeTerminalControlReq, TakeTerminalControlRes,
    TakeTerminalControlError)
writeTerminalInputProc == Proc(17, "client", WriteTerminalInputReq, Void,
    WriteTerminalInputError)
closeTerminalSessionProc == Proc(18, "unary", CloseTerminalSessionReq, Void,
    CloseTerminalSessionError)
subscribeClientsProc == Proc(19, "server", Void, ClientsTableEvent,
    SubscribeClientsError)
subscribeTrashItemsProc == Proc(20, "server", Void, TrashItemsTableEvent,
    SubscribeTrashItemsError)
restoreTrashItemsProc == Proc(21, "unary", RestoreTrashItemsReq, BulkMutationRes,
    FsMutationError)
purgeTrashItemsProc == Proc(22, "unary", PurgeTrashItemsReq, BulkMutationRes,
    FsMutationError)
getDaemonEnvironmentProc == Proc(23, "unary", Void, DaemonEnvironment,
    GetDaemonEnvironmentError)
subscribeProcessesProc == Proc(24, "server", Void, ProcessesTableEvent,
    SubscribeProcessesError)
subscribeProcessDetailProc == Proc(25, "server", SubscribeProcessDetailReq, ProcessDetailEvent,
    SubscribeProcessDetailError)
subscribeWindowsProc == Proc(26, "server", Void, WindowsTableEvent,
    SubscribeWindowsError)
subscribeWindowDetailProc == Proc(27, "server", SubscribeWindowDetailReq, WindowDetailEvent,
    SubscribeWindowDetailError)
subscribeProcessResourcesInUseProc == Proc(28, "server", SubscribeProcessResourcesInUseReq, ProcessResourcesInUseTableEvent,
    SubscribeProcessResourcesInUseError)
subscribeProcessSocketsInUseProc == Proc(29, "server", SubscribeProcessSocketsInUseReq, ProcessSocketsInUseTableEvent,
    SubscribeProcessSocketsInUseError)
subscribeProcessModulesProc == Proc(30, "server", SubscribeProcessModulesReq, ProcessModulesTableEvent,
    SubscribeProcessModulesError)

Procs == {
    getDaemonInfoProc, startPairingProc, completePairingProc,
    renewClientCredentialProc, subscribeRootsProc, subscribeDirectoryProc,
    readFileProc, writeFileProc, createNodesProc, renamePathsProc,
    deletePathsProc, createTerminalSessionProc, subscribeTerminalSessionsProc,
    subscribeAvailableShellsProc, attachTerminalSessionProc,
    takeTerminalControlProc, writeTerminalInputProc, closeTerminalSessionProc,
    subscribeClientsProc, subscribeTrashItemsProc, restoreTrashItemsProc,
    purgeTrashItemsProc, getDaemonEnvironmentProc, subscribeProcessesProc,
    subscribeProcessDetailProc, subscribeWindowsProc, subscribeWindowDetailProc,
    subscribeProcessResourcesInUseProc, subscribeProcessSocketsInUseProc,
    subscribeProcessModulesProc}

procs == [id \in {p.id : p \in Procs} |-> CHOOSE p \in Procs : p.id = id]
=============================================================================
