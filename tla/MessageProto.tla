-------------------------------------- MODULE MessageProto --------------------------------------
(* The messages between the viewer and the host, as src/flutter/js/src/proto/message.ts      *)
(* writes and reads them.  A message type is two tables taken from two functions: what       *)
(* encode() writes (field, tag, kind) in the order it writes it, and what decode() reads     *)
(* (tag, field, reader).  A kind is a scalar of protobufjs, an enum (an int32 on the wire)   *)
(* or a message.  Protobuf says what the tables mean; Wire checks them against each other.   *)
EXTENDS Protobuf

Chroma ==
  [I420 |-> 0, I444 |-> 1]

KeyboardMode ==
  [Legacy |-> 0, Map |-> 1, Translate |-> 2, Auto |-> 3]

ControlKey ==
  [Unknown |-> 0, Alt |-> 1, Backspace |-> 2, CapsLock |-> 3, Control |-> 4, Delete |-> 5,
   DownArrow |-> 6, End |-> 7, Escape |-> 8, F1 |-> 9, F10 |-> 10, F11 |-> 11, F12 |-> 12,
   F2 |-> 13, F3 |-> 14, F4 |-> 15, F5 |-> 16, F6 |-> 17, F7 |-> 18, F8 |-> 19, F9 |-> 20,
   Home |-> 21, LeftArrow |-> 22, Meta |-> 23, Option |-> 24, PageDown |-> 25, PageUp |-> 26,
   Return |-> 27, RightArrow |-> 28, Shift |-> 29, Space |-> 30, Tab |-> 31, UpArrow |-> 32,
   Numpad0 |-> 33, Numpad1 |-> 34, Numpad2 |-> 35, Numpad3 |-> 36, Numpad4 |-> 37,
   Numpad5 |-> 38, Numpad6 |-> 39, Numpad7 |-> 40, Numpad8 |-> 41, Numpad9 |-> 42,
   Cancel |-> 43, Clear |-> 44, Menu |-> 45, Pause |-> 46, Kana |-> 47, Hangul |-> 48,
   Junja |-> 49, Final |-> 50, Hanja |-> 51, Kanji |-> 52, Convert |-> 53, Select |-> 54,
   Execute |-> 56, Snapshot |-> 57, Insert |-> 58, Help |-> 59, Sleep |-> 60, Separator |-> 61,
   Scroll |-> 62, NumLock |-> 63, RWin |-> 64, Apps |-> 65, Multiply |-> 66, Add |-> 67,
   Subtract |-> 68, Decimal |-> 69, Divide |-> 70, Equals |-> 71, NumpadEnter |-> 72,
   RShift |-> 73, RControl |-> 74, RAlt |-> 75, VolumeMute |-> 76, VolumeUp |-> 77,
   VolumeDown |-> 78, Power |-> 79, CtrlAltDel |-> 100, LockScreen |-> 101]
  @@ ("Print" :> 55)

ClipboardFormat ==
  [Text |-> 0, Rtf |-> 1, Html |-> 2, ImageRgba |-> 21, ImagePng |-> 22, ImageSvg |-> 23,
   Special |-> 31]

FileType ==
  [Dir |-> 0, DirLink |-> 2, DirDrive |-> 3, File |-> 4, FileLink |-> 5]

ImageQuality ==
  [NotSet |-> 0, Low |-> 2, Balanced |-> 3, Best |-> 4]

PermissionInfo_Permission ==
  [Keyboard |-> 0, Clipboard |-> 2, Audio |-> 3, File |-> 4, Restart |-> 5, Recording |-> 6,
   BlockInput |-> 7]

SupportedDecoding_PreferCodec ==
  [Auto |-> 0, VP9 |-> 1, H264 |-> 2, H265 |-> 3, VP8 |-> 4, AV1 |-> 5]

OptionMessage_BoolOption ==
  [NotSet |-> 0, No |-> 1, Yes |-> 2]

BackNotification_BlockInputState ==
  [BlkStateUnknown |-> 0, BlkOnSucceeded |-> 2, BlkOnFailed |-> 3, BlkOffSucceeded |-> 4,
   BlkOffFailed |-> 5]

BackNotification_PrivacyModeState ==
  [PrvStateUnknown |-> 0, PrvOnByOther |-> 2, PrvNotSupported |-> 3, PrvOnSucceeded |-> 4,
   PrvOnFailedDenied |-> 5, PrvOnFailedPlugin |-> 6, PrvOnFailed |-> 7, PrvOffSucceeded |-> 8,
   PrvOffByPeer |-> 9, PrvOffFailed |-> 10, PrvOffUnknown |-> 11]

EncodedVideoFrame ==
  Type(<<Field("data", 10, "bytes"), Field("key", 16, "bool"), Field("pts", 24, "int64")>>,
       <<Read(10, "data", "bytes"), Read(16, "key", "bool"), Read(24, "pts", "int64")>>)

EncodedVideoFrames ==
  Type(<<Rep("frames", 10, "EncodedVideoFrame")>>,
       <<Push(10, "frames", "EncodedVideoFrame")>>)

RGB ==
  Type(<<Field("compress", 8, "bool")>>,
       <<Read(8, "compress", "bool")>>)

YUV ==
  Type(<<Field("compress", 8, "bool"), Field("stride", 16, "int32")>>,
       <<Read(8, "compress", "bool"), Read(16, "stride", "int32")>>)

VideoFrameEncode ==
    <<Opt("vp9s", 50, "EncodedVideoFrames"), Opt("rgb", 58, "RGB"), Opt("yuv", 66, "YUV"),
         Opt("h264s", 82, "EncodedVideoFrames"), Opt("h265s", 90, "EncodedVideoFrames"),
         Opt("vp8s", 98, "EncodedVideoFrames"), Opt("av1s", 106, "EncodedVideoFrames"),
         Field("display", 112, "int32")>>

VideoFrameDecode ==
    <<Read(50, "vp9s", "EncodedVideoFrames"), Read(58, "rgb", "RGB"), Read(66, "yuv", "YUV"),
         Read(82, "h264s", "EncodedVideoFrames"), Read(90, "h265s", "EncodedVideoFrames"),
         Read(98, "vp8s", "EncodedVideoFrames"), Read(106, "av1s", "EncodedVideoFrames"),
         Read(112, "display", "int32")>>

VideoFrame == Type(VideoFrameEncode, VideoFrameDecode)

IdPk ==
  Type(<<Field("id", 10, "string"), Field("pk", 18, "bytes")>>,
       <<Read(10, "id", "string"), Read(18, "pk", "bytes")>>)

DisplayInfoEncode ==
    <<Field("x", 8, "sint32"), Field("y", 16, "sint32"), Field("width", 24, "int32"),
         Field("height", 32, "int32"), Field("name", 42, "string"), Field("online", 48, "bool"),
         Field("cursor_embedded", 56, "bool"), Opt("original_resolution", 66, "Resolution"),
         Field("scale", 73, "double")>>

DisplayInfoDecode ==
    <<Read(8, "x", "sint32"), Read(16, "y", "sint32"), Read(24, "width", "int32"),
         Read(32, "height", "int32"), Read(42, "name", "string"), Read(48, "online", "bool"),
         Read(56, "cursor_embedded", "bool"), Read(66, "original_resolution", "Resolution"),
         Read(73, "scale", "double")>>

DisplayInfo == Type(DisplayInfoEncode, DisplayInfoDecode)

PortForward ==
  Type(<<Field("host", 10, "string"), Field("port", 16, "int32")>>,
       <<Read(10, "host", "string"), Read(16, "port", "int32")>>)

FileTransfer ==
  Type(<<Field("dir", 10, "string"), Field("show_hidden", 16, "bool")>>,
       <<Read(10, "dir", "string"), Read(16, "show_hidden", "bool")>>)

OSLogin ==
  Type(<<Field("username", 10, "string"), Field("password", 18, "string")>>,
       <<Read(10, "username", "string"), Read(18, "password", "string")>>)

LoginRequestEncode ==
    <<Field("username", 10, "string"), Field("password", 18, "bytes"),
         Field("my_id", 34, "string"), Field("my_name", 42, "string"),
         Opt("option", 50, "OptionMessage"), Opt("file_transfer", 58, "FileTransfer"),
         Opt("port_forward", 66, "PortForward"), Field("video_ack_required", 72, "bool"),
         Field("session_id", 80, "uint64"), Field("version", 90, "string"),
         Opt("os_login", 98, "OSLogin"), Field("my_platform", 106, "string"),
         Field("hwid", 114, "bytes")>>

LoginRequestDecode ==
    <<Read(10, "username", "string"), Read(18, "password", "bytes"),
         Read(34, "my_id", "string"), Read(42, "my_name", "string"),
         Read(50, "option", "OptionMessage"), Read(58, "file_transfer", "FileTransfer"),
         Read(66, "port_forward", "PortForward"), Read(72, "video_ack_required", "bool"),
         Read(80, "session_id", "uint64"), Read(90, "version", "string"),
         Read(98, "os_login", "OSLogin"), Read(106, "my_platform", "string"),
         Read(114, "hwid", "bytes")>>

LoginRequest == Type(LoginRequestEncode, LoginRequestDecode)

Auth2FA ==
  Type(<<Field("code", 10, "string"), Field("hwid", 18, "bytes")>>,
       <<Read(10, "code", "string"), Read(18, "hwid", "bytes")>>)

ChatMessage ==
  Type(<<Field("text", 10, "string")>>,
       <<Read(10, "text", "string")>>)

Features ==
  Type(<<Field("privacy_mode", 8, "bool")>>,
       <<Read(8, "privacy_mode", "bool")>>)

CodecAbility ==
  Type(<<Field("vp8", 8, "bool"), Field("vp9", 16, "bool"), Field("av1", 24, "bool"),
         Field("h264", 32, "bool"), Field("h265", 40, "bool")>>,
       <<Read(8, "vp8", "bool"), Read(16, "vp9", "bool"), Read(24, "av1", "bool"),
         Read(32, "h264", "bool"), Read(40, "h265", "bool")>>)

SupportedEncoding ==
  Type(<<Field("h264", 8, "bool"), Field("h265", 16, "bool"), Field("vp8", 24, "bool"),
         Field("av1", 32, "bool"), Opt("i444", 42, "CodecAbility")>>,
       <<Read(8, "h264", "bool"), Read(16, "h265", "bool"), Read(24, "vp8", "bool"),
         Read(32, "av1", "bool"), Read(42, "i444", "CodecAbility")>>)

PeerInfoEncode ==
    <<Field("username", 10, "string"), Field("hostname", 18, "string"),
         Field("platform", 26, "string"), Rep("displays", 34, "DisplayInfo"),
         Field("current_display", 40, "int32"), Field("sas_enabled", 48, "bool"),
         Field("version", 58, "string"), Opt("features", 74, "Features"),
         Opt("encoding", 82, "SupportedEncoding"),
         Opt("resolutions", 90, "SupportedResolutions"),
         Field("platform_additions", 98, "string"),
         Opt("windows_sessions", 106, "WindowsSessions")>>

PeerInfoDecode ==
    <<Read(10, "username", "string"), Read(18, "hostname", "string"),
         Read(26, "platform", "string"), Push(34, "displays", "DisplayInfo"),
         Read(40, "current_display", "int32"), Read(48, "sas_enabled", "bool"),
         Read(58, "version", "string"), Read(74, "features", "Features"),
         Read(82, "encoding", "SupportedEncoding"),
         Read(90, "resolutions", "SupportedResolutions"),
         Read(98, "platform_additions", "string"),
         Read(106, "windows_sessions", "WindowsSessions")>>

PeerInfo == Type(PeerInfoEncode, PeerInfoDecode)

WindowsSession ==
  Type(<<Field("sid", 8, "uint32"), Field("name", 18, "string")>>,
       <<Read(8, "sid", "uint32"), Read(18, "name", "string")>>)

LoginResponse ==
  Type(<<Opt("error", 10, "string"), Opt("peer_info", 18, "PeerInfo"),
         Field("enable_trusted_devices", 24, "bool")>>,
       <<Read(10, "error", "string"), Read(18, "peer_info", "PeerInfo"),
         Read(24, "enable_trusted_devices", "bool")>>)

TouchScaleUpdate ==
  Type(<<Field("scale", 8, "int32")>>,
       <<Read(8, "scale", "int32")>>)

TouchPanStart ==
  Type(<<Field("x", 8, "int32"), Field("y", 16, "int32")>>,
       <<Read(8, "x", "int32"), Read(16, "y", "int32")>>)

TouchPanUpdate ==
  Type(<<Field("x", 8, "int32"), Field("y", 16, "int32")>>,
       <<Read(8, "x", "int32"), Read(16, "y", "int32")>>)

TouchPanEnd ==
  Type(<<Field("x", 8, "int32"), Field("y", 16, "int32")>>,
       <<Read(8, "x", "int32"), Read(16, "y", "int32")>>)

TouchEvent ==
  Type(<<Opt("scale_update", 10, "TouchScaleUpdate"), Opt("pan_start", 18, "TouchPanStart"),
         Opt("pan_update", 26, "TouchPanUpdate"), Opt("pan_end", 34, "TouchPanEnd")>>,
       <<Read(10, "scale_update", "TouchScaleUpdate"), Read(18, "pan_start", "TouchPanStart"),
         Read(26, "pan_update", "TouchPanUpdate"), Read(34, "pan_end", "TouchPanEnd")>>)

PointerDeviceEvent ==
  Type(<<Opt("touch_event", 10, "TouchEvent"), Packed("modifiers", 18, "ControlKey")>>,
       <<Read(10, "touch_event", "TouchEvent"), PushPacked(18, "modifiers", "int32")>>)

(* Mutant:  decode() reads x without undoing the zigzag of sint32.                            *)
MouseEventPlain ==
  Type(<<Field("mask", 8, "int32"), Field("x", 16, "sint32"), Field("y", 24, "sint32"),
         Packed("modifiers", 34, "ControlKey")>>,
       <<Read(8, "mask", "int32"), Read(16, "x", "int32"), Read(24, "y", "sint32"),
         PushPacked(34, "modifiers", "int32")>>)

MouseEvent ==
  Type(<<Field("mask", 8, "int32"), Field("x", 16, "sint32"), Field("y", 24, "sint32"),
         Packed("modifiers", 34, "ControlKey")>>,
       <<Read(8, "mask", "int32"), Read(16, "x", "sint32"), Read(24, "y", "sint32"),
         PushPacked(34, "modifiers", "int32")>>)

KeyEventEncode ==
    <<Field("down", 8, "bool"), Field("press", 16, "bool"),
         Opt("control_key", 24, "ControlKey"), Opt("chr", 32, "uint32"),
         Opt("unicode", 40, "uint32"), Opt("seq", 50, "string"),
         Opt("win2win_hotkey", 56, "uint32"), Packed("modifiers", 66, "ControlKey"),
         Field("mode", 72, "KeyboardMode")>>

KeyEventDecode ==
    <<Read(8, "down", "bool"), Read(16, "press", "bool"), Read(24, "control_key", "int32"),
         Read(32, "chr", "uint32"), Read(40, "unicode", "uint32"), Read(50, "seq", "string"),
         Read(56, "win2win_hotkey", "uint32"), PushPacked(66, "modifiers", "int32"),
         Read(72, "mode", "int32")>>

KeyEvent == Type(KeyEventEncode, KeyEventDecode)

CursorData ==
  Type(<<Field("id", 8, "uint64"), Field("hotx", 16, "sint32"), Field("hoty", 24, "sint32"),
         Field("width", 32, "int32"), Field("height", 40, "int32"), Field("colors", 50, "bytes")>>,
       <<Read(8, "id", "uint64"), Read(16, "hotx", "sint32"), Read(24, "hoty", "sint32"),
         Read(32, "width", "int32"), Read(40, "height", "int32"), Read(50, "colors", "bytes")>>)

CursorPosition ==
  Type(<<Field("x", 8, "sint32"), Field("y", 16, "sint32")>>,
       <<Read(8, "x", "sint32"), Read(16, "y", "sint32")>>)

Hash ==
  Type(<<Field("salt", 10, "string"), Field("challenge", 18, "string")>>,
       <<Read(10, "salt", "string"), Read(18, "challenge", "string")>>)

Clipboard ==
  Type(<<Field("compress", 8, "bool"), Field("content", 18, "bytes"),
         Field("width", 24, "int32"), Field("height", 32, "int32"),
         Field("format", 40, "ClipboardFormat"), Field("special_name", 50, "string")>>,
       <<Read(8, "compress", "bool"), Read(18, "content", "bytes"), Read(24, "width", "int32"),
         Read(32, "height", "int32"), Read(40, "format", "int32"),
         Read(50, "special_name", "string")>>)

MultiClipboards ==
  Type(<<Rep("clipboards", 10, "Clipboard")>>,
       <<Push(10, "clipboards", "Clipboard")>>)

FileEntry ==
  Type(<<Field("entry_type", 8, "FileType"), Field("name", 18, "string"),
         Field("is_hidden", 24, "bool"), Field("size", 32, "uint64"),
         Field("modified_time", 40, "uint64")>>,
       <<Read(8, "entry_type", "int32"), Read(18, "name", "string"),
         Read(24, "is_hidden", "bool"), Read(32, "size", "uint64"),
         Read(40, "modified_time", "uint64")>>)

FileDirectory ==
  Type(<<Field("id", 8, "int32"), Field("path", 18, "string"), Rep("entries", 26, "FileEntry")>>,
       <<Read(8, "id", "int32"), Read(18, "path", "string"), Push(26, "entries", "FileEntry")>>)

ReadDir ==
  Type(<<Field("path", 10, "string"), Field("include_hidden", 16, "bool")>>,
       <<Read(10, "path", "string"), Read(16, "include_hidden", "bool")>>)

ReadEmptyDirs ==
  Type(<<Field("path", 10, "string"), Field("include_hidden", 16, "bool")>>,
       <<Read(10, "path", "string"), Read(16, "include_hidden", "bool")>>)

ReadEmptyDirsResponse ==
  Type(<<Field("path", 10, "string"), Rep("empty_dirs", 18, "FileDirectory")>>,
       <<Read(10, "path", "string"), Push(18, "empty_dirs", "FileDirectory")>>)

ReadAllFiles ==
  Type(<<Field("id", 8, "int32"), Field("path", 18, "string"),
         Field("include_hidden", 24, "bool")>>,
       <<Read(8, "id", "int32"), Read(18, "path", "string"), Read(24, "include_hidden", "bool")>>)

FileRename ==
  Type(<<Field("id", 8, "int32"), Field("path", 18, "string"), Field("new_name", 26, "string")>>,
       <<Read(8, "id", "int32"), Read(18, "path", "string"), Read(26, "new_name", "string")>>)

FileActionEncode ==
    <<Opt("read_dir", 10, "ReadDir"), Opt("send", 18, "FileTransferSendRequest"),
         Opt("receive", 26, "FileTransferReceiveRequest"), Opt("create", 34, "FileDirCreate"),
         Opt("remove_dir", 42, "FileRemoveDir"), Opt("remove_file", 50, "FileRemoveFile"),
         Opt("all_files", 58, "ReadAllFiles"), Opt("cancel", 66, "FileTransferCancel"),
         Opt("send_confirm", 74, "FileTransferSendConfirmRequest"),
         Opt("rename", 82, "FileRename"), Opt("read_empty_dirs", 90, "ReadEmptyDirs")>>

FileActionDecode ==
    <<Read(10, "read_dir", "ReadDir"), Read(18, "send", "FileTransferSendRequest"),
         Read(26, "receive", "FileTransferReceiveRequest"), Read(34, "create", "FileDirCreate"),
         Read(42, "remove_dir", "FileRemoveDir"), Read(50, "remove_file", "FileRemoveFile"),
         Read(58, "all_files", "ReadAllFiles"), Read(66, "cancel", "FileTransferCancel"),
         Read(74, "send_confirm", "FileTransferSendConfirmRequest"),
         Read(82, "rename", "FileRename"), Read(90, "read_empty_dirs", "ReadEmptyDirs")>>

FileAction == Type(FileActionEncode, FileActionDecode)

FileTransferCancel ==
  Type(<<Field("id", 8, "int32")>>,
       <<Read(8, "id", "int32")>>)

FileResponse ==
  Type(<<Opt("dir", 10, "FileDirectory"), Opt("block", 18, "FileTransferBlock"),
         Opt("error", 26, "FileTransferError"), Opt("done", 34, "FileTransferDone"),
         Opt("digest", 42, "FileTransferDigest"), Opt("empty_dirs", 50, "ReadEmptyDirsResponse")>>,
       <<Read(10, "dir", "FileDirectory"), Read(18, "block", "FileTransferBlock"),
         Read(26, "error", "FileTransferError"), Read(34, "done", "FileTransferDone"),
         Read(42, "digest", "FileTransferDigest"),
         Read(50, "empty_dirs", "ReadEmptyDirsResponse")>>)

FileTransferDigest ==
  Type(<<Field("id", 8, "int32"), Field("file_num", 16, "sint32"),
         Field("last_modified", 24, "uint64"), Field("file_size", 32, "uint64"),
         Field("is_upload", 40, "bool"), Field("is_identical", 48, "bool")>>,
       <<Read(8, "id", "int32"), Read(16, "file_num", "sint32"),
         Read(24, "last_modified", "uint64"), Read(32, "file_size", "uint64"),
         Read(40, "is_upload", "bool"), Read(48, "is_identical", "bool")>>)

FileTransferBlock ==
  Type(<<Field("id", 8, "int32"), Field("file_num", 16, "sint32"), Field("data", 26, "bytes"),
         Field("compressed", 32, "bool"), Field("blk_id", 40, "uint32")>>,
       <<Read(8, "id", "int32"), Read(16, "file_num", "sint32"), Read(26, "data", "bytes"),
         Read(32, "compressed", "bool"), Read(40, "blk_id", "uint32")>>)

FileTransferError ==
  Type(<<Field("id", 8, "int32"), Field("error", 18, "string"), Field("file_num", 24, "sint32")>>,
       <<Read(8, "id", "int32"), Read(18, "error", "string"), Read(24, "file_num", "sint32")>>)

FileTransferSendRequest ==
  Type(<<Field("id", 8, "int32"), Field("path", 18, "string"),
         Field("include_hidden", 24, "bool"), Field("file_num", 32, "int32")>>,
       <<Read(8, "id", "int32"), Read(18, "path", "string"), Read(24, "include_hidden", "bool"),
         Read(32, "file_num", "int32")>>)

FileTransferSendConfirmRequest ==
  Type(<<Field("id", 8, "int32"), Field("file_num", 16, "sint32"), Opt("skip", 24, "bool"),
         Opt("offset_blk", 32, "uint32")>>,
       <<Read(8, "id", "int32"), Read(16, "file_num", "sint32"), Read(24, "skip", "bool"),
         Read(32, "offset_blk", "uint32")>>)

FileTransferDone ==
  Type(<<Field("id", 8, "int32"), Field("file_num", 16, "sint32")>>,
       <<Read(8, "id", "int32"), Read(16, "file_num", "sint32")>>)

FileTransferReceiveRequest ==
  Type(<<Field("id", 8, "int32"), Field("path", 18, "string"), Rep("files", 26, "FileEntry"),
         Field("file_num", 32, "int32"), Field("total_size", 40, "uint64")>>,
       <<Read(8, "id", "int32"), Read(18, "path", "string"), Push(26, "files", "FileEntry"),
         Read(32, "file_num", "int32"), Read(40, "total_size", "uint64")>>)

FileRemoveDir ==
  Type(<<Field("id", 8, "int32"), Field("path", 18, "string"), Field("recursive", 24, "bool")>>,
       <<Read(8, "id", "int32"), Read(18, "path", "string"), Read(24, "recursive", "bool")>>)

FileRemoveFile ==
  Type(<<Field("id", 8, "int32"), Field("path", 18, "string"), Field("file_num", 24, "sint32")>>,
       <<Read(8, "id", "int32"), Read(18, "path", "string"), Read(24, "file_num", "sint32")>>)

FileDirCreate ==
  Type(<<Field("id", 8, "int32"), Field("path", 18, "string")>>,
       <<Read(8, "id", "int32"), Read(18, "path", "string")>>)

CliprdrMonitorReady ==
  Type(<< >>,
       << >>)

CliprdrFormat ==
  Type(<<Field("id", 16, "int32"), Field("format", 26, "string")>>,
       <<Read(16, "id", "int32"), Read(26, "format", "string")>>)

CliprdrServerFormatList ==
  Type(<<Rep("formats", 18, "CliprdrFormat")>>,
       <<Push(18, "formats", "CliprdrFormat")>>)

CliprdrServerFormatListResponse ==
  Type(<<Field("msg_flags", 16, "int32")>>,
       <<Read(16, "msg_flags", "int32")>>)

CliprdrServerFormatDataRequest ==
  Type(<<Field("requested_format_id", 16, "int32")>>,
       <<Read(16, "requested_format_id", "int32")>>)

CliprdrServerFormatDataResponse ==
  Type(<<Field("msg_flags", 16, "int32"), Field("format_data", 26, "bytes")>>,
       <<Read(16, "msg_flags", "int32"), Read(26, "format_data", "bytes")>>)

CliprdrFileContentsRequestEncode ==
    <<Field("stream_id", 16, "int32"), Field("list_index", 24, "int32"),
         Field("dw_flags", 32, "int32"), Field("n_position_low", 40, "int32"),
         Field("n_position_high", 48, "int32"), Field("cb_requested", 56, "int32"),
         Field("have_clip_data_id", 64, "bool"), Field("clip_data_id", 72, "int32")>>

CliprdrFileContentsRequestDecode ==
    <<Read(16, "stream_id", "int32"), Read(24, "list_index", "int32"),
         Read(32, "dw_flags", "int32"), Read(40, "n_position_low", "int32"),
         Read(48, "n_position_high", "int32"), Read(56, "cb_requested", "int32"),
         Read(64, "have_clip_data_id", "bool"), Read(72, "clip_data_id", "int32")>>

CliprdrFileContentsRequest == Type(CliprdrFileContentsRequestEncode, CliprdrFileContentsRequestDecode)

CliprdrFileContentsResponse ==
  Type(<<Field("msg_flags", 24, "int32"), Field("stream_id", 32, "int32"),
         Field("requested_data", 42, "bytes")>>,
       <<Read(24, "msg_flags", "int32"), Read(32, "stream_id", "int32"),
         Read(42, "requested_data", "bytes")>>)

CliprdrTryEmpty ==
  Type(<< >>,
       << >>)

CliprdrEncode ==
    <<Opt("ready", 10, "CliprdrMonitorReady"),
         Opt("format_list", 18, "CliprdrServerFormatList"),
         Opt("format_list_response", 26, "CliprdrServerFormatListResponse"),
         Opt("format_data_request", 34, "CliprdrServerFormatDataRequest"),
         Opt("format_data_response", 42, "CliprdrServerFormatDataResponse"),
         Opt("file_contents_request", 50, "CliprdrFileContentsRequest"),
         Opt("file_contents_response", 58, "CliprdrFileContentsResponse"),
         Opt("try_empty", 66, "CliprdrTryEmpty")>>

CliprdrDecode ==
    <<Read(10, "ready", "CliprdrMonitorReady"),
         Read(18, "format_list", "CliprdrServerFormatList"),
         Read(26, "format_list_response", "CliprdrServerFormatListResponse"),
         Read(34, "format_data_request", "CliprdrServerFormatDataRequest"),
         Read(42, "format_data_response", "CliprdrServerFormatDataResponse"),
         Read(50, "file_contents_request", "CliprdrFileContentsRequest"),
         Read(58, "file_contents_response", "CliprdrFileContentsResponse"),
         Read(66, "try_empty", "CliprdrTryEmpty")>>

Cliprdr == Type(CliprdrEncode, CliprdrDecode)

Resolution ==
  Type(<<Field("width", 8, "int32"), Field("height", 16, "int32")>>,
       <<Read(8, "width", "int32"), Read(16, "height", "int32")>>)

DisplayResolution ==
  Type(<<Field("display", 8, "int32"), Opt("resolution", 18, "Resolution")>>,
       <<Read(8, "display", "int32"), Read(18, "resolution", "Resolution")>>)

SupportedResolutions ==
  Type(<<Rep("resolutions", 10, "Resolution")>>,
       <<Push(10, "resolutions", "Resolution")>>)

SwitchDisplayEncode ==
    <<Field("display", 8, "int32"), Field("x", 16, "sint32"), Field("y", 24, "sint32"),
         Field("width", 32, "int32"), Field("height", 40, "int32"),
         Field("cursor_embedded", 48, "bool"), Opt("resolutions", 58, "SupportedResolutions"),
         Opt("original_resolution", 66, "Resolution")>>

SwitchDisplayDecode ==
    <<Read(8, "display", "int32"), Read(16, "x", "sint32"), Read(24, "y", "sint32"),
         Read(32, "width", "int32"), Read(40, "height", "int32"),
         Read(48, "cursor_embedded", "bool"), Read(58, "resolutions", "SupportedResolutions"),
         Read(66, "original_resolution", "Resolution")>>

SwitchDisplay == Type(SwitchDisplayEncode, SwitchDisplayDecode)

CaptureDisplays ==
  Type(<<Packed("add", 10, "int32"), Packed("sub", 18, "int32"), Packed("set", 26, "int32")>>,
       <<PushPacked(10, "add", "int32"), PushPacked(18, "sub", "int32"),
         PushPacked(26, "set", "int32")>>)

ToggleVirtualDisplay ==
  Type(<<Field("display", 8, "int32"), Field("on", 16, "bool")>>,
       <<Read(8, "display", "int32"), Read(16, "on", "bool")>>)

TogglePrivacyMode ==
  Type(<<Field("impl_key", 10, "string"), Field("on", 16, "bool")>>,
       <<Read(10, "impl_key", "string"), Read(16, "on", "bool")>>)

PermissionInfo ==
  Type(<<Field("permission", 8, "PermissionInfo_Permission"), Field("enabled", 16, "bool")>>,
       <<Read(8, "permission", "int32"), Read(16, "enabled", "bool")>>)

SupportedDecodingEncode ==
    <<Field("ability_vp9", 8, "int32"), Field("ability_h264", 16, "int32"),
         Field("ability_h265", 24, "int32"),
         Field("prefer", 32, "SupportedDecoding_PreferCodec"),
         Field("ability_vp8", 40, "int32"), Field("ability_av1", 48, "int32"),
         Opt("i444", 58, "CodecAbility"), Field("prefer_chroma", 64, "Chroma")>>

SupportedDecodingDecode ==
    <<Read(8, "ability_vp9", "int32"), Read(16, "ability_h264", "int32"),
         Read(24, "ability_h265", "int32"), Read(32, "prefer", "int32"),
         Read(40, "ability_vp8", "int32"), Read(48, "ability_av1", "int32"),
         Read(58, "i444", "CodecAbility"), Read(64, "prefer_chroma", "int32")>>

SupportedDecoding == Type(SupportedDecodingEncode, SupportedDecodingDecode)

OptionMessageEncode ==
    <<Field("image_quality", 8, "ImageQuality"),
         Field("lock_after_session_end", 16, "OptionMessage_BoolOption"),
         Field("show_remote_cursor", 24, "OptionMessage_BoolOption"),
         Field("privacy_mode", 32, "OptionMessage_BoolOption"),
         Field("block_input", 40, "OptionMessage_BoolOption"),
         Field("custom_image_quality", 48, "int32"),
         Field("disable_audio", 56, "OptionMessage_BoolOption"),
         Field("disable_clipboard", 64, "OptionMessage_BoolOption"),
         Field("enable_file_transfer", 72, "OptionMessage_BoolOption"),
         Opt("supported_decoding", 82, "SupportedDecoding"), Field("custom_fps", 88, "int32"),
         Field("disable_keyboard", 96, "OptionMessage_BoolOption"),
         Field("follow_remote_cursor", 120, "OptionMessage_BoolOption"),
         Field("follow_remote_window", 128, "OptionMessage_BoolOption")>>

OptionMessageDecode ==
    <<Read(8, "image_quality", "int32"), Read(16, "lock_after_session_end", "int32"),
         Read(24, "show_remote_cursor", "int32"), Read(32, "privacy_mode", "int32"),
         Read(40, "block_input", "int32"), Read(48, "custom_image_quality", "int32"),
         Read(56, "disable_audio", "int32"), Read(64, "disable_clipboard", "int32"),
         Read(72, "enable_file_transfer", "int32"),
         Read(82, "supported_decoding", "SupportedDecoding"), Read(88, "custom_fps", "int32"),
         Read(96, "disable_keyboard", "int32"), Read(120, "follow_remote_cursor", "int32"),
         Read(128, "follow_remote_window", "int32")>>

OptionMessage == Type(OptionMessageEncode, OptionMessageDecode)

TestDelay ==
  Type(<<Field("time", 8, "int64"), Field("from_client", 16, "bool"),
         Field("last_delay", 24, "uint32"), Field("target_bitrate", 32, "uint32")>>,
       <<Read(8, "time", "int64"), Read(16, "from_client", "bool"),
         Read(24, "last_delay", "uint32"), Read(32, "target_bitrate", "uint32")>>)

PublicKey ==
  Type(<<Field("asymmetric_value", 10, "bytes"), Field("symmetric_value", 18, "bytes")>>,
       <<Read(10, "asymmetric_value", "bytes"), Read(18, "symmetric_value", "bytes")>>)

SignedId ==
  Type(<<Field("id", 10, "bytes")>>,
       <<Read(10, "id", "bytes")>>)

AudioFormat ==
  Type(<<Field("sample_rate", 8, "uint32"), Field("channels", 16, "uint32")>>,
       <<Read(8, "sample_rate", "uint32"), Read(16, "channels", "uint32")>>)

AudioFrame ==
  Type(<<Field("data", 10, "bytes")>>,
       <<Read(10, "data", "bytes")>>)

MessageBox ==
  Type(<<Field("msgtype", 10, "string"), Field("title", 18, "string"),
         Field("text", 26, "string"), Field("link", 34, "string")>>,
       <<Read(10, "msgtype", "string"), Read(18, "title", "string"), Read(26, "text", "string"),
         Read(34, "link", "string")>>)

BackNotification ==
  Type(<<Opt("privacy_mode_state", 8, "BackNotification_PrivacyModeState"),
         Opt("block_input_state", 16, "BackNotification_BlockInputState"),
         Field("details", 26, "string"), Field("impl_key", 34, "string")>>,
       <<Read(8, "privacy_mode_state", "int32"), Read(16, "block_input_state", "int32"),
         Read(26, "details", "string"), Read(34, "impl_key", "string")>>)

ElevationRequestWithLogon ==
  Type(<<Field("username", 10, "string"), Field("password", 18, "string")>>,
       <<Read(10, "username", "string"), Read(18, "password", "string")>>)

ElevationRequest ==
  Type(<<Opt("direct", 8, "bool"), Opt("logon", 18, "ElevationRequestWithLogon")>>,
       <<Read(8, "direct", "bool"), Read(18, "logon", "ElevationRequestWithLogon")>>)

SwitchSidesRequest ==
  Type(<<Field("uuid", 10, "bytes")>>,
       <<Read(10, "uuid", "bytes")>>)

SwitchSidesResponse ==
  Type(<<Field("uuid", 10, "bytes"), Opt("lr", 18, "LoginRequest")>>,
       <<Read(10, "uuid", "bytes"), Read(18, "lr", "LoginRequest")>>)

SwitchBack ==
  Type(<< >>,
       << >>)

PluginRequest ==
  Type(<<Field("id", 10, "string"), Field("content", 18, "bytes")>>,
       <<Read(10, "id", "string"), Read(18, "content", "bytes")>>)

PluginFailure ==
  Type(<<Field("id", 10, "string"), Field("name", 18, "string"), Field("msg", 26, "string")>>,
       <<Read(10, "id", "string"), Read(18, "name", "string"), Read(26, "msg", "string")>>)

WindowsSessions ==
  Type(<<Rep("sessions", 10, "WindowsSession"), Field("current_sid", 16, "uint32")>>,
       <<Push(10, "sessions", "WindowsSession"), Read(16, "current_sid", "uint32")>>)

MessageQuery ==
  Type(<<Field("switch_display", 8, "int32")>>,
       <<Read(8, "switch_display", "int32")>>)

MiscEncode ==
    <<Opt("chat_message", 34, "ChatMessage"), Opt("switch_display", 42, "SwitchDisplay"),
         Opt("permission_info", 50, "PermissionInfo"), Opt("option", 58, "OptionMessage"),
         Opt("audio_format", 66, "AudioFormat"), Opt("close_reason", 74, "string"),
         Opt("refresh_video", 80, "bool"), Opt("video_received", 96, "bool"),
         Opt("back_notification", 106, "BackNotification"),
         Opt("restart_remote_device", 112, "bool"), Opt("uac", 120, "bool"),
         Opt("foreground_window_elevated", 128, "bool"), Opt("stop_service", 136, "bool"),
         Opt("elevation_request", 146, "ElevationRequest"),
         Opt("elevation_response", 154, "string"), Opt("portable_service_running", 160, "bool"),
         Opt("switch_sides_request", 170, "SwitchSidesRequest"),
         Opt("switch_back", 178, "SwitchBack"), Opt("change_resolution", 194, "Resolution"),
         Opt("plugin_request", 202, "PluginRequest"),
         Opt("plugin_failure", 210, "PluginFailure"), Opt("full_speed_fps", 216, "uint32"),
         Opt("auto_adjust_fps", 224, "uint32"), Opt("client_record_status", 232, "bool"),
         Opt("capture_displays", 242, "CaptureDisplays"),
         Opt("refresh_video_display", 248, "int32"),
         Opt("toggle_virtual_display", 258, "ToggleVirtualDisplay"),
         Opt("toggle_privacy_mode", 266, "TogglePrivacyMode"),
         Opt("supported_encoding", 274, "SupportedEncoding"),
         Opt("selected_sid", 280, "uint32"),
         Opt("change_display_resolution", 290, "DisplayResolution"),
         Opt("message_query", 298, "MessageQuery"), Opt("follow_current_display", 304, "int32")>>

MiscDecode ==
    <<Read(34, "chat_message", "ChatMessage"), Read(42, "switch_display", "SwitchDisplay"),
         Read(50, "permission_info", "PermissionInfo"), Read(58, "option", "OptionMessage"),
         Read(66, "audio_format", "AudioFormat"), Read(74, "close_reason", "string"),
         Read(80, "refresh_video", "bool"), Read(96, "video_received", "bool"),
         Read(106, "back_notification", "BackNotification"),
         Read(112, "restart_remote_device", "bool"), Read(120, "uac", "bool"),
         Read(128, "foreground_window_elevated", "bool"), Read(136, "stop_service", "bool"),
         Read(146, "elevation_request", "ElevationRequest"),
         Read(154, "elevation_response", "string"),
         Read(160, "portable_service_running", "bool"),
         Read(170, "switch_sides_request", "SwitchSidesRequest"),
         Read(178, "switch_back", "SwitchBack"), Read(194, "change_resolution", "Resolution"),
         Read(202, "plugin_request", "PluginRequest"),
         Read(210, "plugin_failure", "PluginFailure"), Read(216, "full_speed_fps", "uint32"),
         Read(224, "auto_adjust_fps", "uint32"), Read(232, "client_record_status", "bool"),
         Read(242, "capture_displays", "CaptureDisplays"),
         Read(248, "refresh_video_display", "int32"),
         Read(258, "toggle_virtual_display", "ToggleVirtualDisplay"),
         Read(266, "toggle_privacy_mode", "TogglePrivacyMode"),
         Read(274, "supported_encoding", "SupportedEncoding"),
         Read(280, "selected_sid", "uint32"),
         Read(290, "change_display_resolution", "DisplayResolution"),
         Read(298, "message_query", "MessageQuery"),
         Read(304, "follow_current_display", "int32")>>

Misc == Type(MiscEncode, MiscDecode)

VoiceCallRequest ==
  Type(<<Field("req_timestamp", 8, "int64"), Field("is_connect", 16, "bool")>>,
       <<Read(8, "req_timestamp", "int64"), Read(16, "is_connect", "bool")>>)

VoiceCallResponse ==
  Type(<<Field("accepted", 8, "bool"), Field("req_timestamp", 16, "int64"),
         Field("ack_timestamp", 24, "int64")>>,
       <<Read(8, "accepted", "bool"), Read(16, "req_timestamp", "int64"),
         Read(24, "ack_timestamp", "int64")>>)

MessageEncode ==
    <<Opt("signed_id", 26, "SignedId"), Opt("public_key", 34, "PublicKey"),
         Opt("test_delay", 42, "TestDelay"), Opt("video_frame", 50, "VideoFrame"),
         Opt("login_request", 58, "LoginRequest"), Opt("login_response", 66, "LoginResponse"),
         Opt("hash", 74, "Hash"), Opt("mouse_event", 82, "MouseEvent"),
         Opt("audio_frame", 90, "AudioFrame"), Opt("cursor_data", 98, "CursorData"),
         Opt("cursor_position", 106, "CursorPosition"), Opt("cursor_id", 112, "uint64"),
         Opt("key_event", 122, "KeyEvent"), Opt("clipboard", 130, "Clipboard"),
         Opt("file_action", 138, "FileAction"), Opt("file_response", 146, "FileResponse"),
         Opt("misc", 154, "Misc"), Opt("cliprdr", 162, "Cliprdr"),
         Opt("message_box", 170, "MessageBox"),
         Opt("switch_sides_response", 178, "SwitchSidesResponse"),
         Opt("voice_call_request", 186, "VoiceCallRequest"),
         Opt("voice_call_response", 194, "VoiceCallResponse"),
         Opt("peer_info", 202, "PeerInfo"),
         Opt("pointer_device_event", 210, "PointerDeviceEvent"),
         Opt("auth_2fa", 218, "Auth2FA"), Opt("multi_clipboards", 226, "MultiClipboards")>>

MessageDecode ==
    <<Read(26, "signed_id", "SignedId"), Read(34, "public_key", "PublicKey"),
         Read(42, "test_delay", "TestDelay"), Read(50, "video_frame", "VideoFrame"),
         Read(58, "login_request", "LoginRequest"), Read(66, "login_response", "LoginResponse"),
         Read(74, "hash", "Hash"), Read(82, "mouse_event", "MouseEvent"),
         Read(90, "audio_frame", "AudioFrame"), Read(98, "cursor_data", "CursorData"),
         Read(106, "cursor_position", "CursorPosition"), Read(112, "cursor_id", "uint64"),
         Read(122, "key_event", "KeyEvent"), Read(130, "clipboard", "Clipboard"),
         Read(138, "file_action", "FileAction"), Read(146, "file_response", "FileResponse"),
         Read(154, "misc", "Misc"), Read(162, "cliprdr", "Cliprdr"),
         Read(170, "message_box", "MessageBox"),
         Read(178, "switch_sides_response", "SwitchSidesResponse"),
         Read(186, "voice_call_request", "VoiceCallRequest"),
         Read(194, "voice_call_response", "VoiceCallResponse"),
         Read(202, "peer_info", "PeerInfo"),
         Read(210, "pointer_device_event", "PointerDeviceEvent"),
         Read(218, "auth_2fa", "Auth2FA"), Read(226, "multi_clipboards", "MultiClipboards")>>

Message == Type(MessageEncode, MessageDecode)

------------------------------------------------------------------------------------------------
(* Every message type and every enum of the file, by name.                                  *)
Types ==
  [EncodedVideoFrame |-> EncodedVideoFrame, EncodedVideoFrames |-> EncodedVideoFrames,
   RGB |-> RGB, YUV |-> YUV, VideoFrame |-> VideoFrame, IdPk |-> IdPk,
   DisplayInfo |-> DisplayInfo, PortForward |-> PortForward, FileTransfer |-> FileTransfer,
   OSLogin |-> OSLogin, LoginRequest |-> LoginRequest, Auth2FA |-> Auth2FA,
   ChatMessage |-> ChatMessage, Features |-> Features, CodecAbility |-> CodecAbility,
   SupportedEncoding |-> SupportedEncoding, PeerInfo |-> PeerInfo,
   WindowsSession |-> WindowsSession, LoginResponse |-> LoginResponse,
   TouchScaleUpdate |-> TouchScaleUpdate, TouchPanStart |-> TouchPanStart,
   TouchPanUpdate |-> TouchPanUpdate, TouchPanEnd |-> TouchPanEnd, TouchEvent |-> TouchEvent,
   PointerDeviceEvent |-> PointerDeviceEvent, MouseEvent |-> MouseEvent, KeyEvent |-> KeyEvent,
   CursorData |-> CursorData, CursorPosition |-> CursorPosition, Hash |-> Hash,
   Clipboard |-> Clipboard, MultiClipboards |-> MultiClipboards, FileEntry |-> FileEntry,
   FileDirectory |-> FileDirectory, ReadDir |-> ReadDir, ReadEmptyDirs |-> ReadEmptyDirs,
   ReadEmptyDirsResponse |-> ReadEmptyDirsResponse, ReadAllFiles |-> ReadAllFiles,
   FileRename |-> FileRename, FileAction |-> FileAction,
   FileTransferCancel |-> FileTransferCancel, FileResponse |-> FileResponse,
   FileTransferDigest |-> FileTransferDigest, FileTransferBlock |-> FileTransferBlock,
   FileTransferError |-> FileTransferError, FileTransferSendRequest |-> FileTransferSendRequest,
   FileTransferSendConfirmRequest |-> FileTransferSendConfirmRequest,
   FileTransferDone |-> FileTransferDone,
   FileTransferReceiveRequest |-> FileTransferReceiveRequest, FileRemoveDir |-> FileRemoveDir,
   FileRemoveFile |-> FileRemoveFile, FileDirCreate |-> FileDirCreate,
   CliprdrMonitorReady |-> CliprdrMonitorReady, CliprdrFormat |-> CliprdrFormat,
   CliprdrServerFormatList |-> CliprdrServerFormatList,
   CliprdrServerFormatListResponse |-> CliprdrServerFormatListResponse,
   CliprdrServerFormatDataRequest |-> CliprdrServerFormatDataRequest,
   CliprdrServerFormatDataResponse |-> CliprdrServerFormatDataResponse,
   CliprdrFileContentsRequest |-> CliprdrFileContentsRequest,
   CliprdrFileContentsResponse |-> CliprdrFileContentsResponse,
   CliprdrTryEmpty |-> CliprdrTryEmpty, Cliprdr |-> Cliprdr, Resolution |-> Resolution,
   DisplayResolution |-> DisplayResolution, SupportedResolutions |-> SupportedResolutions,
   SwitchDisplay |-> SwitchDisplay, CaptureDisplays |-> CaptureDisplays,
   ToggleVirtualDisplay |-> ToggleVirtualDisplay, TogglePrivacyMode |-> TogglePrivacyMode,
   PermissionInfo |-> PermissionInfo, SupportedDecoding |-> SupportedDecoding,
   OptionMessage |-> OptionMessage, TestDelay |-> TestDelay, PublicKey |-> PublicKey,
   SignedId |-> SignedId, AudioFormat |-> AudioFormat, AudioFrame |-> AudioFrame,
   MessageBox |-> MessageBox, BackNotification |-> BackNotification,
   ElevationRequestWithLogon |-> ElevationRequestWithLogon,
   ElevationRequest |-> ElevationRequest, SwitchSidesRequest |-> SwitchSidesRequest,
   SwitchSidesResponse |-> SwitchSidesResponse, SwitchBack |-> SwitchBack,
   PluginRequest |-> PluginRequest, PluginFailure |-> PluginFailure,
   WindowsSessions |-> WindowsSessions, MessageQuery |-> MessageQuery, Misc |-> Misc,
   VoiceCallRequest |-> VoiceCallRequest, VoiceCallResponse |-> VoiceCallResponse,
   Message |-> Message]

Enums ==
  [Chroma |-> Chroma, KeyboardMode |-> KeyboardMode, ControlKey |-> ControlKey,
   ClipboardFormat |-> ClipboardFormat, FileType |-> FileType, ImageQuality |-> ImageQuality,
   PermissionInfo_Permission |-> PermissionInfo_Permission,
   SupportedDecoding_PreferCodec |-> SupportedDecoding_PreferCodec,
   OptionMessage_BoolOption |-> OptionMessage_BoolOption,
   BackNotification_BlockInputState |-> BackNotification_BlockInputState,
   BackNotification_PrivacyModeState |-> BackNotification_PrivacyModeState]
================================================================================================
