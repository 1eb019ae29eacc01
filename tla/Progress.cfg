SPECIFICATION AllSpec
PROPERTIES EventsArrive RecordsArrive MonitorProgress BusinessProgress OutboxProgress
CHECK_DEADLOCK FALSE
